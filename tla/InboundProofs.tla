--------------------------- MODULE InboundProofs ---------------------------
(***************************************************************************)
(* For any bytes, scripts and buffer sizes, and however the network cuts   *)
(* the streams: the buffers' cursors stay in range, the parser returns     *)
(* each frame's command when its last byte has arrived, what is dispatched *)
(* is exactly the commands that have arrived, and the replies reach the    *)
(* client in order.                                                        *)
(***************************************************************************)
EXTENDS Inbound, NatLemmas, SequenceTheorems, TLAPS

-----------------------------------------------------------------------------
(* Recursion on 0..n. *)

Follows(f, n, a, step) == f[0] = a /\ \A i \in 1..n : f[i] = step[i][f[i - 1]]

\* A function given by its first value and a step from one value to the next exists.
LEMMA RecursionExists ==
    ASSUME NEW n \in Nat, NEW V, NEW a \in V, NEW step \in [1..n -> [V -> V]]
    PROVE  \E f \in [0..n -> V] : Follows(f, n, a, step)
  <1> DEFINE Runs(m, f) == f[0] = a /\ \A i \in 1..m : f[i] = step[i][f[i - 1]]
             T == {m \in 0..n : \E f \in [0..m -> V] : Runs(m, f)}
  <1>1. 0 \in T
    <2>1. PICK f : f = [i \in 0..0 |-> a]
      OBVIOUS
    <2>2. f \in [0..0 -> V] /\ f[0] = a
      BY <2>1
    <2>3. \A i \in 1..0 : FALSE
      OBVIOUS
    <2> QED
      BY <2>2, <2>3
  <1>2. ASSUME NEW m \in 1..n, m - 1 \in T PROVE m \in T
    <2>1. PICK f \in [0..(m - 1) -> V] : Runs(m - 1, f)
      BY <1>2
    <2>2. PICK w \in V : w = step[m][f[m - 1]]
      OBVIOUS
    <2>3. PICK g : g = [i \in 0..m |-> IF i = m THEN w ELSE f[i]]
      OBVIOUS
    <2>4. g \in [0..m -> V] /\ g[m] = w /\ \A i \in 0..(m - 1) : g[i] = f[i]
      BY <2>3
    <2>5. ASSUME NEW i \in 1..m PROVE g[i] = step[i][g[i - 1]]
      <3>1. CASE i = m
        BY <2>2, <2>4, <3>1
      <3>2. CASE i # m
        <4>1. i \in 1..(m - 1) /\ g[i] = f[i] /\ g[i - 1] = f[i - 1]
          BY <2>4, <3>2
        <4> QED
          BY <2>1, <4>1
      <3> QED
        BY <3>1, <3>2
    <2>6. Runs(m, g)
      BY <2>1, <2>4, <2>5
    <2> HIDE DEF Runs
    <2> QED
      BY <2>4, <2>6
  <1> HIDE DEF T
  <1>3. \A i \in 0..n : i \in T
    BY <1>1, <1>2, UpTo
  <1>4. n \in T
    BY <1>3
  <1> QED
    BY <1>4 DEF T, Follows

\* The values of a function with such a step.
LEMMA RecursionTyped ==
    ASSUME NEW n \in Nat, NEW V, NEW f, f = [i \in 0..n |-> f[i]],
           f[0] \in V, \A i \in 1..n : f[i - 1] \in V => f[i] \in V
    PROVE  f \in [0..n -> V]
  <1> DEFINE T == {i \in 0..n : f[i] \in V}
  <1>1. 0 \in T /\ \A i \in 1..n : i - 1 \in T => i \in T
    OBVIOUS
  <1> HIDE DEF T
  <1>2. \A i \in 0..n : i \in T
    BY <1>1, UpTo
  <1> QED
    BY <1>2 DEF T

-----------------------------------------------------------------------------
(* What the recursive functions of the model compute. *)

\* The defining equations of the recursive functions of the model.
LEMMA JoinedDef ==
    ASSUME NEW ss \in Args
    PROVE  /\ joined(ss) \in [0..Len(ss) -> Seq(Byte)]
           /\ joined(ss)[0] = <<>>
           /\ \A i \in 1..Len(ss) : joined(ss)[i] = joined(ss)[i - 1] \o ss[i]
  <1> DEFINE n == Len(ss)
             V == Seq(Byte)
             next(i, v) == v \o ss[i]
             step == [i \in 1..n |-> [v \in V |-> next(i, v)]]
             f == joined(ss)
  <1>1. n \in Nat /\ <<>> \in V
    BY DEF Args
  <1>2. \A i \in 1..n : \A v \in V : next(i, v) \in V
    BY DEF Args
  <1>3. f = CHOOSE j : j = [i \in 0..n |-> IF i = 0 THEN <<>> ELSE next(i, j[i - 1])]
    BY DEF joined
  <1> HIDE DEF n, V, next, f
  <1>4. step \in [1..n -> [V -> V]] /\ \A i \in 1..n : \A v \in V : step[i][v] = next(i, v)
    BY <1>2
  <1> HIDE DEF step
  <1>5. PICK a \in V : a = <<>>
    BY <1>1
  <1>6. PICK g \in [0..n -> V] : Follows(g, n, a, step)
    BY <1>1, <1>4, RecursionExists
  <1>7. g[0] = a /\ \A i \in 1..n : g[i] = next(i, g[i - 1])
    BY <1>1, <1>4, <1>6 DEF Follows
  <1>8. g = [i \in 0..n |-> IF i = 0 THEN a ELSE next(i, g[i - 1])]
    BY <1>1, <1>6, <1>7
  <1>9. f = [i \in 0..n |-> IF i = 0 THEN a ELSE next(i, f[i - 1])]
    BY <1>3, <1>5, <1>8
  <1>10. f[0] = a /\ (\A i \in 1..n : f[i] = next(i, f[i - 1])) /\ f = [i \in 0..n |-> f[i]]
    <2>1. 0 \in 0..n /\ \A i \in 1..n : i \in 0..n /\ i # 0
      BY <1>1
    <2>2. f = [i \in 0..n |-> f[i]]
      BY <1>9, Zenon
    <2>3. \A i \in 0..n : f[i] = IF i = 0 THEN a ELSE next(i, f[i - 1])
      BY <1>9, Zenon
    <2> QED
      BY <2>1, <2>2, <2>3, Zenon
  <1>11. f \in [0..n -> V]
    <2>1. \A i \in 1..n : f[i - 1] \in V => f[i] \in V
      BY <1>2, <1>10, Zenon
    <2> QED
      BY <1>1, <1>5, <1>10, <2>1, RecursionTyped, Zenon
  <1> QED
    BY <1>5, <1>10, <1>11, Zenon DEF f, n, V, next

LEMMA ValuesDef ==
    ASSUME NEW s \in Seq(Byte), \A i \in 1..Len(s) : isDigit(s[i])
    PROVE  /\ values(s) \in [0..Len(s) -> Nat]
           /\ values(s)[0] = 0
           /\ \A i \in 1..Len(s) : values(s)[i] = 10 * values(s)[i - 1] + digitValue(s[i])
  <1> DEFINE n == Len(s)
             V == Nat
             next(i, v) == 10 * v + digitValue(s[i])
             step == [i \in 1..n |-> [v \in V |-> next(i, v)]]
             f == values(s)
  <1>1. n \in Nat /\ 0 \in V
    OBVIOUS
  <1>2. \A i \in 1..n : \A v \in V : next(i, v) \in V
    <2>1. \A i \in 1..n : digitValue(s[i]) \in 0..9
      BY DEF isDigit, digitValue
    <2> QED
      BY <2>1
  <1>3. f = CHOOSE j : j = [i \in 0..n |-> IF i = 0 THEN 0 ELSE next(i, j[i - 1])]
    BY DEF values
  <1> HIDE DEF n, V, next, f
  <1>4. step \in [1..n -> [V -> V]] /\ \A i \in 1..n : \A v \in V : step[i][v] = next(i, v)
    BY <1>2
  <1> HIDE DEF step
  <1>5. PICK a \in V : a = 0
    BY <1>1
  <1>6. PICK g \in [0..n -> V] : Follows(g, n, a, step)
    BY <1>1, <1>4, RecursionExists
  <1>7. g[0] = a /\ \A i \in 1..n : g[i] = next(i, g[i - 1])
    BY <1>1, <1>4, <1>6 DEF Follows
  <1>8. g = [i \in 0..n |-> IF i = 0 THEN a ELSE next(i, g[i - 1])]
    BY <1>1, <1>6, <1>7
  <1>9. f = [i \in 0..n |-> IF i = 0 THEN a ELSE next(i, f[i - 1])]
    BY <1>3, <1>5, <1>8
  <1>10. f[0] = a /\ (\A i \in 1..n : f[i] = next(i, f[i - 1])) /\ f = [i \in 0..n |-> f[i]]
    <2>1. 0 \in 0..n /\ \A i \in 1..n : i \in 0..n /\ i # 0
      BY <1>1
    <2>2. f = [i \in 0..n |-> f[i]]
      BY <1>9, Zenon
    <2>3. \A i \in 0..n : f[i] = IF i = 0 THEN a ELSE next(i, f[i - 1])
      BY <1>9, Zenon
    <2> QED
      BY <2>1, <2>2, <2>3, Zenon
  <1>11. f \in [0..n -> V]
    <2>1. \A i \in 1..n : f[i - 1] \in V => f[i] \in V
      BY <1>2, <1>10, Zenon
    <2> QED
      BY <1>1, <1>5, <1>10, <2>1, RecursionTyped, Zenon
  <1> QED
    BY <1>5, <1>10, <1>11, Zenon DEF f, n, V, next

LEMMA DoubledDef ==
    ASSUME NEW size \in Nat, NEW needed \in Nat
    PROVE  /\ doubled(size, needed) \in [0..needed -> Nat \ {0}]
           /\ doubled(size, needed)[0] = (IF size = 0 THEN kInitialCapacity ELSE size)
           /\ \A i \in 1..needed : doubled(size, needed)[i] = twiceIfSmall(doubled(size, needed)[i - 1], needed)
  <1> DEFINE n == needed
             V == Nat \ {0}
             next(i, v) == twiceIfSmall(v, needed)
             step == [i \in 1..n |-> [v \in V |-> next(i, v)]]
             f == doubled(size, needed)
  <1>1. n \in Nat /\ (IF size = 0 THEN kInitialCapacity ELSE size) \in V
    BY CapacityAssumption
  <1>2. \A i \in 1..n : \A v \in V : next(i, v) \in V
    BY DEF twiceIfSmall
  <1>3. f = CHOOSE j : j = [i \in 0..n |-> IF i = 0 THEN (IF size = 0 THEN kInitialCapacity ELSE size) ELSE next(i, j[i - 1])]
    BY DEF doubled
  <1> HIDE DEF n, V, next, f
  <1>4. step \in [1..n -> [V -> V]] /\ \A i \in 1..n : \A v \in V : step[i][v] = next(i, v)
    BY <1>2
  <1> HIDE DEF step
  <1>5. PICK a \in V : a = (IF size = 0 THEN kInitialCapacity ELSE size)
    BY <1>1
  <1>6. PICK g \in [0..n -> V] : Follows(g, n, a, step)
    BY <1>1, <1>4, RecursionExists
  <1>7. g[0] = a /\ \A i \in 1..n : g[i] = next(i, g[i - 1])
    BY <1>1, <1>4, <1>6 DEF Follows
  <1>8. g = [i \in 0..n |-> IF i = 0 THEN a ELSE next(i, g[i - 1])]
    BY <1>1, <1>6, <1>7
  <1>9. f = [i \in 0..n |-> IF i = 0 THEN a ELSE next(i, f[i - 1])]
    BY <1>3, <1>5, <1>8
  <1>10. f[0] = a /\ (\A i \in 1..n : f[i] = next(i, f[i - 1])) /\ f = [i \in 0..n |-> f[i]]
    <2>1. 0 \in 0..n /\ \A i \in 1..n : i \in 0..n /\ i # 0
      BY <1>1
    <2>2. f = [i \in 0..n |-> f[i]]
      BY <1>9, Zenon
    <2>3. \A i \in 0..n : f[i] = IF i = 0 THEN a ELSE next(i, f[i - 1])
      BY <1>9, Zenon
    <2> QED
      BY <2>1, <2>2, <2>3, Zenon
  <1>11. f \in [0..n -> V]
    <2>1. \A i \in 1..n : f[i - 1] \in V => f[i] \in V
      BY <1>2, <1>10, Zenon
    <2> QED
      BY <1>1, <1>5, <1>10, <2>1, RecursionTyped, Zenon
  <1> QED
    BY <1>5, <1>10, <1>11, Zenon DEF f, n, V, next

LEMMA StrippedDef ==
    ASSUME NEW m \in Nat
    PROVE  /\ stripped(m) \in [0..m -> [rest : Nat, digits : Seq(Byte)]]
           /\ stripped(m)[0] = [rest |-> m, digits |-> <<>>]
           /\ \A i \in 1..m : stripped(m)[i] = oneDigit(stripped(m)[i - 1])
  <1> DEFINE n == m
             V == [rest : Nat, digits : Seq(Byte)]
             next(i, v) == oneDigit(v)
             step == [i \in 1..n |-> [v \in V |-> next(i, v)]]
             f == stripped(m)
  <1>1. n \in Nat /\ [rest |-> m, digits |-> <<>>] \in V
    OBVIOUS
  <1>2. \A i \in 1..n : \A v \in V : next(i, v) \in V
    <2> SUFFICES ASSUME NEW v \in V PROVE oneDigit(v) \in V
      OBVIOUS
    <2>1. v.rest \in Nat /\ v.digits \in Seq(Byte)
      OBVIOUS
    <2>2. v.rest \div 10 \in Nat /\ (v.rest % 10) + 1 \in 1..10
      BY <2>1
    <2>3. Digit[(v.rest % 10) + 1] \in Byte
      BY <2>2, ByteAssumption
    <2>4. <<Digit[(v.rest % 10) + 1]>> \o v.digits \in Seq(Byte)
      BY <2>1, <2>3
    <2> QED
      BY <2>1, <2>2, <2>4 DEF oneDigit
  <1>3. f = CHOOSE j : j = [i \in 0..n |-> IF i = 0 THEN [rest |-> m, digits |-> <<>>] ELSE next(i, j[i - 1])]
    BY DEF stripped
  <1> HIDE DEF n, V, next, f
  <1>4. step \in [1..n -> [V -> V]] /\ \A i \in 1..n : \A v \in V : step[i][v] = next(i, v)
    BY <1>2
  <1> HIDE DEF step
  <1>5. PICK a \in V : a = [rest |-> m, digits |-> <<>>]
    BY <1>1
  <1>6. PICK g \in [0..n -> V] : Follows(g, n, a, step)
    BY <1>1, <1>4, RecursionExists
  <1>7. g[0] = a /\ \A i \in 1..n : g[i] = next(i, g[i - 1])
    BY <1>1, <1>4, <1>6 DEF Follows
  <1>8. g = [i \in 0..n |-> IF i = 0 THEN a ELSE next(i, g[i - 1])]
    BY <1>1, <1>6, <1>7
  <1>9. f = [i \in 0..n |-> IF i = 0 THEN a ELSE next(i, f[i - 1])]
    BY <1>3, <1>5, <1>8
  <1>10. f[0] = a /\ (\A i \in 1..n : f[i] = next(i, f[i - 1])) /\ f = [i \in 0..n |-> f[i]]
    <2>1. 0 \in 0..n /\ \A i \in 1..n : i \in 0..n /\ i # 0
      BY <1>1
    <2>2. f = [i \in 0..n |-> f[i]]
      BY <1>9, Zenon
    <2>3. \A i \in 0..n : f[i] = IF i = 0 THEN a ELSE next(i, f[i - 1])
      BY <1>9, Zenon
    <2> QED
      BY <2>1, <2>2, <2>3, Zenon
  <1>11. f \in [0..n -> V]
    <2>1. \A i \in 1..n : f[i - 1] \in V => f[i] \in V
      BY <1>2, <1>10, Zenon
    <2> QED
      BY <1>1, <1>5, <1>10, <2>1, RecursionTyped, Zenon
  <1> QED
    BY <1>5, <1>10, <1>11, Zenon DEF f, n, V, next

LEMMA TokensDef ==
    ASSUME NEW line \in Seq(Byte)
    PROVE  /\ tokens(line) \in [0..Len(line) -> Args]
           /\ tokens(line)[0] = <<>>
           /\ \A i \in 1..Len(line) : tokens(line)[i] = withByte(line, i, tokens(line)[i - 1])
  <1> DEFINE n == Len(line)
             V == Args
             next(i, v) == withByte(line, i, v)
             step == [i \in 1..n |-> [v \in V |-> next(i, v)]]
             f == tokens(line)
  <1>1. n \in Nat /\ <<>> \in V
    BY DEF Args
  <1>2. \A i \in 1..n : \A v \in V : next(i, v) \in V
    <2> SUFFICES ASSUME NEW i \in 1..n, NEW v \in V PROVE withByte(line, i, v) \in V
      OBVIOUS
    <2>1. line[i] \in Byte
      OBVIOUS
    <2>2. Append(v, <<line[i]>>) \in V
      BY <2>1 DEF Args
    <2>3. [v EXCEPT ![Len(v)] = Append(@, line[i])] \in V
      <3>1. v \in [1..Len(v) -> Seq(Byte)] /\ Len(v) \in Nat
        BY DEF Args
      <3>2. \A k \in 1..Len(v) : Append(v[k], line[i]) \in Seq(Byte)
        BY <2>1, <3>1
      <3>3. [v EXCEPT ![Len(v)] = Append(@, line[i])] \in [1..Len(v) -> Seq(Byte)]
        BY <3>1, <3>2
      <3> QED
        BY <3>1, <3>3, SeqDef DEF Args
    <2> QED
      BY <2>2, <2>3 DEF withByte
  <1>3. f = CHOOSE j : j = [i \in 0..n |-> IF i = 0 THEN <<>> ELSE next(i, j[i - 1])]
    BY DEF tokens
  <1> HIDE DEF n, V, next, f
  <1>4. step \in [1..n -> [V -> V]] /\ \A i \in 1..n : \A v \in V : step[i][v] = next(i, v)
    BY <1>2
  <1> HIDE DEF step
  <1>5. PICK a \in V : a = <<>>
    BY <1>1
  <1>6. PICK g \in [0..n -> V] : Follows(g, n, a, step)
    BY <1>1, <1>4, RecursionExists
  <1>7. g[0] = a /\ \A i \in 1..n : g[i] = next(i, g[i - 1])
    BY <1>1, <1>4, <1>6 DEF Follows
  <1>8. g = [i \in 0..n |-> IF i = 0 THEN a ELSE next(i, g[i - 1])]
    BY <1>1, <1>6, <1>7
  <1>9. f = [i \in 0..n |-> IF i = 0 THEN a ELSE next(i, f[i - 1])]
    BY <1>3, <1>5, <1>8
  <1>10. f[0] = a /\ (\A i \in 1..n : f[i] = next(i, f[i - 1])) /\ f = [i \in 0..n |-> f[i]]
    <2>1. 0 \in 0..n /\ \A i \in 1..n : i \in 0..n /\ i # 0
      BY <1>1
    <2>2. f = [i \in 0..n |-> f[i]]
      BY <1>9, Zenon
    <2>3. \A i \in 0..n : f[i] = IF i = 0 THEN a ELSE next(i, f[i - 1])
      BY <1>9, Zenon
    <2> QED
      BY <2>1, <2>2, <2>3, Zenon
  <1>11. f \in [0..n -> V]
    <2>1. \A i \in 1..n : f[i - 1] \in V => f[i] \in V
      BY <1>2, <1>10, Zenon
    <2> QED
      BY <1>1, <1>5, <1>10, <2>1, RecursionTyped, Zenon
  <1> QED
    BY <1>5, <1>10, <1>11, Zenon DEF f, n, V, next

-----------------------------------------------------------------------------
(* The parser looks at nothing but the bytes it is given. *)

\* The line end found lies within the bytes.
LEMMA FindCRLF ==
    ASSUME NEW d \in Seq(Byte), NEW from \in Nat \ {0}
    PROVE  \/ findCRLF(d, from) = 0
           \/ /\ findCRLF(d, from) \in from..(Len(d) - 1)
              /\ d[findCRLF(d, from)] = "CR" /\ d[findCRLF(d, from) + 1] = "LF"
  <1> DEFINE at == {i \in from..(Len(d) - 1) : d[i] = "CR" /\ d[i + 1] = "LF"}
  <1>1. findCRLF(d, from) = IF at = {} THEN 0 ELSE CHOOSE i \in at : \A j \in at : i <= j
    BY DEF findCRLF
  <1>2. CASE at # {}
    <2>1. at \in SUBSET Nat
      OBVIOUS
    <2> HIDE DEF at
    <2>2. \E i \in at : \A j \in at : i <= j
      BY <1>2, <2>1, LeastNat
    <2>3. findCRLF(d, from) \in at
      BY <1>1, <1>2, <2>2
    <2> QED
      BY <2>3 DEF at
  <1> QED
    BY <1>1, <1>2

\* A length or a count is an integer.
LEMMA AtoiInt ==
    ASSUME NEW s \in Seq(Byte)
    PROVE  atoi(s) \in Int
  <1> DEFINE n == Len(s)
             start == CHOOSE i \in 1..(n + 1) :
                         /\ \A j \in 1..(i - 1) : s[j] \in Space
                         /\ i <= n => s[i] \notin Space
             signed == start <= n /\ s[start] \in {"-", "+"}
             first == IF signed THEN start + 1 ELSE start
             end == CHOOSE i \in first..(n + 1) :
                       /\ \A j \in first..(i - 1) : isDigit(s[j])
                       /\ i <= n => ~isDigit(s[i])
             value == values(SubSeq(s, first, end - 1))[end - first]
  <1>0. n \in Nat
    OBVIOUS
  <1>1. atoi(s) = IF signed /\ s[start] = "-" THEN -value ELSE value
    BY DEF atoi
  <1> HIDE DEF n
  <1>2. start \in 1..(n + 1)
    <2> DEFINE T == {i \in 1..(n + 1) : i <= n => s[i] \notin Space}
    <2>1. n + 1 \in T /\ T \in SUBSET Nat
      BY <1>0
    <2> HIDE DEF T
    <2>2. PICK x \in T : \A y \in T : x <= y
      BY <2>1, LeastNat
    <2>3. x \in 1..(n + 1) /\ (x <= n => s[x] \notin Space)
      BY <2>2 DEF T
    <2>4. \A j \in 1..(x - 1) : s[j] \in Space
      BY <1>0, <2>2, <2>3 DEF T
    <2> QED
      BY <2>3, <2>4
  <1> HIDE DEF start
  <1>3. first \in 1..(n + 1)
    BY <1>0, <1>2
  <1> HIDE DEF first, signed
  <1>4. end \in first..(n + 1) /\ \A j \in first..(end - 1) : isDigit(s[j])
    <2> DEFINE T == {i \in first..(n + 1) : i <= n => ~isDigit(s[i])}
    <2>1. n + 1 \in T /\ T \in SUBSET Nat
      BY <1>0, <1>3
    <2> HIDE DEF T
    <2>2. PICK x \in T : \A y \in T : x <= y
      BY <2>1, LeastNat
    <2>3. x \in first..(n + 1) /\ (x <= n => ~isDigit(s[x]))
      BY <2>2 DEF T
    <2>4. \A j \in first..(x - 1) : isDigit(s[j])
      BY <1>0, <1>3, <2>2, <2>3 DEF T
    <2> QED
      BY <2>3, <2>4
  <1> HIDE DEF end
  <1>5. PICK t : t = SubSeq(s, first, end - 1)
    OBVIOUS
  <1>6. /\ t \in Seq(Byte) /\ Len(t) = end - first
        /\ \A i \in 1..Len(t) : t[i] = s[first + i - 1]
    BY <1>0, <1>3, <1>4, <1>5 DEF n
  <1>7. \A i \in 1..Len(t) : isDigit(t[i])
    BY <1>3, <1>4, <1>6
  <1>8. values(t)[Len(t)] \in Nat
    BY <1>6, <1>7, ValuesDef
  <1>9. value \in Nat
    BY <1>5, <1>6, <1>8
  <1> QED
    BY <1>1, <1>9

\* Where the loop of parseArray can be that began at `from'.
Turn(d, from) == [ok : BOOLEAN, pos : from..(Len(d) + 1), args : Args]

\* A turn of parseArray moves forward and not beyond the bytes.
LEMMA NextBulkTurn ==
    ASSUME NEW d \in Seq(Byte), NEW from \in Nat \ {0}, NEW s \in Turn(d, from)
    PROVE  nextBulk(d, s) \in Turn(d, from)
  <1> DEFINE line == findCRLF(d, s.pos + 1)
             len == atoi(SubSeq(d, s.pos + 1, line - 1))
             start == line + 2
             end == start + len
             wrong == \/ s.pos > Len(d) \/ d[s.pos] # "$" \/ line = 0
                      \/ len >= 0 /\ trailerBad(d, end)
  <1>1. nextBulk(d, s)
          = IF ~s.ok \/ wrong THEN [s EXCEPT !.ok = FALSE]
            ELSE IF len < 0 THEN [ok |-> TRUE, pos |-> start, args |-> Append(s.args, <<>>)]
            ELSE [ok |-> TRUE, pos |-> end + 2, args |-> Append(s.args, SubSeq(d, start, end - 1))]
    BY DEF nextBulk
  <1>2. s.pos \in from..(Len(d) + 1) /\ s.args \in Args /\ Len(d) \in Nat /\ s.ok \in BOOLEAN
    BY DEF Turn
  <1>3. CASE ~s.ok \/ wrong
    <2>1. nextBulk(d, s) = [s EXCEPT !.ok = FALSE]
      BY <1>1, <1>3
    <2> QED
      BY <2>1 DEF Turn
  <1>4. CASE ~(~s.ok \/ wrong)
    <2>1. line \in (s.pos + 1)..(Len(d) - 1)
      BY <1>2, <1>4, FindCRLF
    <2>2. SubSeq(d, s.pos + 1, line - 1) \in Seq(Byte)
      BY <1>2, <2>1
    <2>3. len \in Int
      BY <2>2, AtoiInt
    <2>4. len >= 0 => ~trailerBad(d, end)
      BY <1>4
    <2> HIDE DEF line, len, wrong
    <2>5. start \in from..(Len(d) + 1)
      BY <1>2, <2>1
    <2>6. CASE len < 0
      <3>1. Append(s.args, <<>>) \in Args
        BY <1>2 DEF Args
      <3>2. nextBulk(d, s) = [ok |-> TRUE, pos |-> start, args |-> Append(s.args, <<>>)]
        BY <1>1, <1>4, <2>6
      <3> QED
        BY <2>5, <3>1, <3>2 DEF Turn
    <2>7. CASE ~(len < 0)
      <3>1. end + 2 \in from..(Len(d) + 1)
        BY <1>2, <2>1, <2>3, <2>4, <2>7 DEF trailerBad
      <3>2. SubSeq(d, start, end - 1) \in Seq(Byte)
        BY <1>2, <2>3, <2>5, <2>7, <3>1
      <3>3. Append(s.args, SubSeq(d, start, end - 1)) \in Args
        BY <1>2, <3>2 DEF Args
      <3>4. nextBulk(d, s) = [ok |-> TRUE, pos |-> end + 2,
                              args |-> Append(s.args, SubSeq(d, start, end - 1))]
        BY <1>1, <1>4, <2>7
      <3> HIDE DEF end, start
      <3> QED
        BY <3>1, <3>3, <3>4 DEF Turn
    <2> QED
      BY <2>6, <2>7
  <1> QED
    BY <1>3, <1>4

\* The loop of parseArray: between two turns pos lies behind the bytes parsed so far.
LEMMA BulksDef ==
    ASSUME NEW d \in Seq(Byte), NEW pos \in 1..(Len(d) + 1), NEW count \in Nat
    PROVE  /\ bulks(d, pos, count) \in [0..count -> Turn(d, pos)]
           /\ bulks(d, pos, count)[0] = [ok |-> TRUE, pos |-> pos, args |-> <<>>]
           /\ \A i \in 1..count : bulks(d, pos, count)[i] = nextBulk(d, bulks(d, pos, count)[i - 1])
  <1> DEFINE n == count
             V == Turn(d, pos)
             next(i, v) == nextBulk(d, v)
             step == [i \in 1..n |-> [v \in V |-> next(i, v)]]
             f == bulks(d, pos, count)
  <1>1. n \in Nat /\ [ok |-> TRUE, pos |-> pos, args |-> <<>>] \in V
    BY DEF Turn, Args
  <1>2. \A i \in 1..n : \A v \in V : next(i, v) \in V
    BY NextBulkTurn
  <1>3. f = CHOOSE j : j = [i \in 0..n |-> IF i = 0 THEN [ok |-> TRUE, pos |-> pos, args |-> <<>>] ELSE next(i, j[i - 1])]
    BY DEF bulks
  <1> HIDE DEF n, V, next, f
  <1>4. step \in [1..n -> [V -> V]] /\ \A i \in 1..n : \A v \in V : step[i][v] = next(i, v)
    BY <1>2
  <1> HIDE DEF step
  <1>5. PICK a \in V : a = [ok |-> TRUE, pos |-> pos, args |-> <<>>]
    BY <1>1
  <1>6. PICK g \in [0..n -> V] : Follows(g, n, a, step)
    BY <1>1, <1>4, RecursionExists
  <1>7. g[0] = a /\ \A i \in 1..n : g[i] = next(i, g[i - 1])
    BY <1>1, <1>4, <1>6 DEF Follows
  <1>8. g = [i \in 0..n |-> IF i = 0 THEN a ELSE next(i, g[i - 1])]
    BY <1>1, <1>6, <1>7
  <1>9. f = [i \in 0..n |-> IF i = 0 THEN a ELSE next(i, f[i - 1])]
    BY <1>3, <1>5, <1>8
  <1>10. f[0] = a /\ (\A i \in 1..n : f[i] = next(i, f[i - 1])) /\ f = [i \in 0..n |-> f[i]]
    <2>1. 0 \in 0..n /\ \A i \in 1..n : i \in 0..n /\ i # 0
      BY <1>1
    <2>2. f = [i \in 0..n |-> f[i]]
      BY <1>9, Zenon
    <2>3. \A i \in 0..n : f[i] = IF i = 0 THEN a ELSE next(i, f[i - 1])
      BY <1>9, Zenon
    <2> QED
      BY <2>1, <2>2, <2>3, Zenon
  <1>11. f \in [0..n -> V]
    <2>1. \A i \in 1..n : f[i - 1] \in V => f[i] \in V
      BY <1>2, <1>10, Zenon
    <2> QED
      BY <1>1, <1>5, <1>10, <2>1, RecursionTyped, Zenon
  <1> QED
    BY <1>5, <1>10, <1>11, Zenon DEF f, n, V, next

\* A parsed command has a length, and it has arrived.
LEMMA ParseBounds ==
    ASSUME NEW d \in Seq(Byte), parse(d).ok
    PROVE  parse(d).bytesConsumed \in 1..Len(d) /\ parse(d).args \in Args
  <1>0. None.ok = FALSE /\ \A a, b : /\ Parsed(a, b).ok = TRUE /\ Parsed(a, b).args = a
                                    /\ Parsed(a, b).bytesConsumed = b
    BY DEF None, Parsed
  <1>1. d # <<>> /\ Len(d) \in Nat
    BY <1>0 DEF parse
  <1>2. CASE d[1] = "*"
    <2> DEFINE line == findCRLF(d, 2)
               count == atoi(SubSeq(d, 2, line - 1))
    <2>1. parse(d) = parseArray(d)
      BY <1>1, <1>2 DEF parse
    <2>2. parseArray(d) = CASE line = 0 -> None
                            [] line > 0 /\ count < 0 -> Parsed(<<>>, line + 1)
                            [] line > 0 /\ count >= 0 -> bulkStrings(d, line + 2, count)
      BY DEF parseArray
    <2>3. line = 0 \/ line \in 2..(Len(d) - 1)
      BY FindCRLF
    <2>4. SubSeq(d, 2, line - 1) \in Seq(Byte)
      BY <1>1, <2>3
    <2>5. count \in Int
      BY <2>4, AtoiInt
    <2> HIDE DEF line, count
    <2>6. CASE line = 0
      BY <1>0, <2>1, <2>2, <2>6
    <2>7. CASE line # 0 /\ count < 0
      <3>1. parse(d) = Parsed(<<>>, line + 1)
        BY <2>1, <2>2, <2>3, <2>5, <2>7
      <3>2. parse(d).bytesConsumed = line + 1 /\ parse(d).args = <<>>
        BY <1>0, <3>1
      <3>3. <<>> \in Args /\ line + 1 \in 1..Len(d)
        BY <1>1, <2>3, <2>7 DEF Args
      <3> QED
        BY <3>2, <3>3
    <2>8. CASE line # 0 /\ ~(count < 0)
      <3>1. parse(d) = bulkStrings(d, line + 2, count)
        BY <2>1, <2>2, <2>3, <2>5, <2>8
      <3>2. count \in Nat /\ line + 2 \in 1..(Len(d) + 1)
        BY <1>1, <2>3, <2>5, <2>8
      <3>3. PICK pos \in 1..(Len(d) + 1) : pos = line + 2
        BY <3>2
      <3>4. PICK b \in Turn(d, pos) : b = bulks(d, pos, count)[count]
        <4>1. bulks(d, pos, count) \in [0..count -> Turn(d, pos)]
          BY <3>2, BulksDef
        <4> QED
          BY <3>2, <4>1
      <3>5. parse(d) = Parsed(b.args, b.pos - 1)
        BY <1>0, <3>1, <3>3, <3>4 DEF bulkStrings
      <3>6. b.args \in Args /\ b.pos \in pos..(Len(d) + 1)
        BY DEF Turn
      <3>7. b.pos - 1 \in 1..Len(d)
        BY <1>1, <2>3, <2>8, <3>3, <3>6
      <3> QED
        BY <1>0, <3>5, <3>6, <3>7
    <2> QED
      BY <2>6, <2>7, <2>8
  <1>3. CASE d[1] # "*"
    <2> DEFINE line == findCRLF(d, 1)
               t == SubSeq(d, 1, line - 1)
    <2>1. parse(d) = IF line = 0 THEN None ELSE Parsed(tokens(t)[line - 1], line + 1)
      BY <1>1, <1>3 DEF parse, parseInline
    <2>2. line \in 1..(Len(d) - 1)
      BY <1>0, <2>1, FindCRLF
    <2>3. t \in Seq(Byte) /\ Len(t) = line - 1
      BY <1>1, <2>2
    <2> HIDE DEF line, t
    <2>4. tokens(t)[line - 1] \in Args
      BY <2>2, <2>3, TokensDef
    <2>5. parse(d) = Parsed(tokens(t)[line - 1], line + 1)
      BY <2>1, <2>2
    <2> QED
      BY <1>0, <1>1, <2>2, <2>4, <2>5
  <1> QED
    BY <1>2, <1>3

-----------------------------------------------------------------------------
(* Buffer. *)

\* A function on 1..n is a sequence of length n.
LEMMA FunctionSeq ==
    ASSUME NEW n \in Nat, NEW x \in [1..n -> Byte]
    PROVE  x \in Seq(Byte) /\ Len(x) = n
  <1>1. x \in Seq(Byte)
    BY SeqDef
  <1>2. Len(x) \in Nat /\ DOMAIN x = 1..Len(x) /\ DOMAIN x = 1..n
    BY <1>1, LenProperties
  <1> QED
    BY <1>1, <1>2

\* A buffer of bytes whose cursors are in order.
Buf(b) == b \in [data : Seq(Byte), readPos : Nat, writePos : Nat] /\ GoodBuffer(b)

\* What the cursors of a buffer in order say of the bytes between them.
LEMMA BufFacts ==
    ASSUME NEW b, Buf(b)
    PROVE  /\ b.data \in Seq(Byte) /\ Len(b.data) \in Nat
           /\ b.readPos \in 0..b.writePos /\ b.writePos \in 0..Len(b.data)
           /\ b.readPos \in Nat /\ b.writePos \in Nat
           /\ readableBytes(b) \in Nat /\ writableBytes(b) \in Nat
           /\ unread(b) \in Seq(Byte) /\ Len(unread(b)) = readableBytes(b)
           /\ \A i \in 1..readableBytes(b) : unread(b)[i] = b.data[b.readPos + i]
  <1>1. /\ b.data \in Seq(Byte) /\ Len(b.data) \in Nat
        /\ b.readPos \in 0..b.writePos /\ b.writePos \in 0..Len(b.data)
        /\ b.readPos \in Nat /\ b.writePos \in Nat
    BY DEF Buf, GoodBuffer
  <1>2. readableBytes(b) \in Nat /\ writableBytes(b) \in Nat
    BY <1>1 DEF readableBytes, writableBytes
  <1>3. /\ unread(b) \in Seq(Byte) /\ Len(unread(b)) = readableBytes(b)
        /\ \A i \in 1..readableBytes(b) : unread(b)[i] = b.data[b.readPos + i]
    <2>1. PICK p \in Nat, q \in Nat, d \in Seq(Byte) :
             p = b.readPos /\ q = b.writePos /\ d = b.data /\ p <= q /\ q <= Len(d)
      BY <1>1
    <2>2. /\ SubSeq(d, p + 1, q) \in Seq(Byte) /\ Len(SubSeq(d, p + 1, q)) = q - p
          /\ \A i \in 1..(q - p) : SubSeq(d, p + 1, q)[i] = d[p + i]
      <3>1. \A i \in (p + 1)..q : d[i] \in Byte
        BY <2>1
      <3>2. /\ SubSeq(d, p + 1, q) \in Seq(Byte)
            /\ Len(SubSeq(d, p + 1, q)) = IF p + 1 <= q THEN q - (p + 1) + 1 ELSE 0
            /\ \A i \in 1..(q - (p + 1) + 1) : SubSeq(d, p + 1, q)[i] = d[(p + 1) + i - 1]
        BY <3>1, SubSeqProperties
      <3>3. q - (p + 1) + 1 = q - p /\ \A i \in 1..(q - p) : (p + 1) + i - 1 = p + i
        OBVIOUS
      <3>4. Len(SubSeq(d, p + 1, q)) = q - p
        BY <2>1, <3>2
      <3>5. \A i \in 1..(q - p) : SubSeq(d, p + 1, q)[i] = d[p + i]
        BY <3>2, <3>3
      <3> QED
        BY <3>2, <3>4, <3>5
    <2> QED
      BY <2>1, <2>2 DEF unread, readableBytes
  <1> QED
    BY <1>1, <1>2, <1>3

\* What is read or written next is a matter of the bytes between the cursors.
LEMMA UnreadIs ==
    ASSUME NEW b, Buf(b), NEW t \in Seq(Byte), Len(t) = readableBytes(b),
           \A i \in 1..Len(t) : t[i] = b.data[b.readPos + i]
    PROVE  unread(b) = t
  <1>1. /\ unread(b) \in Seq(Byte) /\ Len(unread(b)) = Len(t)
        /\ \A i \in 1..Len(t) : unread(b)[i] = t[i]
    BY BufFacts
  <1> QED
    BY <1>1, SeqEqual

\* consume drops the first n readable bytes.
LEMMA ConsumeBuf ==
    ASSUME NEW b, Buf(b), NEW n \in 0..readableBytes(b)
    PROVE  /\ Buf(consume(b, n))
           /\ unread(consume(b, n)) = SubSeq(unread(b), n + 1, readableBytes(b))
  <1>0. /\ b.data \in Seq(Byte) /\ Len(b.data) \in Nat
        /\ b.readPos \in 0..b.writePos /\ b.writePos \in 0..Len(b.data)
        /\ b.readPos \in Nat /\ b.writePos \in Nat
        /\ readableBytes(b) \in Nat
        /\ unread(b) \in Seq(Byte) /\ Len(unread(b)) = readableBytes(b)
        /\ \A i \in 1..readableBytes(b) : unread(b)[i] = b.data[b.readPos + i]
    BY BufFacts
  <1>1. b = [data |-> b.data, readPos |-> b.readPos, writePos |-> b.writePos]
    BY DEF Buf
  <1>2. PICK c : c = consume(b, n)
    OBVIOUS
  <1>3. CASE n = readableBytes(b)
    <2>1. c = [data |-> b.data, readPos |-> 0, writePos |-> 0]
      BY <1>1, <1>2, <1>3 DEF consume
    <2>2. Buf(c) /\ readableBytes(c) = 0
      BY <1>0, <2>1 DEF Buf, GoodBuffer, readableBytes
    <2>3. Len(unread(c)) = 0 /\ unread(c) \in Seq(Byte)
      BY <2>2, BufFacts
    <2>4. SubSeq(unread(b), n + 1, readableBytes(b)) = <<>>
      BY <1>0, <1>3, SubSeqEmpty
    <2>5. unread(c) = <<>>
      BY <2>3, EmptySeq
    <2> QED
      BY <1>2, <2>2, <2>4, <2>5
  <1>4. CASE n # readableBytes(b)
    <2>1. c = [data |-> b.data, readPos |-> b.readPos + n, writePos |-> b.writePos]
      BY <1>1, <1>2, <1>4 DEF consume
    <2>2. b.readPos + n \in Nat /\ b.readPos + n <= b.writePos
      BY <1>0 DEF readableBytes
    <2>3. Buf(c) /\ readableBytes(c) = readableBytes(b) - n
      BY <1>0, <2>1, <2>2 DEF Buf, GoodBuffer, readableBytes
    <2>4. PICK t : t = SubSeq(unread(b), n + 1, readableBytes(b))
      OBVIOUS
    <2>5. /\ t \in Seq(Byte) /\ Len(t) = readableBytes(b) - n
          /\ \A i \in 1..Len(t) : t[i] = unread(b)[n + i]
      BY <1>0, <2>4
    <2>6. \A i \in 1..Len(t) : t[i] = c.data[c.readPos + i]
      <3> SUFFICES ASSUME NEW i \in 1..Len(t) PROVE t[i] = c.data[c.readPos + i]
        OBVIOUS
      <3>1. n + i \in 1..readableBytes(b)
        BY <1>0, <2>5
      <3>2. t[i] = b.data[b.readPos + (n + i)]
        BY <1>0, <2>5, <3>1
      <3>3. b.readPos + (n + i) = (b.readPos + n) + i
        BY <1>0, <2>5
      <3> QED
        BY <2>1, <3>2, <3>3
    <2>7. unread(c) = t
      BY <2>3, <2>5, <2>6, UnreadIs
    <2> QED
      BY <1>2, <2>3, <2>4, <2>7
  <1> QED
    BY <1>3, <1>4

\* Doubling reaches what is needed.
LEMMA GrownSize ==
    ASSUME NEW size \in Nat, NEW needed \in Nat
    PROVE  grownSize(size, needed) \in Nat /\ grownSize(size, needed) >= needed
  <1> DEFINE c == doubled(size, needed)
             T == {i \in 0..needed : c[i] >= needed \/ c[i] > i}
  <1>1. /\ c \in [0..needed -> Nat \ {0}]
        /\ \A i \in 1..needed : c[i] = twiceIfSmall(c[i - 1], needed)
    BY DoubledDef
  <1> HIDE DEF c
  <1>2. 0 \in T
    BY <1>1
  <1>3. ASSUME NEW i \in 1..needed, i - 1 \in T PROVE i \in T
    <2>1. c[i - 1] \in Nat \ {0} /\ c[i] = twiceIfSmall(c[i - 1], needed)
      BY <1>1
    <2> QED
      BY <1>3, <2>1 DEF twiceIfSmall
  <1> HIDE DEF T
  <1>4. \A i \in 0..needed : i \in T
    BY <1>2, <1>3, UpTo
  <1>5. c[needed] \in Nat /\ c[needed] >= needed
    BY <1>1, <1>4 DEF T
  <1> QED
    BY <1>5 DEF grownSize, c

\* Room is made without losing a readable byte.
LEMMA EnsureBuf ==
    ASSUME NEW b, Buf(b), NEW len \in Nat
    PROVE  /\ Buf(ensureWritableBytes(b, len))
           /\ writableBytes(ensureWritableBytes(b, len)) >= len
           /\ unread(ensureWritableBytes(b, len)) = unread(b)
  <1>0. /\ b.data \in Seq(Byte) /\ Len(b.data) \in Nat
        /\ b.readPos \in 0..b.writePos /\ b.writePos \in 0..Len(b.data)
        /\ b.readPos \in Nat /\ b.writePos \in Nat
        /\ readableBytes(b) \in Nat
        /\ unread(b) \in Seq(Byte) /\ Len(unread(b)) = readableBytes(b)
        /\ \A i \in 1..readableBytes(b) : unread(b)[i] = b.data[b.readPos + i]
        /\ DOMAIN b.data = 1..Len(b.data)
        /\ \A i \in 1..Len(b.data) : b.data[i] \in Byte
    BY BufFacts
  <1>1. PICK r \in Nat : r = readableBytes(b) /\ r <= Len(b.data)
    BY <1>0 DEF readableBytes
  <1>2. PICK w : w = [i \in 1..Len(b.data) |-> IF i <= r THEN b.data[b.readPos + i] ELSE b.data[i]]
    OBVIOUS
  <1>3. \A i \in 1..r : b.readPos + i \in 1..Len(b.data)
    BY <1>0, <1>1 DEF readableBytes
  <1>4. w \in Seq(Byte) /\ Len(w) = Len(b.data) /\ \A i \in 1..r : w[i] = b.data[b.readPos + i]
    <2>1. \A i \in 1..Len(b.data) : w[i] \in Byte
      BY <1>0, <1>1, <1>2, <1>3
    <2>2. w \in [1..Len(b.data) -> Byte]
      BY <1>2, <2>1
    <2>3. w \in Seq(Byte) /\ Len(w) = Len(b.data)
      BY <1>0, <2>2, FunctionSeq
    <2> QED
      BY <1>0, <1>1, <1>2, <2>3
  <1>5. compacted(b) = [data |-> w, readPos |-> 0, writePos |-> r]
    BY <1>0, <1>1, <1>2 DEF compacted
  <1>6. ASSUME NEW x \in Seq(Byte), NEW e, e = [data |-> x, readPos |-> 0, writePos |-> r],
               Len(x) >= r + len, \A i \in 1..r : x[i] = b.data[b.readPos + i]
        PROVE  Buf(e) /\ writableBytes(e) >= len /\ unread(e) = unread(b)
    <2>1. Buf(e) /\ readableBytes(e) = r /\ writableBytes(e) >= len
      BY <1>6 DEF Buf, GoodBuffer, readableBytes, writableBytes
    <2>2. \A i \in 1..r : unread(b)[i] = e.data[e.readPos + i]
      BY <1>0, <1>1, <1>6
    <2>3. unread(e) = unread(b)
      BY <1>0, <1>1, <2>1, <2>2, UnreadIs
    <2> QED
      BY <2>1, <2>3
  <1>7. CASE writableBytes(b) >= len
    BY <1>7 DEF ensureWritableBytes
  <1>8. CASE ~(writableBytes(b) >= len) /\ Len(b.data) >= r + len
    <2>1. ensureWritableBytes(b, len) = compacted(b)
      BY <1>1, <1>8 DEF ensureWritableBytes
    <2> QED
      BY <1>4, <1>5, <1>6, <1>8, <2>1
  <1>9. CASE ~(writableBytes(b) >= len) /\ ~(Len(b.data) >= r + len)
    <2>1. PICK size \in Nat : size = grownSize(Len(b.data), r + len) /\ size >= r + len
      <3>1. r + len \in Nat
        OBVIOUS
      <3> QED
        BY <1>0, <3>1, GrownSize
    <2>2. PICK x : x = [i \in 1..size |-> IF i \in DOMAIN w THEN w[i] ELSE Zero]
      OBVIOUS
    <2>3. DOMAIN w = 1..Len(b.data) /\ \A i \in 1..Len(b.data) : w[i] \in Byte
      BY <1>4
    <2>4. x \in [1..size -> Byte]
      BY <2>2, <2>3, ZeroAssumption
    <2>5. x \in Seq(Byte) /\ Len(x) = size
      BY <2>4, FunctionSeq
    <2>6. \A i \in 1..r : x[i] = b.data[b.readPos + i]
      BY <1>0, <1>1, <1>4, <2>1, <2>2, <2>3
    <2>7. ensureWritableBytes(b, len) = [data |-> x, readPos |-> 0, writePos |-> r]
      <3>1. PICK c : c = compacted(b)
        OBVIOUS
      <3>2. c.data = w /\ c.writePos = r
        BY <1>5, <3>1
      <3>3. PICK e : e = [i \in 1..grownSize(Len(b.data), c.writePos + len) |->
                            IF i \in DOMAIN c.data THEN (c.data)[i] ELSE Zero]
        OBVIOUS
      <3>4. e = x
        BY <2>1, <2>2, <3>2, <3>3
      <3>5. ensureWritableBytes(b, len) = [c EXCEPT !.data = e]
        BY <1>1, <1>9, <3>1, <3>3 DEF ensureWritableBytes
      <3> QED
        BY <1>5, <3>1, <3>4, <3>5
    <2> QED
      BY <1>6, <2>1, <2>5, <2>6, <2>7
  <1> QED
    BY <1>1, <1>7, <1>8, <1>9

\* Bytes that fit go behind the readable ones.
LEMMA FilledBuf ==
    ASSUME NEW b, Buf(b), NEW bytes \in Seq(Byte), Len(bytes) <= writableBytes(b)
    PROVE  Buf(filled(b, bytes)) /\ unread(filled(b, bytes)) = unread(b) \o bytes
  <1>0. /\ b.data \in Seq(Byte) /\ Len(b.data) \in Nat
        /\ b.readPos \in 0..b.writePos /\ b.writePos \in 0..Len(b.data)
        /\ b.readPos \in Nat /\ b.writePos \in Nat
        /\ readableBytes(b) \in Nat
        /\ unread(b) \in Seq(Byte) /\ Len(unread(b)) = readableBytes(b)
        /\ \A i \in 1..readableBytes(b) : unread(b)[i] = b.data[b.readPos + i]
        /\ DOMAIN b.data = 1..Len(b.data)
        /\ \A i \in 1..Len(b.data) : b.data[i] \in Byte
    BY BufFacts
  <1>1. PICK n \in Nat : n = Len(bytes)
    OBVIOUS
  <1>2. PICK x : x = [i \in 1..Len(b.data) |->
                        IF i \in (b.writePos + 1)..(b.writePos + n)
                        THEN bytes[i - b.writePos] ELSE b.data[i]]
    OBVIOUS
  <1>3. b.writePos + n <= Len(b.data)
    BY <1>0, <1>1 DEF writableBytes
  <1>4. x \in Seq(Byte) /\ Len(x) = Len(b.data)
    <2>1. ASSUME NEW i \in 1..Len(b.data) PROVE x[i] \in Byte
      <3>1. CASE i \in (b.writePos + 1)..(b.writePos + n)
        <4>1. i - b.writePos \in 1..n
          BY <1>0, <3>1
        <4> QED
          BY <1>1, <1>2, <3>1, <4>1
      <3> QED
        BY <1>0, <1>2, <3>1
    <2>2. x \in [1..Len(b.data) -> Byte]
      BY <1>2, <2>1
    <2> QED
      BY <1>0, <2>2, FunctionSeq
  <1>5. b = [data |-> b.data, readPos |-> b.readPos, writePos |-> b.writePos]
    BY DEF Buf
  <1>6. PICK c : c = filled(b, bytes)
    OBVIOUS
  <1>7. c = [data |-> x, readPos |-> b.readPos, writePos |-> b.writePos + n]
    BY <1>0, <1>1, <1>2, <1>5, <1>6 DEF filled
  <1>8. Buf(c) /\ readableBytes(c) = readableBytes(b) + n
    BY <1>0, <1>3, <1>4, <1>7 DEF Buf, GoodBuffer, readableBytes
  <1>9. PICK t : t = unread(b) \o bytes
    OBVIOUS
  <1>10. /\ t \in Seq(Byte) /\ Len(t) = readableBytes(b) + n
         /\ \A i \in 1..readableBytes(b) : t[i] = unread(b)[i]
         /\ \A i \in (readableBytes(b) + 1)..(readableBytes(b) + n) : t[i] = bytes[i - readableBytes(b)]
    BY <1>0, <1>1, <1>9
  <1>11. \A i \in 1..Len(t) : t[i] = c.data[c.readPos + i]
    <2> SUFFICES ASSUME NEW i \in 1..Len(t) PROVE t[i] = x[b.readPos + i]
      BY <1>7
    <2>1. CASE i <= readableBytes(b)
      <3>1. i \in 1..readableBytes(b) /\ b.readPos + i \in 1..b.writePos
        BY <1>0, <1>10, <2>1 DEF readableBytes
      <3>2. x[b.readPos + i] = b.data[b.readPos + i]
        BY <1>0, <1>2, <3>1
      <3> QED
        BY <1>0, <1>10, <3>1, <3>2
    <2>2. CASE ~(i <= readableBytes(b))
      <3>1. PICK p \in Nat, q \in Nat, m \in Nat :
               p = b.readPos /\ q = b.writePos /\ m = readableBytes(b) /\ m = q - p
        BY <1>0 DEF readableBytes
      <3>2. i \in 1..(m + n) /\ ~(i <= m)
        BY <1>10, <2>2, <3>1
      <3>21. i \in Int /\ i >= m + 1 /\ i <= m + n
        BY <3>2
      <3>20. PICK k \in Int : k = i
        BY <3>21
      <3>22. p + i \in Int /\ p + i >= q + 1 /\ p + i <= q + n /\ (p + i) - q = i - m
        <4>1. q = p + m /\ k >= m + 1 /\ k <= m + n
          BY <3>1, <3>20, <3>21
        <4>2. p + k \in Int /\ p + k >= q + 1 /\ p + k <= q + n /\ (p + k) - q = k - m
          BY <4>1
        <4> QED
          BY <3>20, <4>2
      <3>3. i \in (m + 1)..(m + n) /\ p + i \in (q + 1)..(q + n) /\ (p + i) - q = i - m
        BY <3>21, <3>22
      <3>4. p + i \in 1..Len(b.data)
        <4>1. q + n <= Len(b.data) /\ Len(b.data) \in Nat
          BY <1>0, <1>3, <3>1
        <4> QED
          BY <3>22, <4>1
      <3>5. x[p + i] = bytes[(p + i) - q]
        BY <1>2, <3>1, <3>3, <3>4
      <3>6. t[i] = bytes[i - m]
        BY <1>10, <3>1, <3>3
      <3> QED
        BY <3>1, <3>3, <3>5, <3>6
    <2> QED
      BY <2>1, <2>2
  <1>12. unread(c) = t
    BY <1>8, <1>10, <1>11, UnreadIs
  <1> QED
    BY <1>6, <1>8, <1>9, <1>12

\* append adds bytes behind the readable ones.
LEMMA AppendBuf ==
    ASSUME NEW b, Buf(b), NEW bytes \in Seq(Byte)
    PROVE  Buf(append(b, bytes)) /\ unread(append(b, bytes)) = unread(b) \o bytes
  <1>1. PICK c : c = ensureWritableBytes(b, Len(bytes))
    OBVIOUS
  <1>2. Buf(c) /\ writableBytes(c) >= Len(bytes) /\ unread(c) = unread(b)
    BY <1>1, EnsureBuf
  <1>3. writableBytes(c) \in Nat
    BY <1>2, BufFacts
  <1>4. Len(bytes) <= writableBytes(c)
    BY <1>2, <1>3
  <1>5. Buf(filled(c, bytes)) /\ unread(filled(c, bytes)) = unread(c) \o bytes
    BY <1>2, <1>4, FilledBuf
  <1> QED
    BY <1>1, <1>2, <1>5 DEF append

-----------------------------------------------------------------------------
(* What clients send, and the replies. *)

LEMMA ConcatTyped ==
    ASSUME NEW ss \in Args
    PROVE  concat(ss) \in Seq(Byte)
  <1>1. joined(ss) \in [0..Len(ss) -> Seq(Byte)]
    BY JoinedDef
  <1>2. Len(ss) \in Nat
    BY DEF Args
  <1>3. Len(ss) \in 0..Len(ss)
    BY <1>2
  <1> QED
    BY <1>1, <1>3 DEF concat

\* One sequence more.
LEMMA ConcatLonger ==
    ASSUME NEW ss \in Args, NEW tt \in Args, Len(tt) = Len(ss) + 1,
           \A i \in 1..Len(ss) : tt[i] = ss[i]
    PROVE  concat(tt) = concat(ss) \o tt[Len(tt)]
  <1> DEFINE f == joined(ss)
             g == joined(tt)
             n == Len(ss)
             T == {i \in 0..n : f[i] = g[i]}
  <1>0. n \in Nat
    BY DEF Args
  <1>1. f[0] = <<>> /\ \A i \in 1..n : f[i] = f[i - 1] \o ss[i]
    BY JoinedDef
  <1>2. g[0] = <<>> /\ \A i \in 1..(n + 1) : g[i] = g[i - 1] \o tt[i]
    BY JoinedDef
  <1>3. \A i \in 1..n : tt[i] = ss[i]
    OBVIOUS
  <1>4. concat(ss) = f[n] /\ concat(tt) = g[n + 1] /\ Len(tt) = n + 1
    BY DEF concat
  <1> HIDE DEF f, g, n
  <1>5. 0 \in T
    BY <1>0, <1>1, <1>2
  <1> HIDE DEF T
  <1>6. ASSUME NEW i \in 1..n, i - 1 \in T PROVE i \in T
    <2>0. i \in 1..(n + 1) /\ i \in 0..n
      BY <1>0
    <2>1. f[i] = f[i - 1] \o ss[i] /\ tt[i] = ss[i]
      BY <1>1, <1>3
    <2>2. g[i] = g[i - 1] \o tt[i]
      BY <1>2, <2>0
    <2>3. f[i - 1] = g[i - 1]
      BY <1>6 DEF T
    <2>4. f[i] = g[i]
      BY <2>1, <2>2, <2>3
    <2> QED
      BY <2>0, <2>4 DEF T
  <1>7. \A i \in 0..n : i \in T
    BY <1>0, <1>5, <1>6, UpTo
  <1>8. f[n] = g[n]
    BY <1>0, <1>7 DEF T
  <1>9. g[n + 1] = g[n] \o tt[n + 1]
    <2>1. n + 1 \in 1..(n + 1) /\ (n + 1) - 1 = n
      BY <1>0
    <2> QED
      BY <1>2, <2>1
  <1> QED
    BY <1>4, <1>8, <1>9

\* The bytes of a frame's own syntax.
LEMMA SyntaxTyped ==
    /\ <<"$">> \in Seq(Byte) /\ <<"*">> \in Seq(Byte) /\ <<" ">> \in Seq(Byte)
    /\ <<"0">> \in Seq(Byte) /\ CRLF \in Seq(Byte)
  <1>1. "$" \in Byte /\ "*" \in Byte /\ " " \in Byte /\ "CR" \in Byte /\ "LF" \in Byte
    BY ByteAssumption
  <1>2. Digit[1] \in Byte
    <2>1. \A n \in 1..10 : Digit[n] \in Byte
      BY ByteAssumption
    <2> QED
      BY <2>1
  <1>3. Digit[1] = "0"
    BY DEF Digit
  <1>4. "0" \in Byte
    BY <1>2, <1>3
  <1>5. \A x \in Byte : <<x>> \in Seq(Byte)
    OBVIOUS
  <1>6. \A x, y \in Byte : <<x, y>> \in Seq(Byte)
    OBVIOUS
  <1> QED
    BY <1>1, <1>4, <1>5, <1>6, Zenon DEF CRLF

LEMMA AppendedTyped ==
    \A s, t \in Seq(Byte) : s \o t \in Seq(Byte)
  OBVIOUS

LEMMA DecimalTyped ==
    ASSUME NEW n \in Nat
    PROVE  decimal(n) \in Seq(Byte)
  <1>1. stripped(n) \in [0..n -> [rest : Nat, digits : Seq(Byte)]]
    BY StrippedDef
  <1>2. stripped(n)[n].digits \in Seq(Byte)
    BY <1>1
  <1> QED
    BY <1>2, SyntaxTyped, Zenon DEF decimal

LEMMA HeadTyped ==
    ASSUME NEW ch \in Byte, NEW n \in Nat
    PROVE  head(ch, n) \in Seq(Byte)
  <1>1. <<ch>> \in Seq(Byte)
    OBVIOUS
  <1> QED
    BY <1>1, DecimalTyped, SyntaxTyped, AppendedTyped, Zenon DEF head

LEMMA BulkStringTyped ==
    ASSUME NEW s \in Seq(Byte)
    PROVE  bulkString(s) \in Seq(Byte)
  <1>0. Len(s) \in Nat
    OBVIOUS
  <1>1. "$" \in Byte
    BY ByteAssumption
  <1> QED
    BY <1>0, <1>1, HeadTyped, SyntaxTyped, AppendedTyped, Zenon DEF bulkString

LEMMA ReplyTyped ==
    ASSUME NEW args \in Args \ {<<>>}
    PROVE  reply(args) \in Seq(Byte)
  <1>1. args[Len(args)] \in Seq(Byte)
    BY EmptySeq DEF Args
  <1> QED
    BY <1>1, BulkStringTyped DEF reply

\* A sequence of n sequences of bytes.
LEMMA ManySeqs ==
    ASSUME NEW n \in Nat, NEW x, x = [i \in 1..n |-> x[i]], \A i \in 1..n : x[i] \in Seq(Byte)
    PROVE  x \in Args /\ Len(x) = n
  <1>1. x \in [1..n -> Seq(Byte)]
    OBVIOUS
  <1>2. x \in Args
    BY <1>1, SeqDef DEF Args
  <1>3. Len(x) \in Nat /\ DOMAIN x = 1..Len(x) /\ DOMAIN x = 1..n
    BY <1>1, <1>2, LenProperties DEF Args
  <1> QED
    BY <1>2, <1>3

\* The null string and the null array.
Null(ch) == <<ch, "-", "1">> \o CRLF

LEMMA NullTyped ==
    ASSUME NEW ch \in Byte
    PROVE  <<ch, "-", "1">> \in Seq(Byte) /\ Null(ch) \in Seq(Byte)
  <1>0. "-" \in Byte
    BY ByteAssumption
  <1>1. Digit[2] \in Byte
    <2>1. \A n \in 1..10 : Digit[n] \in Byte
      BY ByteAssumption
    <2> QED
      BY <2>1
  <1>2. "1" \in Byte
    BY <1>1 DEF Digit
  <1>3. \A x, y, z \in Byte : <<x, y, z>> \in Seq(Byte)
    OBVIOUS
  <1>4. <<ch, "-", "1">> \in Seq(Byte)
    BY <1>0, <1>2, <1>3, Zenon
  <1> QED
    BY <1>4, SyntaxTyped, AppendedTyped, Zenon DEF Null

\* An item made of strings.
Stringed(item) == item.args \in Args /\ item.nulls \in SUBSET Nat

LEMMA SentTyped ==
    ASSUME NEW item, Stringed(item)
    PROVE  sent(item) \in Args /\ Len(sent(item)) = Len(item.args)
  <1>1. item.args \in Args /\ Len(item.args) \in Nat
    BY DEF Stringed, Args
  <1>2. PICK x : x = sent(item)
    OBVIOUS
  <1>3. ASSUME NEW i \in 1..Len(item.args) PROVE x[i] \in Seq(Byte)
    <2>1. item.args[i] \in Seq(Byte)
      BY <1>1 DEF Args
    <2>2. bulkString(item.args[i]) \in Seq(Byte)
      BY <2>1, BulkStringTyped
    <2>3. Null("$") \in Seq(Byte)
      BY ByteAssumption, NullTyped
    <2>4. x[i] = Null("$") \/ x[i] = bulkString(item.args[i])
      BY <1>2 DEF sent, Null
    <2> QED
      BY <2>2, <2>3, <2>4
  <1>4. x = [i \in 1..Len(item.args) |-> x[i]]
    BY <1>2 DEF sent
  <1> QED
    BY <1>1, <1>2, <1>3, <1>4, ManySeqs

\* The fields of an item.
LEMMA ItemFacts ==
    ASSUME NEW item \in Item
    PROVE  /\ item.kind \in {"array", "nullArray", "inline", "noBulk", "wrongTrailer"}
           /\ item.args \in Args /\ Len(item.args) \in Nat
           /\ item.kind = "nullArray" => item.args = <<>>
           /\ item.kind \in {"array", "noBulk", "wrongTrailer"} => Stringed(item)
           /\ item.kind \in {"noBulk", "wrongTrailer"} => item.count \in Nat /\ item.count > Len(item.args)
           /\ item.kind = "noBulk" => item.byte \in Byte /\ item.byte # "$"
           /\ item.kind = "wrongTrailer" =>
                 item.last \in Seq(Byte) /\ item.trailer \in Byte \X Byte /\ item.trailer # CRLF
           /\ item.kind = "inline" =>
                 item.args \in Seq(Word) /\ (item.args # <<>> => item.args[1][1] # "*")
           /\ item \in Malformed <=> item.kind \in {"noBulk", "wrongTrailer"}
  <1>1. CASE item \in Array
    <2>1. item.kind = "array" /\ item.args \in Args /\ item.nulls \in SUBSET Nat
      BY <1>1 DEF Array
    <2>2. item \notin Malformed
      BY <2>1 DEF Malformed, NoBulk, WrongTrailer
    <2> QED
      BY <2>1, <2>2 DEF Stringed, Args
  <1>2. CASE item \in NullArray
    <2>1. item.kind = "nullArray" /\ item.args = <<>>
      BY <1>2 DEF NullArray
    <2>2. item \notin Malformed
      BY <2>1 DEF Malformed, NoBulk, WrongTrailer
    <2> QED
      BY <2>1, <2>2 DEF Args
  <1>3. CASE item \in Inline
    <2>1. item.kind = "inline" /\ item.args \in Seq(Word) /\ (item.args # <<>> => item.args[1][1] # "*")
      BY <1>3 DEF Inline
    <2>2. item \notin Malformed
      BY <2>1 DEF Malformed, NoBulk, WrongTrailer
    <2>3. item.args \in Args
      <3>1. \A s \in Word : s \in Seq(Byte)
        BY DEF Word
      <3> QED
        BY <2>1, <3>1, SeqMonotonic DEF Args
    <2> QED
      BY <2>1, <2>2, <2>3 DEF Args
  <1>4. CASE item \in NoBulk
    <2>1. /\ item.kind = "noBulk" /\ item.args \in Args /\ item.nulls \in SUBSET Nat
          /\ item.count \in Nat /\ item.count > Len(item.args) /\ item.byte \in Byte \ {"$"}
      BY <1>4 DEF NoBulk
    <2> QED
      BY <1>4, <2>1 DEF Stringed, Args, Malformed
  <1>5. CASE item \in WrongTrailer
    <2>1. /\ item.kind = "wrongTrailer" /\ item.args \in Args /\ item.nulls \in SUBSET Nat
          /\ item.count \in Nat /\ item.count > Len(item.args)
          /\ item.last \in Seq(Byte) /\ item.trailer \in (Byte \X Byte) \ {CRLF}
      BY <1>5 DEF WrongTrailer
    <2> QED
      BY <1>5, <2>1 DEF Stringed, Args, Malformed
  <1> QED
    BY <1>1, <1>2, <1>3, <1>4, <1>5 DEF Item, Malformed

\* The words of an inline command, each followed by a space.
spaced(words) == [i \in 1..Len(words) |-> words[i] \o <<" ">>]

LEMMA SpacedTyped ==
    ASSUME NEW words \in Args
    PROVE  spaced(words) \in Args /\ Len(spaced(words)) = Len(words)
  <1>1. Len(words) \in Nat /\ \A i \in 1..Len(words) : words[i] \in Seq(Byte)
    BY DEF Args
  <1>2. PICK x : x = spaced(words)
    OBVIOUS
  <1>3. \A i \in 1..Len(words) : words[i] \o <<" ">> \in Seq(Byte)
    BY <1>1, SyntaxTyped, AppendedTyped, Zenon
  <1>4. x = [i \in 1..Len(words) |-> x[i]] /\ \A i \in 1..Len(words) : x[i] \in Seq(Byte)
    BY <1>2, <1>3, Zenon DEF spaced
  <1> QED
    BY <1>1, <1>2, <1>4, ManySeqs

LEMMA WireTyped ==
    ASSUME NEW item \in Item
    PROVE  wire(item) \in Seq(Byte)
  <1>0. /\ item.kind \in {"array", "nullArray", "inline", "noBulk", "wrongTrailer"}
        /\ item.args \in Args /\ Len(item.args) \in Nat
        /\ "*" \in Byte /\ "$" \in Byte
    BY ItemFacts, ByteAssumption
  <1>1. item.kind # "nullArray" /\ item.kind # "inline" => concat(sent(item)) \in Seq(Byte)
    BY <1>0, ItemFacts, SentTyped, ConcatTyped
  <1>2. CASE item.kind = "array"
    <2>1. wire(item) = head("*", Len(item.args)) \o concat(sent(item))
      BY <1>2 DEF wire
    <2> QED
      BY <1>0, <1>1, <1>2, <2>1, HeadTyped, AppendedTyped
  <1>3. CASE item.kind = "nullArray"
    <2>1. wire(item) = Null("*")
      BY <1>3 DEF wire, Null
    <2> QED
      BY <1>0, <2>1, NullTyped
  <1>4. CASE item.kind = "inline"
    <2>1. wire(item) = concat(spaced(item.args)) \o CRLF
      BY <1>4 DEF wire, spaced
    <2>2. concat(spaced(item.args)) \in Seq(Byte)
      BY <1>0, SpacedTyped, ConcatTyped
    <2> QED
      BY <2>1, <2>2, SyntaxTyped, AppendedTyped, Zenon
  <1>5. CASE item.kind = "noBulk"
    <2>1. wire(item) = head("*", item.count) \o concat(sent(item)) \o <<item.byte>>
      BY <1>5 DEF wire
    <2>2. item.count \in Nat /\ item.byte \in Byte
      BY <1>5, ItemFacts
    <2>3. head("*", item.count) \in Seq(Byte) /\ <<item.byte>> \in Seq(Byte)
      BY <1>0, <2>2, HeadTyped
    <2> QED
      BY <1>1, <1>5, <2>1, <2>3, AppendedTyped
  <1>6. CASE item.kind = "wrongTrailer"
    <2>1. wire(item) = head("*", item.count) \o concat(sent(item))
                         \o head("$", Len(item.last)) \o item.last \o item.trailer
      BY <1>6 DEF wire
    <2>2. item.count \in Nat /\ item.last \in Seq(Byte) /\ item.trailer \in Byte \X Byte
      BY <1>6, ItemFacts
    <2>3. head("*", item.count) \in Seq(Byte) /\ head("$", Len(item.last)) \in Seq(Byte)
      <3>1. Len(item.last) \in Nat
        BY <2>2
      <3> QED
        BY <1>0, <2>2, <3>1, HeadTyped, Zenon
    <2>4. item.trailer \in Seq(Byte)
      <3>1. PICK x \in Byte, y \in Byte : item.trailer = <<x, y>>
        BY <2>2
      <3> QED
        BY <3>1
    <2> QED
      BY <1>1, <1>6, <2>1, <2>2, <2>3, <2>4, AppendedTyped
  <1> QED
    BY <1>0, <1>2, <1>3, <1>4, <1>5, <1>6

\* What a client sends is bytes.
LEMMA WiresTyped ==
    ASSUME script \in Script
    PROVE  /\ script \in Seq(Item) /\ Len(script) \in Nat
           /\ wires \in Args /\ Len(wires) = Len(script)
           /\ \A i \in 1..Len(script) : script[i] \in Item /\ wires[i] = wire(script[i])
  <1>1. script \in Seq(Item) /\ Len(script) \in Nat
    BY ScriptAssumption
  <1>2. PICK x : x = wires
    OBVIOUS
  <1>3. x = [i \in 1..Len(script) |-> x[i]] /\ \A i \in 1..Len(script) : x[i] \in Seq(Byte)
    BY <1>1, <1>2, WireTyped DEF wires
  <1>4. x \in Args /\ Len(x) = Len(script)
    BY <1>1, <1>3, ManySeqs
  <1> QED
    BY <1>1, <1>2, <1>4 DEF wires

LEMMA StreamTyped ==
    ASSUME script \in Script
    PROVE  stream \in Seq(Byte)
  BY WiresTyped, ConcatTyped DEF stream

-----------------------------------------------------------------------------
(* Numbers: atoi reads what to_string writes. *)

\* Only digits.
Digits(s) == \A j \in 1..Len(s) : isDigit(s[j])

\* The digits have the values 0 to 9, and are neither space nor sign.
LEMMA DigitFacts ==
    ASSUME NEW k \in 0..9
    PROVE  /\ isDigit(Digit[k + 1]) /\ digitValue(Digit[k + 1]) = k
           /\ Digit[k + 1] \in Byte
  <1>1. \A m, n \in 0..9 : Digit[m + 1] = Digit[n + 1] => m = n
    <2> SUFFICES ASSUME NEW m \in 0..9, NEW n \in 0..9, Digit[m + 1] = Digit[n + 1]
                 PROVE  m = n
      OBVIOUS
    <2>1. /\ m = 0 \/ m = 1 \/ m = 2 \/ m = 3 \/ m = 4 \/ m = 5 \/ m = 6 \/ m = 7 \/ m = 8 \/ m = 9
          /\ n = 0 \/ n = 1 \/ n = 2 \/ n = 3 \/ n = 4 \/ n = 5 \/ n = 6 \/ n = 7 \/ n = 8 \/ n = 9
      OBVIOUS
    <2>2. /\ Digit[1] = "0" /\ Digit[2] = "1" /\ Digit[3] = "2" /\ Digit[4] = "3" /\ Digit[5] = "4"
          /\ Digit[6] = "5" /\ Digit[7] = "6" /\ Digit[8] = "7" /\ Digit[9] = "8" /\ Digit[10] = "9"
      BY DEF Digit
    <2> QED
      BY <2>1, <2>2
  <1>2. isDigit(Digit[k + 1])
    BY DEF isDigit
  <1>3. digitValue(Digit[k + 1]) = k
    BY <1>1 DEF digitValue
  <1>4. \A n \in 1..10 : Digit[n] \in Byte
    BY ByteAssumption
  <1> QED
    BY <1>2, <1>3, <1>4

LEMMA DigitNoSyntax ==
    ASSUME NEW ch, isDigit(ch)
    PROVE  ch \notin Space /\ ch \notin {"-", "+", "CR", "LF"}
  <1>1. PICK n \in 0..9 : Digit[n + 1] = ch
    BY DEF isDigit
  <1>2. n = 0 \/ n = 1 \/ n = 2 \/ n = 3 \/ n = 4 \/ n = 5 \/ n = 6 \/ n = 7 \/ n = 8 \/ n = 9
    OBVIOUS
  <1>3. /\ Digit[1] = "0" /\ Digit[2] = "1" /\ Digit[3] = "2" /\ Digit[4] = "3" /\ Digit[5] = "4"
        /\ Digit[6] = "5" /\ Digit[7] = "6" /\ Digit[8] = "7" /\ Digit[9] = "8" /\ Digit[10] = "9"
    BY DEF Digit
  <1>4. ch \in {"0", "1", "2", "3", "4", "5", "6", "7", "8", "9"}
    BY <1>1, <1>2, <1>3
  <1> QED
    BY <1>4 DEF Space

\* Reading the digits s on from the number r gives n.
ReadsTo(r, s, n) ==
    \E f \in [0..Len(s) -> Nat] :
        /\ f[0] = r /\ f[Len(s)] = n
        /\ \A j \in 1..Len(s) : f[j] = 10 * f[j - 1] + digitValue(s[j])

\* One digit moves from the number to the digits.
LEMMA DigitMoves ==
    ASSUME NEW r \in Nat, NEW s \in Seq(Byte), NEW n \in Nat, Digits(s), ReadsTo(r, s, n),
           NEW t, t = <<Digit[(r % 10) + 1]>> \o s
    PROVE  /\ t \in Seq(Byte) /\ Len(t) = Len(s) + 1 /\ Digits(t)
           /\ ReadsTo(r \div 10, t, n)
  <1>1. PICK f \in [0..Len(s) -> Nat] :
           /\ f[0] = r /\ f[Len(s)] = n
           /\ \A j \in 1..Len(s) : f[j] = 10 * f[j - 1] + digitValue(s[j])
    BY DEF ReadsTo
  <1>2. PICK k \in 0..9 : k = r % 10
    OBVIOUS
  <1>3. r \div 10 \in Nat /\ r = 10 * (r \div 10) + k
    BY <1>2
  <1>4. PICK ch \in Byte : ch = Digit[k + 1] /\ isDigit(ch) /\ digitValue(ch) = k
    BY DigitFacts
  <1>5. t = <<ch>> \o s
    BY <1>2, <1>4
  <1>6. /\ t \in Seq(Byte) /\ Len(t) = Len(s) + 1 /\ t[1] = ch
        /\ \A j \in 2..Len(t) : t[j] = s[j - 1]
    BY <1>5
  <1>7. Digits(t)
    <2> SUFFICES ASSUME NEW j \in 1..Len(t) PROVE isDigit(t[j])
      BY DEF Digits
    <2>1. CASE j = 1
      BY <1>4, <1>6, <2>1
    <2>2. CASE j # 1
      <3>1. j \in 2..Len(t) /\ j - 1 \in 1..Len(s)
        BY <1>6, <2>2
      <3> QED
        BY <1>6, <3>1 DEF Digits
    <2> QED
      BY <2>1, <2>2
  <1>8. ReadsTo(r \div 10, t, n)
    <2>1. PICK m \in Nat : m = Len(s)
      OBVIOUS
    <2>2. PICK q \in Nat : q = r \div 10 /\ r = 10 * q + k
      BY <1>3
    <2>3. PICK g : g = [j \in 0..(m + 1) |-> IF j = 0 THEN q ELSE f[j - 1]]
      OBVIOUS
    <2>4. g \in [0..(m + 1) -> Nat]
      BY <1>1, <2>1, <2>3
    <2>5. g[0] = q /\ \A j \in 1..(m + 1) : g[j] = f[j - 1]
      BY <2>3
    <2>6. g[m + 1] = n
      BY <1>1, <2>1, <2>5
    <2>7. ASSUME NEW j \in 1..(m + 1) PROVE g[j] = 10 * g[j - 1] + digitValue(t[j])
      <3>1. CASE j = 1
        <4>1. g[1] = r /\ g[0] = q /\ digitValue(t[1]) = k
          BY <1>1, <1>4, <1>6, <2>5
        <4>2. g[1] = 10 * g[0] + digitValue(t[1]) /\ j - 1 = 0
          BY <2>2, <3>1, <4>1
        <4> QED
          BY <3>1, <4>2
      <3>2. CASE j # 1
        <4>1. j \in 2..Len(t) /\ j - 1 \in 1..m /\ j - 1 \in 1..(m + 1)
          BY <1>6, <2>1, <3>2
        <4>2. g[j] = f[j - 1] /\ g[j - 1] = f[(j - 1) - 1] /\ t[j] = s[j - 1]
          BY <1>6, <2>5, <4>1
        <4>3. f[j - 1] = 10 * f[(j - 1) - 1] + digitValue(s[j - 1])
          BY <1>1, <2>1, <4>1
        <4> QED
          BY <4>2, <4>3
      <3> QED
        BY <3>1, <3>2
    <2>8. Len(t) = m + 1
      BY <1>6, <2>1
    <2> QED
      BY <2>2, <2>4, <2>5, <2>6, <2>7, <2>8 DEF ReadsTo
  <1> QED
    BY <1>6, <1>7, <1>8

\* Digits that read from nothing to n have the value n.
LEMMA ReadsValue ==
    ASSUME NEW s \in Seq(Byte), NEW n \in Nat, Digits(s), ReadsTo(0, s, n)
    PROVE  values(s)[Len(s)] = n
  <1>1. PICK f \in [0..Len(s) -> Nat] :
           /\ f[0] = 0 /\ f[Len(s)] = n
           /\ \A j \in 1..Len(s) : f[j] = 10 * f[j - 1] + digitValue(s[j])
    BY DEF ReadsTo
  <1>2. PICK v : v = values(s)
    OBVIOUS
  <1>3. v[0] = 0 /\ \A i \in 1..Len(s) : v[i] = 10 * v[i - 1] + digitValue(s[i])
    BY <1>2, ValuesDef DEF Digits
  <1>4. PICK m \in Nat : m = Len(s)
    OBVIOUS
  <1> DEFINE T == {i \in 0..m : v[i] = f[i]}
  <1>5. 0 \in T /\ \A i \in 1..m : i - 1 \in T => i \in T
    BY <1>1, <1>3, <1>4
  <1> HIDE DEF T
  <1>6. \A i \in 0..m : i \in T
    BY <1>5, UpTo
  <1> QED
    BY <1>1, <1>2, <1>4, <1>6 DEF T

\* to_string writes at least one digit, and the digits read as the number.
LEMMA DecimalReads ==
    ASSUME NEW n \in Nat
    PROVE  /\ decimal(n) \in Seq(Byte) /\ Len(decimal(n)) >= 1 /\ Digits(decimal(n))
           /\ values(decimal(n))[Len(decimal(n))] = n
  <1>1. CASE n = 0
    <2>1. decimal(n) = <<"0">>
      BY <1>1 DEF decimal
    <2>2. "0" \in Byte /\ isDigit("0") /\ digitValue("0") = 0
      <3>1. Digit[0 + 1] = "0" /\ 0 \in 0..9
        BY DEF Digit
      <3> QED
        BY <3>1, DigitFacts, Zenon
    <2>3. PICK z \in Byte : z = "0"
      BY <2>2
    <2>4. PICK s : s = <<z>>
      OBVIOUS
    <2>5. s \in Seq(Byte) /\ Len(s) = 1 /\ s[1] = z
      BY <2>4
    <2>6. Digits(s)
      BY <2>2, <2>3, <2>5 DEF Digits
    <2>7. values(s)[1] = 10 * values(s)[0] + digitValue(s[1]) /\ values(s)[0] = 0
      BY <2>5, <2>6, ValuesDef DEF Digits
    <2>8. values(s)[1] = 0
      BY <2>2, <2>3, <2>5, <2>7
    <2> QED
      <3>1. decimal(n) = s
        BY <2>1, <2>3, <2>4, Zenon
      <3>2. values(s)[Len(s)] = n /\ Len(s) >= 1
        BY <1>1, <2>5, <2>8
      <3> QED
        BY <2>5, <2>6, <3>1, <3>2, Zenon
  <1>2. CASE n # 0
    <2>0. PICK f : f = stripped(n)
      OBVIOUS
    <2>1. /\ f \in [0..n -> [rest : Nat, digits : Seq(Byte)]]
          /\ f[0] = [rest |-> n, digits |-> <<>>]
          /\ \A i \in 1..n : f[i] = oneDigit(f[i - 1])
      BY <2>0, StrippedDef
    <2> DEFINE Good(i) == /\ f[i].rest <= n - i /\ Digits(f[i].digits)
                          /\ ReadsTo(f[i].rest, f[i].digits, n)
                          /\ i >= 1 => Len(f[i].digits) >= 1
               T == {i \in 0..n : Good(i)}
    <2>2. 0 \in T
      <3>1. f[0].rest = n /\ f[0].digits = <<>>
        BY <2>1
      <3>2. Digits(<<>>)
        BY DEF Digits
      <3>3. ReadsTo(n, <<>>, n)
        <4>1. PICK g : g = [j \in 0..0 |-> n]
          OBVIOUS
        <4>2. g \in [0..0 -> Nat] /\ g[0] = n /\ Len(<<>>) = 0
          BY <4>1
        <4> QED
          BY <4>2 DEF ReadsTo
      <3> QED
        BY <3>1, <3>2, <3>3
    <2>3. ASSUME NEW i \in 1..n, i - 1 \in T PROVE i \in T
      <3>1. Good(i - 1)
        BY <2>3
      <3>2. PICK r \in Nat, s \in Seq(Byte) : r = f[i - 1].rest /\ s = f[i - 1].digits
        <4>1. f[i - 1] \in [rest : Nat, digits : Seq(Byte)]
          BY <2>1
        <4> QED
          BY <4>1
      <3>3. r <= n - (i - 1) /\ Digits(s) /\ ReadsTo(r, s, n) /\ (i - 1 >= 1 => Len(s) >= 1)
        BY <3>1, <3>2
      <3>4. f[i] = oneDigit(f[i - 1])
        BY <2>1
      <3>5. CASE r = 0
        <4>1. f[i] = f[i - 1]
          BY <3>2, <3>4, <3>5 DEF oneDigit
        <4>2. i - 1 >= 1
          <5> SUFFICES ASSUME i = 1 PROVE FALSE
            OBVIOUS
          <5>1. f[i - 1].rest = n
            BY <2>1
          <5> QED
            BY <1>2, <3>2, <3>5, <5>1
        <4> QED
          <5>1. f[i].rest = 0 /\ f[i].digits = s
            BY <3>2, <3>5, <4>1
          <5>2. f[i].rest <= n - i /\ (i >= 1 => Len(f[i].digits) >= 1)
            BY <3>3, <4>2, <5>1
          <5>3. Digits(f[i].digits) /\ ReadsTo(f[i].rest, f[i].digits, n)
            BY <3>3, <3>5, <5>1
          <5> QED
            BY <5>2, <5>3
      <3>6. CASE r # 0
        <4>1. PICK t : t = <<Digit[(r % 10) + 1]>> \o s
          OBVIOUS
        <4>2. f[i] = [rest |-> r \div 10, digits |-> t]
          BY <3>2, <3>4, <3>6, <4>1 DEF oneDigit
        <4>3. f[i].rest = r \div 10 /\ f[i].digits = t
          BY <4>2
        <4>4. t \in Seq(Byte) /\ Len(t) = Len(s) + 1 /\ Digits(t) /\ ReadsTo(r \div 10, t, n)
          BY <3>3, <4>1, DigitMoves
        <4>5. r \div 10 <= r - 1
          BY <3>6
        <4>6. Len(t) >= 1
          BY <4>4
        <4> QED
          BY <3>3, <4>3, <4>4, <4>5, <4>6
      <3> QED
        BY <3>5, <3>6
    <2> HIDE DEF T
    <2>4. \A i \in 0..n : i \in T
      BY <2>2, <2>3, UpTo
    <2>5. Good(n)
      BY <2>4 DEF T
    <2>6. PICK s \in Seq(Byte) : s = f[n].digits /\ f[n].rest \in Nat
      BY <2>1
    <2>7. f[n].rest = 0 /\ Digits(s) /\ ReadsTo(0, s, n) /\ Len(s) >= 1
      BY <1>2, <2>5, <2>6
    <2>8. decimal(n) = s
      BY <1>2, <2>0, <2>6 DEF decimal
    <2> QED
      BY <2>7, <2>8, ReadsValue
  <1> QED
    BY <1>1, <1>2

\* atoi of digits, with or without a minus.
LEMMA AtoiOf ==
    ASSUME NEW s \in Seq(Byte), NEW p \in {1, 2}, p <= Len(s), p = 2 => s[1] = "-",
           \A j \in p..Len(s) : isDigit(s[j]),
           NEW v, v = values(SubSeq(s, p, Len(s)))[Len(s) + 1 - p]
    PROVE  atoi(s) = IF p = 2 THEN -v ELSE v
  <1> DEFINE n == Len(s)
             start == CHOOSE i \in 1..(n + 1) :
                         /\ \A j \in 1..(i - 1) : s[j] \in Space
                         /\ i <= n => s[i] \notin Space
             signed == start <= n /\ s[start] \in {"-", "+"}
             first == IF signed THEN start + 1 ELSE start
             end == CHOOSE i \in first..(n + 1) :
                       /\ \A j \in first..(i - 1) : isDigit(s[j])
                       /\ i <= n => ~isDigit(s[i])
             value == values(SubSeq(s, first, end - 1))[end - first]
  <1>0. n \in Nat
    OBVIOUS
  <1>1. atoi(s) = IF signed /\ s[start] = "-" THEN -value ELSE value
    BY DEF atoi
  <1>2. n >= 1 /\ p <= n /\ \A j \in p..n : isDigit(s[j])
    OBVIOUS
  <1>3. v = values(SubSeq(s, p, n))[n + 1 - p]
    OBVIOUS
  <1> HIDE DEF n
  <1>4. s[1] \notin Space
    <2>1. p = 1 => isDigit(s[1])
      BY <1>2
    <2> QED
      BY <2>1, DigitNoSyntax DEF Space
  <1>5. start = 1
    <2>1. \A i \in 1..(n + 1) :
             (/\ \A j \in 1..(i - 1) : s[j] \in Space
              /\ i <= n => s[i] \notin Space) => i = 1
      BY <1>0, <1>2, <1>4
    <2>2. /\ \A j \in 1..(1 - 1) : s[j] \in Space
          /\ 1 <= n => s[1] \notin Space
      BY <1>4
    <2>3. 1 \in 1..(n + 1)
      BY <1>0
    <2> QED
      BY <2>1, <2>2, <2>3
  <1> HIDE DEF start
  <1>6. signed <=> p = 2
    <2>1. p = 1 => s[1] \notin {"-", "+"}
      BY <1>2, DigitNoSyntax
    <2> QED
      BY <1>2, <1>5, <2>1
  <1>7. first = p
    BY <1>5, <1>6
  <1> HIDE DEF first, signed
  <1>8. end = n + 1
    <2>1. \A i \in p..(n + 1) :
             (/\ \A j \in p..(i - 1) : isDigit(s[j])
              /\ i <= n => ~isDigit(s[i])) => i = n + 1
      BY <1>0, <1>2
    <2>2. /\ \A j \in p..((n + 1) - 1) : isDigit(s[j])
          /\ n + 1 <= n => ~isDigit(s[n + 1])
      BY <1>0, <1>2
    <2>3. n + 1 \in p..(n + 1)
      BY <1>0, <1>2
    <2> QED
      BY <1>7, <2>1, <2>2, <2>3
  <1> HIDE DEF end
  <1>9. value = v
    <2>1. end - 1 = n /\ end - first = n + 1 - p
      BY <1>0, <1>7, <1>8
    <2> QED
      BY <1>3, <1>7, <2>1, Zenon
  <1> HIDE DEF value
  <1>10. p = 2 => s[start] = "-"
    BY <1>5
  <1> QED
    BY <1>1, <1>6, <1>9, <1>10

\* atoi reads what to_string writes.
LEMMA AtoiDecimal ==
    ASSUME NEW n \in Nat
    PROVE  atoi(decimal(n)) = n
  <1>1. PICK s : s = decimal(n)
    OBVIOUS
  <1>2. s \in Seq(Byte) /\ Len(s) \in Nat /\ Len(s) >= 1 /\ Digits(s) /\ values(s)[Len(s)] = n
    BY <1>1, DecimalReads
  <1>3. SubSeq(s, 1, Len(s)) = s
    BY <1>2, SubSeqFull
  <1>4. Len(s) + 1 - 1 = Len(s)
    BY <1>2
  <1>5. n = values(SubSeq(s, 1, Len(s)))[Len(s) + 1 - 1]
    BY <1>2, <1>3, <1>4
  <1>6. \A j \in 1..Len(s) : isDigit(s[j])
    BY <1>2 DEF Digits
  <1>7. atoi(s) = IF 1 = 2 THEN -n ELSE n
    <2>1. PICK p \in {1, 2} : p = 1
      OBVIOUS
    <2>2. n = values(SubSeq(s, p, Len(s)))[Len(s) + 1 - p] /\ p <= Len(s) /\ p # 2
          /\ \A j \in p..Len(s) : isDigit(s[j])
      BY <1>2, <1>5, <1>6, <2>1
    <2>3. atoi(s) = IF p = 2 THEN -n ELSE n
      BY <1>2, <2>2, AtoiOf
    <2> QED
      BY <2>2, <2>3
  <1> QED
    BY <1>1, <1>7

\* The length of a null string or array.
LEMMA AtoiNull ==
    ASSUME NEW s, s = <<"-", "1">>
    PROVE  atoi(s) = -1
  <1>1. Digit[1 + 1] = "1" /\ 1 \in 0..9
    BY DEF Digit
  <1>2. "1" \in Byte /\ isDigit("1") /\ digitValue("1") = 1
    BY <1>1, DigitFacts, Zenon
  <1>3. "-" \in Byte
    BY ByteAssumption
  <1>4. PICK x \in Byte, y \in Byte : x = "-" /\ y = "1"
    BY <1>2, <1>3
  <1>5. s = <<x, y>>
    BY <1>4
  <1>6. s \in Seq(Byte) /\ Len(s) = 2 /\ s[1] = x /\ s[2] = y
    BY <1>5
  <1>7. PICK t : t = SubSeq(s, 2, Len(s))
    OBVIOUS
  <1>8. t \in Seq(Byte) /\ Len(t) = 1 /\ t[1] = y
    BY <1>6, <1>7
  <1>9. values(t)[1] = 10 * values(t)[0] + digitValue(t[1]) /\ values(t)[0] = 0
    <2>1. \A i \in 1..Len(t) : isDigit(t[i])
      BY <1>2, <1>4, <1>8
    <2> QED
      BY <1>8, <2>1, ValuesDef
  <1>10. values(t)[1] = 1
    BY <1>2, <1>4, <1>8, <1>9
  <1>11. PICK p \in {1, 2} : p = 2
    OBVIOUS
  <1>12. /\ p <= Len(s) /\ (p = 2 => s[1] = "-") /\ \A j \in p..Len(s) : isDigit(s[j])
         /\ 1 = values(SubSeq(s, p, Len(s)))[Len(s) + 1 - p]
    BY <1>2, <1>4, <1>6, <1>7, <1>10, <1>11
  <1>13. atoi(s) = IF p = 2 THEN -1 ELSE 1
    BY <1>6, <1>12, AtoiOf
  <1> QED
    BY <1>11, <1>13

-----------------------------------------------------------------------------
(* The parser on the bytes of a frame, of which only a part may have arrived. *)

\* From p on, d holds s as far as d goes.
At(d, p, s) == \A i \in 1..Len(s) : p + i - 1 <= Len(d) => d[p + i - 1] = s[i]

LEMMA AtParts ==
    ASSUME NEW d \in Seq(Byte), NEW p \in Nat \ {0}, NEW s \in Seq(Byte), NEW t \in Seq(Byte),
           At(d, p, s \o t)
    PROVE  At(d, p, s) /\ At(d, p + Len(s), t)
  <1>0. PICK w : w = s \o t
    OBVIOUS
  <1>1. PICK m \in Nat, n \in Nat : w = s \o t /\ m = Len(s) /\ n = Len(t)
    BY <1>0
  <1>2. /\ Len(w) = m + n
        /\ \A i \in 1..m : w[i] = s[i]
        /\ \A i \in 1..n : w[m + i] = t[i]
    BY <1>1
  <1>3. \A i \in 1..(m + n) : p + i - 1 <= Len(d) => d[p + i - 1] = w[i]
    BY <1>1, <1>2 DEF At
  <1>4. At(d, p, s)
    <2> SUFFICES ASSUME NEW i \in 1..m, p + i - 1 <= Len(d) PROVE d[p + i - 1] = s[i]
      BY <1>1 DEF At
    <2>1. i \in 1..(m + n)
      OBVIOUS
    <2> QED
      BY <1>2, <1>3, <2>1
  <1>5. At(d, p + m, t)
    <2> SUFFICES ASSUME NEW i \in 1..n, (p + m) + i - 1 <= Len(d) PROVE d[(p + m) + i - 1] = t[i]
      BY <1>1 DEF At
    <2>1. m + i \in 1..(m + n) /\ p + (m + i) - 1 = (p + m) + i - 1
      OBVIOUS
    <2>2. p + (m + i) - 1 <= Len(d)
      BY <2>1
    <2>3. d[p + (m + i) - 1] = w[m + i]
      BY <1>3, <2>1, <2>2
    <2> QED
      BY <1>2, <2>1, <2>3
  <1> QED
    BY <1>1, <1>4, <1>5

\* No line end within s.
NoPair(s) == \A i \in 1..(Len(s) - 1) : ~(s[i] = "CR" /\ s[i + 1] = "LF")

\* What CR LF adds to a sequence.
LEMMA WithCRLF ==
    ASSUME NEW s \in Seq(Byte)
    PROVE  /\ s \o CRLF \in Seq(Byte) /\ Len(s \o CRLF) = Len(s) + 2
           /\ \A i \in 1..Len(s) : (s \o CRLF)[i] = s[i]
           /\ (s \o CRLF)[Len(s) + 1] = "CR" /\ (s \o CRLF)[Len(s) + 2] = "LF"
  <1>1. PICK x \in Byte, y \in Byte : x = "CR" /\ y = "LF"
    BY ByteAssumption
  <1>2. CRLF = <<x, y>>
    BY <1>1 DEF CRLF
  <1>3. PICK c : c = CRLF
    OBVIOUS
  <1>31. c = <<x, y>>
    BY <1>2, <1>3
  <1>32. c \in Seq(Byte) /\ Len(c) = 2 /\ c[1] = x /\ c[2] = y
    BY <1>31
  <1>4. PICK w : w = s \o c
    OBVIOUS
  <1>5. /\ w \in Seq(Byte) /\ Len(w) = Len(s) + 2
        /\ \A i \in 1..Len(s) : w[i] = s[i]
        /\ w[Len(s) + 1] = c[1] /\ w[Len(s) + 2] = c[2]
    <2>1. PICK m \in Nat : m = Len(s)
      OBVIOUS
    <2>2. /\ w \in Seq(Byte) /\ Len(w) = m + 2
          /\ \A i \in 1..(m + 2) : w[i] = IF i <= m THEN s[i] ELSE c[i - m]
      <3>1. c \in Seq(Byte) /\ Len(c) = 2
        BY <1>32
      <3>2. /\ s \o c \in Seq(Byte)
            /\ Len(s \o c) = Len(s) + Len(c)
            /\ \A i \in 1..(Len(s) + Len(c)) :
                  (s \o c)[i] = IF i <= Len(s) THEN s[i] ELSE c[i - Len(s)]
        BY <3>1, ConcatProperties, Zenon
      <3> QED
        BY <1>4, <2>1, <3>1, <3>2, Zenon
    <2>3. m + 1 \in 1..(m + 2) /\ m + 2 \in 1..(m + 2) /\ ~(m + 1 <= m) /\ ~(m + 2 <= m)
          /\ (m + 1) - m = 1 /\ (m + 2) - m = 2
      OBVIOUS
    <2>4. w[m + 1] = c[1] /\ w[m + 2] = c[2]
      BY <2>2, <2>3
    <2>5. \A i \in 1..m : w[i] = s[i]
      BY <2>2
    <2> QED
      BY <2>1, <2>2, <2>4, <2>5
  <1> QED
    BY <1>1, <1>3, <1>32, <1>4, <1>5

\* The end of a line is found when it has arrived, and no other before.
LEMMA LineAt ==
    ASSUME NEW d \in Seq(Byte), NEW p \in Nat \ {0}, NEW s \in Seq(Byte), NoPair(s),
           At(d, p, s \o CRLF)
    PROVE  /\ Len(d) >= p + Len(s) + 1 =>
                findCRLF(d, p) = p + Len(s) /\ SubSeq(d, p, p + Len(s) - 1) = s
           /\ Len(d) < p + Len(s) + 1 => findCRLF(d, p) = 0
  <1>0. PICK w : w = s \o CRLF
    OBVIOUS
  <1>1. PICK m \in Nat, n \in Nat : w = s \o CRLF /\ m = Len(s) /\ n = Len(d)
    BY <1>0
  <1>2. /\ Len(w) = m + 2 /\ \A i \in 1..m : w[i] = s[i]
        /\ w[m + 1] = "CR" /\ w[m + 2] = "LF"
    BY <1>1, WithCRLF
  <1>3. \A i \in 1..(m + 2) : p + i - 1 <= n => d[p + i - 1] = w[i]
    BY <1>1, <1>2 DEF At
  <1> DEFINE at == {i \in p..(n - 1) : d[i] = "CR" /\ d[i + 1] = "LF"}
  <1>4. findCRLF(d, p) = IF at = {} THEN 0 ELSE CHOOSE i \in at : \A j \in at : i <= j
    BY <1>1 DEF findCRLF
  <1>5. ASSUME NEW i \in at PROVE i >= p + m
    <2> SUFFICES ASSUME i < p + m PROVE FALSE
      OBVIOUS
    <2>1. PICK k \in Int : k = i - p + 1
      OBVIOUS
    <2>2. k >= 1 /\ k <= m /\ p + k - 1 = i /\ p + (k + 1) - 1 = i + 1 /\ i + 1 <= n
      BY <2>1
    <2>3. k \in 1..m /\ k \in 1..(m + 2) /\ k + 1 \in 1..(m + 2)
      BY <2>2
    <2>4. d[i] = w[k] /\ d[i + 1] = w[k + 1]
      <3>1. p + k - 1 <= n /\ p + (k + 1) - 1 <= n
        BY <2>2
      <3> QED
        BY <1>3, <2>2, <2>3, <3>1
    <2>5. w[k] = "CR" /\ w[k + 1] = "LF"
      BY <2>4
    <2>6. CASE k = m
      BY <1>2, <2>5, <2>6
    <2>7. CASE k # m
      <3>1. k \in 1..(m - 1) /\ k + 1 \in 1..m
        BY <2>3, <2>7
      <3>2. s[k] = "CR" /\ s[k + 1] = "LF"
        BY <1>2, <2>3, <2>5, <3>1
      <3> QED
        BY <1>1, <3>1, <3>2 DEF NoPair
    <2> QED
      BY <2>6, <2>7
  <1>6. CASE n >= p + m + 1
    <2>1. p + m \in p..(n - 1)
      BY <1>6
    <2>2. d[p + m] = "CR" /\ d[p + m + 1] = "LF"
      <3>1. p + (m + 1) - 1 = p + m /\ p + (m + 2) - 1 = p + m + 1 /\ p + m <= n /\ p + m + 1 <= n
        BY <1>6
      <3>2. m + 1 \in 1..(m + 2) /\ m + 2 \in 1..(m + 2)
        OBVIOUS
      <3>3. d[p + (m + 1) - 1] = w[m + 1] /\ d[p + (m + 2) - 1] = w[m + 2]
        BY <1>3, <3>1, <3>2
      <3> QED
        BY <1>2, <3>1, <3>3
    <2>3. p + m \in at
      BY <2>1, <2>2
    <2>4. \A i \in at : i \in Int
      OBVIOUS
    <2> HIDE DEF at
    <2>5. findCRLF(d, p) = p + m
      <3>1. \A j \in at : p + m <= j
        BY <1>5, <2>4
      <3>2. \A i \in at : (\A j \in at : i <= j) => i = p + m
        BY <1>5, <2>3, <2>4
      <3> QED
        BY <1>4, <2>3, <3>1, <3>2
    <2>6. SubSeq(d, p, p + m - 1) = s
      <3>1. PICK u : u = SubSeq(d, p, p + m - 1)
        OBVIOUS
      <3>2. /\ u \in Seq(Byte) /\ Len(u) = m
            /\ \A i \in 1..m : u[i] = d[p + i - 1]
        <4>1. p + m - 1 <= n
          BY <1>6
        <4>2. \A i \in p..(p + m - 1) : d[i] \in Byte
          BY <1>1, <4>1
        <4>3. p \in Int /\ p + m - 1 \in Int
          OBVIOUS
        <4>4. /\ u \in Seq(Byte)
              /\ Len(u) = IF p <= p + m - 1 THEN (p + m - 1) - p + 1 ELSE 0
              /\ \A i \in 1..((p + m - 1) - p + 1) : u[i] = d[p + i - 1]
          BY <3>1, <4>2, <4>3, SubSeqProperties
        <4>5. (p + m - 1) - p + 1 = m
          OBVIOUS
        <4> QED
          BY <4>4, <4>5
      <3>3. ASSUME NEW i \in 1..m PROVE u[i] = s[i]
        <4>1. i \in 1..(m + 2) /\ p + i - 1 <= n
          BY <1>6
        <4> QED
          BY <1>2, <1>3, <3>2, <4>1
      <3>4. u = s
        BY <1>1, <3>2, <3>3, SeqEqual
      <3> QED
        BY <3>1, <3>4
    <2> QED
      BY <1>1, <1>6, <2>5, <2>6
  <1>7. CASE n < p + m + 1
    <2>1. at = {}
      BY <1>5, <1>7
    <2>2. findCRLF(d, p) = 0
      BY <1>4, <2>1
    <2> QED
      BY <1>1, <1>7, <2>2
  <1> QED
    BY <1>6, <1>7

\* The line w begins with ch and holds the number n.
Announces(w, ch, n) ==
    \E s \in Seq(Byte) : w = <<ch>> \o (s \o CRLF) /\ NoPair(s) /\ atoi(s) = n

LEMMA HeadAnnounces ==
    ASSUME NEW ch \in Byte, NEW n \in Nat
    PROVE  Announces(head(ch, n), ch, n)
  <1>1. PICK s : s = decimal(n)
    OBVIOUS
  <1>2. s \in Seq(Byte) /\ Digits(s) /\ atoi(s) = n
    BY <1>1, DecimalReads, AtoiDecimal
  <1>3. NoPair(s)
    <2> SUFFICES ASSUME NEW i \in 1..(Len(s) - 1) PROVE s[i] # "CR"
      BY DEF NoPair
    <2>1. isDigit(s[i])
      BY <1>2 DEF Digits
    <2> QED
      BY <2>1, DigitNoSyntax
  <1>4. <<ch>> \in Seq(Byte) /\ CRLF \in Seq(Byte)
    <2>1. <<ch>> \in Seq(Byte)
      OBVIOUS
    <2> QED
      BY <2>1, SyntaxTyped, Zenon
  <1>5. head(ch, n) = <<ch>> \o (s \o CRLF)
    <2>1. head(ch, n) = (<<ch>> \o s) \o CRLF
      BY <1>1 DEF head
    <2>2. PICK x \in Seq(Byte), y \in Seq(Byte) : x = <<ch>> /\ y = CRLF
      BY <1>4
    <2>3. (x \o s) \o y = x \o (s \o y)
      BY <1>2, ConcatAssociative
    <2> QED
      BY <2>1, <2>2, <2>3, Zenon
  <1> QED
    BY <1>2, <1>3, <1>5, Zenon DEF Announces

LEMMA NullAnnounces ==
    ASSUME NEW ch \in Byte
    PROVE  Announces(Null(ch), ch, -1)
  <1>1. PICK s : s = <<"-", "1">>
    OBVIOUS
  <1>2. atoi(s) = -1
    BY <1>1, AtoiNull
  <1>3. "-" \in Byte /\ "1" \in Byte
    <2>1. \A n \in 1..10 : Digit[n] \in Byte
      BY ByteAssumption
    <2>2. "1" \in Byte
      BY <2>1 DEF Digit
    <2>3. "-" \in Byte
      BY ByteAssumption
    <2> QED
      BY <2>2, <2>3
  <1>4. PICK x \in Byte, y \in Byte : x = "-" /\ y = "1"
    BY <1>3
  <1>5. s = <<x, y>>
    BY <1>1, <1>4
  <1>6. s \in Seq(Byte) /\ Len(s) = 2 /\ s[1] = x
    BY <1>5
  <1>7. NoPair(s)
    <2>1. s[1] # "CR"
      BY <1>4, <1>6
    <2> QED
      BY <1>6, <2>1 DEF NoPair
  <1>8. <<ch, "-", "1">> = <<ch>> \o s
    <2>1. <<ch, x, y>> = <<ch>> \o <<x, y>>
      OBVIOUS
    <2> QED
      BY <1>4, <1>5, <2>1, Zenon
  <1>9. Null(ch) = <<ch>> \o (s \o CRLF)
    <2>1. <<ch>> \in Seq(Byte)
      OBVIOUS
    <2>2. PICK u \in Seq(Byte), v \in Seq(Byte) : u = <<ch>> /\ v = CRLF
      BY <2>1, SyntaxTyped, Zenon
    <2>3. (u \o s) \o v = u \o (s \o v)
      BY <1>6, ConcatAssociative
    <2> QED
      BY <1>8, <2>2, <2>3, Zenon DEF Null
  <1> QED
    BY <1>2, <1>6, <1>7, <1>9, Zenon DEF Announces

\* The line that begins at p, and the number in it once it has arrived.
LEMMA AnnounceAt ==
    ASSUME NEW d \in Seq(Byte), NEW p \in 1..Len(d), NEW w, NEW ch \in Byte, NEW n,
           Announces(w, ch, n), At(d, p, w)
    PROVE  /\ w \in Seq(Byte) /\ Len(w) >= 3 /\ d[p] = ch
           /\ Len(d) >= p + Len(w) - 1 =>
                 /\ findCRLF(d, p + 1) = p + Len(w) - 2
                 /\ atoi(SubSeq(d, p + 1, p + Len(w) - 3)) = n
           /\ Len(d) < p + Len(w) - 1 => findCRLF(d, p + 1) = 0
  <1>1. PICK s \in Seq(Byte) : w = <<ch>> \o (s \o CRLF) /\ NoPair(s) /\ atoi(s) = n
    BY DEF Announces
  <1>2. PICK t : t = s \o CRLF
    OBVIOUS
  <1>3. t \in Seq(Byte) /\ Len(t) = Len(s) + 2
    BY <1>2, WithCRLF
  <1>40. PICK u : u = <<ch>>
    OBVIOUS
  <1>4. u \in Seq(Byte) /\ u = <<ch>> /\ Len(u) = 1 /\ u[1] = ch
    BY <1>40
  <1>5. w = u \o t
    BY <1>1, <1>2, <1>4
  <1>6. /\ w \in Seq(Byte) /\ Len(w) = Len(s) + 3 /\ w[1] = ch
    BY <1>3, <1>4, <1>5
  <1>7. p \in Nat \ {0} /\ p + 1 \in Nat \ {0} /\ Len(s) \in Nat /\ Len(d) \in Nat
    OBVIOUS
  <1>8. At(d, p + 1, t)
    BY <1>3, <1>4, <1>5, <1>7, AtParts
  <1>9. d[p] = ch
    <2>1. 1 \in 1..Len(w) /\ p + 1 - 1 = p /\ p + 1 - 1 <= Len(d)
      BY <1>6
    <2> QED
      BY <1>6, <2>1 DEF At
  <1>10. /\ Len(d) >= (p + 1) + Len(s) + 1 =>
               findCRLF(d, p + 1) = (p + 1) + Len(s) /\ SubSeq(d, p + 1, (p + 1) + Len(s) - 1) = s
         /\ Len(d) < (p + 1) + Len(s) + 1 => findCRLF(d, p + 1) = 0
    BY <1>1, <1>2, <1>7, <1>8, LineAt
  <1>11. /\ (p + 1) + Len(s) + 1 = p + Len(w) - 1
         /\ (p + 1) + Len(s) = p + Len(w) - 2
         /\ (p + 1) + Len(s) - 1 = p + Len(w) - 3
    BY <1>6, <1>7
  <1>12. Len(w) >= 3
    BY <1>6, <1>7
  <1> QED
    BY <1>1, <1>6, <1>9, <1>10, <1>11, <1>12

LEMMA ConcatLen ==
    \A s, t \in Seq(Byte) : s \o t \in Seq(Byte) /\ Len(s \o t) = Len(s) + Len(t)
  OBVIOUS

\* A state of the loop of parseArray.
Loop == [ok : BOOLEAN, pos : Nat \ {0}, args : Args]

\* Once the loop has failed it stays so.
LEMMA BulkFailed ==
    ASSUME NEW d, NEW s \in Loop, ~s.ok
    PROVE  ~nextBulk(d, s).ok
  <1>1. nextBulk(d, s) = [s EXCEPT !.ok = FALSE]
    BY DEF nextBulk
  <1> QED
    BY <1>1 DEF Loop

\* A turn of the loop with its cases told apart.
LEMMA BulkCases ==
    ASSUME NEW d, NEW s \in Loop, s.ok, NEW line, NEW len, NEW end,
           line = findCRLF(d, s.pos + 1), len = atoi(SubSeq(d, s.pos + 1, line - 1)),
           end = (line + 2) + len
    PROVE  /\ (s.pos > Len(d) \/ d[s.pos] # "$" \/ line = 0 \/ (len >= 0 /\ trailerBad(d, end)))
                => ~nextBulk(d, s).ok
           /\ ~(s.pos > Len(d) \/ d[s.pos] # "$" \/ line = 0 \/ (len >= 0 /\ trailerBad(d, end)))
                => nextBulk(d, s) =
                      IF len < 0 THEN [ok |-> TRUE, pos |-> line + 2, args |-> Append(s.args, <<>>)]
                      ELSE [ok |-> TRUE, pos |-> end + 2,
                            args |-> Append(s.args, SubSeq(d, line + 2, end - 1))]
  <1> DEFINE wrong == \/ s.pos > Len(d) \/ d[s.pos] # "$" \/ line = 0
                      \/ (len >= 0 /\ trailerBad(d, end))
  <1>1. nextBulk(d, s) = IF ~s.ok \/ wrong THEN [s EXCEPT !.ok = FALSE]
                         ELSE IF len < 0 THEN [ok |-> TRUE, pos |-> line + 2, args |-> Append(s.args, <<>>)]
                         ELSE [ok |-> TRUE, pos |-> end + 2,
                               args |-> Append(s.args, SubSeq(d, line + 2, end - 1))]
    BY DEF nextBulk
  <1> HIDE DEF wrong
  <1>2. wrong => nextBulk(d, s) = [s EXCEPT !.ok = FALSE]
    BY <1>1
  <1>3. [s EXCEPT !.ok = FALSE].ok = FALSE
    BY DEF Loop
  <1>4. wrong => ~nextBulk(d, s).ok
    BY <1>2, <1>3
  <1>5. ~wrong => nextBulk(d, s) =
                      IF len < 0 THEN [ok |-> TRUE, pos |-> line + 2, args |-> Append(s.args, <<>>)]
                      ELSE [ok |-> TRUE, pos |-> end + 2,
                            args |-> Append(s.args, SubSeq(d, line + 2, end - 1))]
    BY <1>1
  <1> QED
    BY <1>4, <1>5 DEF wrong

\* The null string: complete or not.
LEMMA NullStringAt ==
    ASSUME NEW d \in Seq(Byte), NEW s \in Loop, s.ok, At(d, s.pos, Null("$"))
    PROVE  /\ Null("$") \in Seq(Byte)
           /\ Len(d) >= s.pos + Len(Null("$")) - 1 =>
                 nextBulk(d, s) = [ok |-> TRUE, pos |-> s.pos + Len(Null("$")),
                                   args |-> Append(s.args, <<>>)]
           /\ Len(d) < s.pos + Len(Null("$")) - 1 => ~nextBulk(d, s).ok
  <1>0. PICK p \in Nat \ {0} : p = s.pos
    BY DEF Loop
  <1>1. PICK w : w = Null("$")
    OBVIOUS
  <1>2. PICK ch \in Byte : ch = "$"
    BY ByteAssumption
  <1>3. w \in Seq(Byte) /\ Announces(w, ch, -1)
    BY <1>1, <1>2, NullTyped, NullAnnounces
  <1>4. PICK line : line = findCRLF(d, p + 1)
    OBVIOUS
  <1>5. PICK len : len = atoi(SubSeq(d, p + 1, line - 1))
    OBVIOUS
  <1>6. PICK end : end = (line + 2) + len
    OBVIOUS
  <1>7. /\ (p > Len(d) \/ d[p] # "$" \/ line = 0 \/ (len >= 0 /\ trailerBad(d, end)))
                => ~nextBulk(d, s).ok
        /\ ~(p > Len(d) \/ d[p] # "$" \/ line = 0 \/ (len >= 0 /\ trailerBad(d, end)))
             => nextBulk(d, s) =
                   IF len < 0 THEN [ok |-> TRUE, pos |-> line + 2, args |-> Append(s.args, <<>>)]
                   ELSE [ok |-> TRUE, pos |-> end + 2,
                         args |-> Append(s.args, SubSeq(d, line + 2, end - 1))]
    BY <1>0, <1>4, <1>5, <1>6, BulkCases
  <1>8. CASE p > Len(d)
    <2>1. Len(w) >= 1
      <3>1. PICK t \in Seq(Byte) : w = <<ch>> \o (t \o CRLF)
        BY <1>3 DEF Announces
      <3>2. t \o CRLF \in Seq(Byte)
        BY WithCRLF
      <3> QED
        BY <3>1, <3>2
    <2>2. Len(d) < p + Len(w) - 1
      BY <1>3, <1>8, <2>1
    <2> QED
      BY <1>0, <1>1, <1>3, <1>7, <1>8, <2>2
  <1>9. CASE p <= Len(d)
    <2>1. p \in 1..Len(d) /\ At(d, p, w)
      BY <1>0, <1>1, <1>9
    <2>2. /\ Len(w) >= 3 /\ d[p] = ch
          /\ Len(d) >= p + Len(w) - 1 =>
                 /\ line = p + Len(w) - 2
                 /\ atoi(SubSeq(d, p + 1, p + Len(w) - 3)) = -1
          /\ Len(d) < p + Len(w) - 1 => line = 0
      BY <1>3, <1>4, <2>1, AnnounceAt
    <2>3. CASE Len(d) >= p + Len(w) - 1
      <3>1. line = p + Len(w) - 2 /\ line - 1 = p + Len(w) - 3 /\ line # 0 /\ line + 2 = p + Len(w)
        BY <1>3, <2>2, <2>3
      <3>2. len = -1
        BY <1>5, <2>2, <2>3, <3>1
      <3>3. nextBulk(d, s) = [ok |-> TRUE, pos |-> line + 2, args |-> Append(s.args, <<>>)]
        BY <1>2, <1>7, <1>9, <2>2, <3>1, <3>2
      <3>4. nextBulk(d, s) = [ok |-> TRUE, pos |-> p + Len(w), args |-> Append(s.args, <<>>)]
        BY <3>1, <3>3
      <3>5. ~(Len(d) < p + Len(w) - 1)
        BY <1>3, <2>3
      <3> QED
        BY <1>0, <1>1, <1>3, <3>4, <3>5
    <2>4. CASE Len(d) < p + Len(w) - 1
      <3>1. ~nextBulk(d, s).ok
        BY <1>7, <2>2, <2>4
      <3>2. ~(Len(d) >= p + Len(w) - 1)
        BY <1>3, <2>4
      <3> QED
        BY <1>0, <1>1, <1>3, <3>1, <3>2
    <2> QED
      BY <1>3, <2>3, <2>4
  <1> QED
    BY <1>8, <1>9

\* What a turn makes of the string w with the contents a and the trailer t.
StringTurn(d, s, w, a, t) ==
    /\ Len(d) >= s.pos + Len(w) - 1 /\ t = CRLF =>
          nextBulk(d, s) = [ok |-> TRUE, pos |-> s.pos + Len(w), args |-> Append(s.args, a)]
    /\ Len(d) < s.pos + Len(w) - 1 \/ t[1] # "CR" \/ t[2] # "LF" => ~nextBulk(d, s).ok

\* A string of a known length: complete, incomplete, or with the wrong trailer.
LEMMA StringAt ==
    ASSUME NEW d \in Seq(Byte), NEW s \in Loop, s.ok, NEW a \in Seq(Byte), NEW t \in Seq(Byte),
           Len(t) = 2, NEW w, w = (head("$", Len(a)) \o a) \o t, At(d, s.pos, w)
    PROVE  w \in Seq(Byte) /\ StringTurn(d, s, w, a, t)
  <1> SUFFICES /\ w \in Seq(Byte)
               /\ Len(d) >= s.pos + Len(w) - 1 /\ t = CRLF =>
                     nextBulk(d, s) = [ok |-> TRUE, pos |-> s.pos + Len(w), args |-> Append(s.args, a)]
               /\ Len(d) < s.pos + Len(w) - 1 \/ t[1] # "CR" \/ t[2] # "LF" => ~nextBulk(d, s).ok
    BY DEF StringTurn
  <1>0. PICK p \in Nat \ {0} : p = s.pos
    BY DEF Loop
  <1>2. PICK ch \in Byte : ch = "$"
    BY ByteAssumption
  <1>3. PICK n \in Nat : n = Len(a)
    OBVIOUS
  <1>4. PICK u : u = head("$", n)
    OBVIOUS
  <1>5. u \in Seq(Byte) /\ Announces(u, ch, n)
    BY <1>2, <1>4, HeadTyped, HeadAnnounces
  <1>6. PICK h \in Nat : h = Len(u)
    BY <1>5
  <1>7. PICK v : v = u \o a
    OBVIOUS
  <1>8. v \in Seq(Byte) /\ Len(v) = h + n
    BY <1>3, <1>5, <1>6, <1>7
  <1>9. w = v \o t
    BY <1>3, <1>4, <1>7
  <1>10. w \in Seq(Byte) /\ Len(w) = h + n + 2
    <2>1. v \o t \in Seq(Byte) /\ Len(v \o t) = Len(v) + Len(t)
      BY <1>8, ConcatLen, Zenon
    <2>2. Len(v) + Len(t) = h + n + 2
      BY <1>8
    <2> QED
      BY <1>9, <2>1, <2>2, Zenon
  <1>11. At(d, p, u) /\ At(d, p + h, a) /\ At(d, p + h + n, t)
    <2>0. At(d, p, v \o t)
      BY <1>0, <1>9, Zenon
    <2>1. At(d, p, v) /\ At(d, p + Len(v), t)
      BY <1>8, <2>0, AtParts
    <2>2. At(d, p, u) /\ At(d, p + Len(u), a)
      BY <1>5, <1>7, <2>1, AtParts
    <2>3. p + Len(v) = p + h + n /\ p + Len(u) = p + h
      BY <1>6, <1>8
    <2> QED
      BY <2>1, <2>2, <2>3
  <1>12. PICK line : line = findCRLF(d, p + 1)
    OBVIOUS
  <1>13. PICK len : len = atoi(SubSeq(d, p + 1, line - 1))
    OBVIOUS
  <1>14. PICK end : end = (line + 2) + len
    OBVIOUS
  <1>15. /\ (p > Len(d) \/ d[p] # "$" \/ line = 0 \/ (len >= 0 /\ trailerBad(d, end)))
                => ~nextBulk(d, s).ok
         /\ ~(p > Len(d) \/ d[p] # "$" \/ line = 0 \/ (len >= 0 /\ trailerBad(d, end)))
              => nextBulk(d, s) =
                    IF len < 0 THEN [ok |-> TRUE, pos |-> line + 2, args |-> Append(s.args, <<>>)]
                    ELSE [ok |-> TRUE, pos |-> end + 2,
                          args |-> Append(s.args, SubSeq(d, line + 2, end - 1))]
    BY <1>0, <1>12, <1>13, <1>14, BulkCases
  <1>16. PICK m \in Nat : m = Len(d)
    OBVIOUS
  <1>17. CASE p > m
    <2>1. ~nextBulk(d, s).ok
      BY <1>15, <1>16, <1>17
    <2>2. ~(m >= p + (h + n + 2) - 1)
      BY <1>17
    <2> QED
      BY <1>0, <1>10, <1>16, <2>1, <2>2
  <1>18. CASE p <= m
    <2>1. p \in 1..m
      BY <1>18
    <2>2. /\ h >= 3 /\ d[p] = ch
          /\ m >= p + h - 1 =>
                 /\ line = p + h - 2
                 /\ atoi(SubSeq(d, p + 1, p + h - 3)) = n
          /\ m < p + h - 1 => line = 0
      BY <1>5, <1>6, <1>11, <1>12, <1>16, <2>1, AnnounceAt
    <2>3. CASE m < p + h - 1
      <3>1. ~nextBulk(d, s).ok
        BY <1>15, <2>2, <2>3
      <3>2. ~(m >= p + (h + n + 2) - 1)
        BY <2>3
      <3> QED
        BY <1>0, <1>10, <1>16, <3>1, <3>2
    <2>4. CASE m >= p + h - 1
      <3>1. line = p + h - 2 /\ line - 1 = p + h - 3 /\ line # 0 /\ line + 2 = p + h
        BY <2>2, <2>4
      <3>2. len = n
        BY <1>13, <2>2, <2>4, <3>1
      <3>3. end = p + h + n
        BY <1>14, <3>1, <3>2
      <3>4. CASE m < end + 1 \/ t[1] # "CR" \/ t[2] # "LF"
        <4>1. trailerBad(d, end)
          <5>1. CASE m < end + 1
            BY <1>16, <5>1 DEF trailerBad
          <5>2. CASE m >= end + 1 /\ (t[1] # "CR" \/ t[2] # "LF")
            <6>1. d[end] = t[1] /\ d[end + 1] = t[2]
              <7>1. (p + h + n) + 1 - 1 = end /\ (p + h + n) + 2 - 1 = end + 1 /\ end <= m /\ end + 1 <= m
                BY <3>3, <5>2
              <7>2. 1 \in 1..Len(t) /\ 2 \in 1..Len(t)
                OBVIOUS
              <7> QED
                BY <1>11, <1>16, <7>1, <7>2 DEF At
            <6> QED
              BY <5>2, <6>1 DEF trailerBad
          <5> QED
            BY <3>3, <3>4, <5>1, <5>2
        <4>2. ~nextBulk(d, s).ok
          BY <1>15, <3>2, <4>1
        <4>3. (m >= p + (h + n + 2) - 1) => (t[1] # "CR" \/ t[2] # "LF")
          BY <3>3, <3>4
        <4>4. t = CRLF => t[1] = "CR" /\ t[2] = "LF"
          BY DEF CRLF
        <4> QED
          BY <1>0, <1>10, <1>16, <4>2, <4>3, <4>4
      <3>5. CASE ~(m < end + 1 \/ t[1] # "CR" \/ t[2] # "LF")
        <4>1. d[end] = t[1] /\ d[end + 1] = t[2]
          <5>1. (p + h + n) + 1 - 1 = end /\ (p + h + n) + 2 - 1 = end + 1 /\ end <= m /\ end + 1 <= m
            BY <3>3, <3>5
          <5>2. 1 \in 1..Len(t) /\ 2 \in 1..Len(t)
            OBVIOUS
          <5> QED
            BY <1>11, <1>16, <5>1, <5>2 DEF At
        <4>2. ~trailerBad(d, end)
          BY <1>16, <3>5, <4>1 DEF trailerBad
        <4>3. ~(p > m) /\ ~(len < 0)
          BY <1>18, <3>2
        <4>4. nextBulk(d, s) = [ok |-> TRUE, pos |-> end + 2,
                                args |-> Append(s.args, SubSeq(d, line + 2, end - 1))]
          BY <1>2, <1>15, <1>16, <2>2, <3>1, <4>2, <4>3
        <4>5. SubSeq(d, line + 2, end - 1) = a
          <5>1. PICK q \in Nat \ {0} : q = p + h
            OBVIOUS
          <5>2. line + 2 = q /\ end - 1 = q + n - 1 /\ q + n - 1 <= m
            BY <3>1, <3>3, <3>5, <5>1
          <5>3. PICK x : x = SubSeq(d, q, q + n - 1)
            OBVIOUS
          <5>4. /\ x \in Seq(Byte) /\ Len(x) = n
                /\ \A i \in 1..n : x[i] = d[q + i - 1]
            <6>1. \A i \in q..(q + n - 1) : d[i] \in Byte
              BY <1>16, <5>2
            <6>2. q \in Int /\ q + n - 1 \in Int
              OBVIOUS
            <6>3. /\ x \in Seq(Byte)
                  /\ Len(x) = IF q <= q + n - 1 THEN (q + n - 1) - q + 1 ELSE 0
                  /\ \A i \in 1..((q + n - 1) - q + 1) : x[i] = d[q + i - 1]
              BY <5>3, <6>1, <6>2, SubSeqProperties
            <6>4. (q + n - 1) - q + 1 = n
              OBVIOUS
            <6> QED
              BY <6>3, <6>4
          <5>5. \A i \in 1..n : x[i] = a[i]
            <6> SUFFICES ASSUME NEW i \in 1..n PROVE x[i] = a[i]
              OBVIOUS
            <6>1. q + i - 1 <= m
              BY <5>2
            <6>2. At(d, q, a)
              BY <1>11, <5>1
            <6> QED
              BY <1>3, <1>16, <5>4, <6>1, <6>2 DEF At
          <5>6. x = a
            BY <1>3, <5>4, <5>5, SeqEqual
          <5> QED
            BY <5>2, <5>3, <5>6
        <4>6. end + 2 = p + Len(w)
          <5>1. (p + h + n) + 2 = p + (h + n + 2)
            OBVIOUS
          <5> QED
            BY <1>10, <3>3, <5>1, Zenon
        <4>7. nextBulk(d, s) = [ok |-> TRUE, pos |-> p + Len(w), args |-> Append(s.args, a)]
          BY <4>4, <4>5, <4>6
        <4>8. ~(m < p + (h + n + 2) - 1)
          BY <3>3, <3>5
        <4> QED
          BY <1>0, <1>10, <1>16, <3>5, <4>7, <4>8
      <3> QED
        BY <3>4, <3>5
    <2> QED
      BY <2>3, <2>4
  <1> QED
    BY <1>17, <1>18

\* A byte that begins no string.
LEMMA NoStringAt ==
    ASSUME NEW d \in Seq(Byte), NEW s \in Loop, NEW ch \in Byte \ {"$"}, At(d, s.pos, <<ch>>)
    PROVE  ~nextBulk(d, s).ok
  <1>1. CASE ~s.ok
    BY <1>1, BulkFailed
  <1>2. CASE s.ok /\ s.pos > Len(d)
    BY <1>2, BulkCases
  <1>3. CASE s.ok /\ s.pos <= Len(d)
    <2>1. PICK p \in Nat \ {0} : p = s.pos
      BY DEF Loop
    <2>2. d[p] = ch
      <3>1. PICK u : u = <<ch>>
        OBVIOUS
      <3>2. Len(u) = 1 /\ u[1] = ch
        BY <3>1
      <3>3. p + 1 - 1 = p /\ 1 \in 1..1
        OBVIOUS
      <3> QED
        BY <1>3, <2>1, <3>1, <3>2, <3>3 DEF At
    <2> QED
      BY <1>3, <2>1, <2>2, BulkCases
  <1> QED
    BY <1>1, <1>2, <1>3 DEF Loop

\* The lengths of the parts of a concatenation.
LEMMA JoinedLen ==
    ASSUME NEW x \in Args
    PROVE  /\ Len(x) \in Nat
           /\ \A i \in 0..Len(x) : joined(x)[i] \in Seq(Byte) /\ Len(joined(x)[i]) \in Nat
           /\ Len(joined(x)[0]) = 0
           /\ \A i \in 1..Len(x) : /\ x[i] \in Seq(Byte) /\ Len(x[i]) \in Nat
                                   /\ Len(joined(x)[i]) = Len(joined(x)[i - 1]) + Len(x[i])
  <1>1. /\ joined(x) \in [0..Len(x) -> Seq(Byte)]
        /\ joined(x)[0] = <<>>
        /\ \A i \in 1..Len(x) : joined(x)[i] = joined(x)[i - 1] \o x[i]
    BY JoinedDef
  <1>2. Len(x) \in Nat /\ \A i \in 1..Len(x) : x[i] \in Seq(Byte)
    BY DEF Args
  <1>3. \A i \in 0..Len(x) : joined(x)[i] \in Seq(Byte) /\ Len(joined(x)[i]) \in Nat
    BY <1>1
  <1>4. ASSUME NEW i \in 1..Len(x)
        PROVE  x[i] \in Seq(Byte) /\ Len(x[i]) \in Nat
               /\ Len(joined(x)[i]) = Len(joined(x)[i - 1]) + Len(x[i])
    <2>1. PICK u \in Seq(Byte), v \in Seq(Byte) : u = joined(x)[i - 1] /\ v = x[i]
      BY <1>2, <1>3
    <2>2. Len(u \o v) = Len(u) + Len(v)
      BY ConcatLen
    <2>3. joined(x)[i] = u \o v
      BY <1>1, <2>1, Zenon
    <2> QED
      BY <1>2, <2>1, <2>2, <2>3
  <1>5. Len(joined(x)[0]) = 0
    BY <1>1
  <1> QED
    BY <1>2, <1>3, <1>4, <1>5

\* Where the parts of a concatenation are.
LEMMA JoinedAt ==
    ASSUME NEW x \in Args, NEW d \in Seq(Byte), NEW p \in Nat \ {0}, At(d, p, concat(x))
    PROVE  \A i \in 1..Len(x) : At(d, p + Len(joined(x)[i - 1]), x[i])
  <1>1. PICK n \in Nat : n = Len(x)
    BY JoinedLen
  <1>2. PICK f : f = joined(x)
    OBVIOUS
  <1>3. \A i \in 1..n : f[i] = f[i - 1] \o x[i]
    BY <1>1, <1>2, JoinedDef
  <1>4. (\A i \in 0..n : f[i] \in Seq(Byte)) /\ \A i \in 1..n : x[i] \in Seq(Byte)
    BY <1>1, <1>2, JoinedLen
  <1>5. ASSUME NEW i \in 1..n, At(d, p, f[i])
        PROVE  At(d, p, f[i - 1]) /\ At(d, p + Len(f[i - 1]), x[i])
    <2>1. PICK u \in Seq(Byte), v \in Seq(Byte) : u = f[i - 1] /\ v = x[i]
      BY <1>4
    <2>2. At(d, p, u \o v)
      BY <1>3, <1>5, <2>1, Zenon
    <2> QED
      BY <2>1, <2>2, AtParts
  <1> DEFINE T == {k \in 0..n : At(d, p, f[n - k])}
  <1>6. 0 \in T
    <2>1. n - 0 = n
      OBVIOUS
    <2>2. At(d, p, f[n])
      BY <1>1, <1>2 DEF concat
    <2> QED
      BY <2>1, <2>2
  <1>7. ASSUME NEW k \in 1..n, k - 1 \in T PROVE k \in T
    <2>1. PICK i \in 1..n : i = n - (k - 1) /\ i - 1 = n - k
      OBVIOUS
    <2>2. At(d, p, f[i])
      BY <1>7, <2>1
    <2>3. At(d, p, f[n - k])
      BY <1>5, <2>1, <2>2
    <2> QED
      BY <2>3
  <1> HIDE DEF T
  <1>8. \A k \in 0..n : k \in T
    BY <1>6, <1>7, UpTo
  <1>9. ASSUME NEW i \in 1..n PROVE At(d, p, f[i])
    <2>1. n - i \in 0..n /\ n - (n - i) = i
      OBVIOUS
    <2> QED
      BY <1>8, <2>1 DEF T
  <1>10. \A i \in 1..n : At(d, p + Len(f[i - 1]), x[i])
    BY <1>5, <1>9
  <1> QED
    BY <1>1, <1>2, <1>10

\* The loop behind i strings that end before `end', all of which have arrived or not.
After(st, d, end, args, i) ==
    /\ Len(d) >= end - 1 => /\ st.ok /\ st.pos = end /\ Len(st.args) = i
                            /\ \A j \in 1..i : st.args[j] = args[j]
    /\ Len(d) < end - 1 => ~st.ok

\* A string as it is sent.
LEMMA SentAt ==
    ASSUME NEW item, Stringed(item), NEW i \in 1..Len(item.args), NEW w, w = sent(item)[i],
           NEW d \in Seq(Byte), NEW s \in Loop, s.ok, At(d, s.pos, w)
    PROVE  /\ Len(d) >= s.pos + Len(w) - 1 =>
                 nextBulk(d, s) = [ok |-> TRUE, pos |-> s.pos + Len(w), args |-> Append(s.args, item.args[i])]
           /\ Len(d) < s.pos + Len(w) - 1 => ~nextBulk(d, s).ok
  <1>1. PICK a \in Seq(Byte) : a = item.args[i]
    BY DEF Stringed, Args
  <1>2. w = IF i \in item.nulls /\ a = <<>> THEN Null("$") ELSE bulkString(a)
    BY <1>1 DEF sent, Null
  <1>3. CASE i \in item.nulls /\ a = <<>>
    <2>1. w = Null("$")
      BY <1>2, <1>3
    <2>2. At(d, s.pos, Null("$"))
      BY <2>1
    <2>3. /\ Len(d) >= s.pos + Len(w) - 1 =>
                 nextBulk(d, s) = [ok |-> TRUE, pos |-> s.pos + Len(w), args |-> Append(s.args, <<>>)]
          /\ Len(d) < s.pos + Len(w) - 1 => ~nextBulk(d, s).ok
      BY <2>1, <2>2, NullStringAt
    <2> QED
      BY <1>1, <1>3, <2>3
  <1>4. CASE ~(i \in item.nulls /\ a = <<>>)
    <2>1. w = bulkString(a)
      BY <1>2, <1>4
    <2>2. PICK t \in Seq(Byte) : t = CRLF
      BY SyntaxTyped, Zenon
    <2>3. Len(t) = 2
      BY <2>2 DEF CRLF
    <2>4. w = (head("$", Len(a)) \o a) \o t
      BY <2>1, <2>2 DEF bulkString
    <2>5. StringTurn(d, s, w, a, t)
      BY <2>3, <2>4, StringAt
    <2> QED
      BY <1>1, <2>2, <2>5 DEF StringTurn
  <1> QED
    BY <1>3, <1>4

\* The loop of parseArray over the strings of an item.
LEMMA LoopAt ==
    ASSUME NEW item, Stringed(item), NEW d \in Seq(Byte), NEW pos \in 1..(Len(d) + 1),
           NEW count \in Nat, Len(item.args) <= count, At(d, pos, concat(sent(item)))
    PROVE  \A i \in 0..Len(item.args) :
              After(bulks(d, pos, count)[i], d, pos + Len(joined(sent(item))[i]), item.args, i)
  <1>1. PICK x \in Args : x = sent(item) /\ Len(x) = Len(item.args)
    BY SentTyped
  <1>2. PICK n \in Nat : n = Len(item.args) /\ n <= count /\ n = Len(x)
    BY <1>1, JoinedLen
  <1>3. PICK f : f = joined(x)
    OBVIOUS
  <1>4. /\ \A i \in 0..n : Len(f[i]) \in Nat
        /\ Len(f[0]) = 0
        /\ \A i \in 1..n : Len(x[i]) \in Nat /\ Len(f[i]) = Len(f[i - 1]) + Len(x[i])
    BY <1>2, <1>3, JoinedLen
  <1>5. PICK b : b = bulks(d, pos, count)
    OBVIOUS
  <1>6. /\ b \in [0..count -> Turn(d, pos)]
        /\ b[0] = [ok |-> TRUE, pos |-> pos, args |-> <<>>]
        /\ \A i \in 1..count : b[i] = nextBulk(d, b[i - 1])
    BY <1>5, BulksDef
  <1>7. \A i \in 1..n : At(d, pos + Len(f[i - 1]), x[i])
    <2>1. At(d, pos, concat(x)) /\ pos \in Nat \ {0}
      BY <1>1
    <2> QED
      BY <1>2, <1>3, <2>1, JoinedAt
  <1> DEFINE T == {i \in 0..n : After(b[i], d, pos + Len(f[i]), item.args, i)}
  <1>8. 0 \in T
    <2>1. Len(d) >= pos + Len(f[0]) - 1
      BY <1>4
    <2>2. b[0].ok /\ b[0].pos = pos + Len(f[0]) /\ Len(b[0].args) = 0
      BY <1>4, <1>6
    <2>3. ~(Len(d) < pos + Len(f[0]) - 1)
      BY <1>4
    <2> QED
      BY <2>2, <2>3 DEF After
  <1>9. ASSUME NEW i \in 1..n, i - 1 \in T PROVE i \in T
    <2>1. PICK s \in Loop : s = b[i - 1]
      <3>1. b[i - 1] \in Turn(d, pos)
        BY <1>2, <1>6
      <3> QED
        BY <3>1 DEF Turn, Loop
    <2>2. b[i] = nextBulk(d, s)
      BY <1>2, <1>6, <2>1
    <2>3. PICK e \in Nat \ {0} : e = pos + Len(f[i - 1])
      BY <1>4
    <2>4. After(s, d, e, item.args, i - 1)
      BY <1>9, <2>1, <2>3
    <2>5. PICK l \in Nat : l = Len(x[i]) /\ pos + Len(f[i]) = e + l
      <3>0. i - 1 \in 0..n
        OBVIOUS
      <3>1. PICK k \in Nat : k = Len(f[i - 1])
        BY <1>4, <3>0
      <3>11. PICK l \in Nat : l = Len(x[i]) /\ Len(f[i]) = k + l
        BY <1>4, <3>1
      <3>2. pos + (k + l) = e + l
        BY <2>3, <3>1
      <3> QED
        BY <3>11, <3>2
    <2>6. CASE Len(d) < e - 1
      <3>1. ~s.ok
        BY <2>4, <2>6 DEF After
      <3>2. ~b[i].ok
        BY <2>2, <3>1, BulkFailed
      <3>3. ~(Len(d) >= (e + l) - 1)
        BY <2>6
      <3>4. After(b[i], d, e + l, item.args, i)
        BY <3>2, <3>3 DEF After
      <3> QED
        BY <2>5, <3>4
    <2>7. CASE Len(d) >= e - 1
      <3>1. s.ok /\ s.pos = e /\ Len(s.args) = i - 1 /\ \A j \in 1..(i - 1) : s.args[j] = item.args[j]
        BY <2>4, <2>7 DEF After
      <3>2. PICK w : w = sent(item)[i]
        OBVIOUS
      <3>3. w = x[i] /\ At(d, s.pos, w) /\ Len(w) = l
        BY <1>1, <1>7, <2>3, <2>5, <3>1, <3>2
      <3>4. /\ Len(d) >= e + l - 1 =>
                 b[i] = [ok |-> TRUE, pos |-> e + l, args |-> Append(s.args, item.args[i])]
            /\ Len(d) < e + l - 1 => ~b[i].ok
        <4>1. i \in 1..Len(item.args)
          BY <1>2
        <4> QED
          <5>1. /\ Len(d) >= s.pos + Len(w) - 1 =>
                      nextBulk(d, s) = [ok |-> TRUE, pos |-> s.pos + Len(w),
                                        args |-> Append(s.args, item.args[i])]
                /\ Len(d) < s.pos + Len(w) - 1 => ~nextBulk(d, s).ok
            BY <3>1, <3>2, <3>3, <4>1, SentAt, Zenon
          <5> QED
            BY <2>2, <3>1, <3>3, <5>1, Zenon
      <3>5. CASE Len(d) >= e + l - 1
        <4>1. b[i] = [ok |-> TRUE, pos |-> e + l, args |-> Append(s.args, item.args[i])]
          BY <3>4, <3>5
        <4>2. s.args \in Seq(Seq(Byte)) /\ item.args[i] \in Seq(Byte)
          <5>1. s.args \in Args /\ item.args \in Args
            BY DEF Loop, Stringed
          <5>2. i \in 1..Len(item.args)
            BY <1>2
          <5> QED
            BY <5>1, <5>2 DEF Args
        <4>3. PICK y : y = Append(s.args, item.args[i])
          OBVIOUS
        <4>4. Len(y) = i /\ y[i] = item.args[i] /\ \A j \in 1..(i - 1) : y[j] = s.args[j]
          BY <3>1, <4>2, <4>3
        <4>5. \A j \in 1..i : y[j] = item.args[j]
          <5> SUFFICES ASSUME NEW j \in 1..i PROVE y[j] = item.args[j]
            OBVIOUS
          <5>1. j = i \/ j \in 1..(i - 1)
            OBVIOUS
          <5> QED
            BY <3>1, <4>4, <5>1
        <4>6. b[i].ok /\ b[i].pos = e + l /\ b[i].args = y
          BY <4>1, <4>3
        <4>7. ~(Len(d) < (e + l) - 1)
          BY <3>5
        <4>8. After(b[i], d, e + l, item.args, i)
          BY <4>4, <4>5, <4>6, <4>7 DEF After
        <4> QED
          BY <2>5, <4>8
      <3>6. CASE Len(d) < e + l - 1
        <4>1. After(b[i], d, e + l, item.args, i)
          BY <3>4, <3>6 DEF After
        <4> QED
          BY <2>5, <4>1
      <3> QED
        BY <3>5, <3>6
    <2> QED
      BY <2>3, <2>6, <2>7
  <1> HIDE DEF T
  <1>10. \A i \in 0..n : i \in T
    BY <1>8, <1>9, UpTo
  <1>11. \A i \in 0..n : After(b[i], d, pos + Len(f[i]), item.args, i)
    BY <1>10 DEF T
  <1> QED
    BY <1>1, <1>2, <1>3, <1>5, <1>11

\* A turn that fails makes the loop fail.
LEMMA LoopFails ==
    ASSUME NEW d \in Seq(Byte), NEW pos \in 1..(Len(d) + 1), NEW count \in Nat,
           NEW k \in 1..count, ~bulks(d, pos, count)[k].ok
    PROVE  ~bulks(d, pos, count)[count].ok
  <1>1. PICK b : b = bulks(d, pos, count)
    OBVIOUS
  <1>2. /\ b \in [0..count -> Turn(d, pos)]
        /\ \A i \in 1..count : b[i] = nextBulk(d, b[i - 1])
    BY <1>1, BulksDef
  <1> DEFINE T == {i \in 0..count : i >= k => ~b[i].ok}
  <1>3. 0 \in T
    OBVIOUS
  <1>4. ASSUME NEW i \in 1..count, i - 1 \in T PROVE i \in T
    <2>1. CASE i - 1 >= k
      <3>1. ~b[i - 1].ok
        BY <1>4, <2>1
      <3>2. b[i - 1] \in Turn(d, pos)
        BY <1>2
      <3>3. b[i - 1] \in Loop
        BY <3>2 DEF Turn, Loop
      <3>4. ~nextBulk(d, b[i - 1]).ok
        BY <3>1, <3>3, BulkFailed
      <3> QED
        BY <1>2, <3>4
    <2>2. CASE i = k
      BY <1>1, <2>2
    <2> QED
      BY <2>1, <2>2
  <1> HIDE DEF T
  <1>5. \A i \in 0..count : i \in T
    BY <1>3, <1>4, UpTo
  <1> QED
    BY <1>1, <1>5 DEF T

LEMMA Regroup ==
    \A s, t, u \in Seq(Byte) : (s \o t) \o u = s \o (t \o u)
  BY ConcatAssociative

\* The frame w that means args is parsed as soon as it has arrived, and not before.
Outcome(d, w, args) ==
    /\ Len(d) >= Len(w) => parse(d) = Parsed(args, Len(w))
    /\ Len(d) < Len(w) => ~parse(d).ok

\* What parse makes of the line that announces an array.
ArrayTurn(d, h, n) ==
    /\ Len(d) < h => ~parse(d).ok
    /\ Len(d) >= h /\ n < 0 => parse(d) = Parsed(<<>>, h)
    /\ Len(d) >= h /\ n >= 0 => parse(d) = bulkStrings(d, h + 1, n)

LEMMA ArrayHead ==
    ASSUME NEW d \in Seq(Byte), NEW w, NEW n \in Int, Announces(w, "*", n), At(d, 1, w)
    PROVE  ArrayTurn(d, Len(w), n) /\ w \in Seq(Byte) /\ Len(w) >= 3
  <1>0. None.ok = FALSE
    BY DEF None
  <1>1. PICK ch \in Byte : ch = "*"
    BY ByteAssumption
  <1>2. w \in Seq(Byte) /\ Len(w) >= 3
    <2>1. PICK t \in Seq(Byte) : w = <<ch>> \o (t \o CRLF)
      BY <1>1 DEF Announces
    <2>2. PICK u : u = t \o CRLF
      OBVIOUS
    <2>3. u \in Seq(Byte) /\ Len(u) >= 2
      BY <2>2, WithCRLF
    <2>4. w = <<ch>> \o u
      BY <2>1, <2>2
    <2> QED
      BY <2>3, <2>4
  <1>3. PICK h \in Nat : h = Len(w) /\ h >= 3
    BY <1>2
  <1>4. CASE Len(d) = 0
    <2>1. d = <<>>
      BY <1>4, EmptySeq
    <2>2. parse(d) = None
      BY <2>1 DEF parse
    <2> QED
      BY <1>0, <1>2, <1>3, <1>4, <2>2 DEF ArrayTurn
  <1>5. CASE Len(d) # 0
    <2>1. d # <<>> /\ 1 \in 1..Len(d)
      BY <1>5
    <2>2. /\ d[1] = ch
          /\ Len(d) >= 1 + h - 1 =>
                 /\ findCRLF(d, 1 + 1) = 1 + h - 2
                 /\ atoi(SubSeq(d, 1 + 1, 1 + h - 3)) = n
          /\ Len(d) < 1 + h - 1 => findCRLF(d, 1 + 1) = 0
      BY <1>1, <1>3, <2>1, AnnounceAt
    <2>3. /\ Len(d) >= h =>
                 /\ findCRLF(d, 2) = h - 1
                 /\ atoi(SubSeq(d, 2, h - 2)) = n
          /\ Len(d) < h => findCRLF(d, 2) = 0
      <3>1. 1 + 1 = 2 /\ 1 + h - 1 = h /\ 1 + h - 2 = h - 1 /\ 1 + h - 3 = h - 2
        OBVIOUS
      <3> QED
        BY <2>2, <3>1
    <2>4. PICK line : line = findCRLF(d, 2)
      OBVIOUS
    <2>5. PICK count : count = atoi(SubSeq(d, 2, line - 1))
      OBVIOUS
    <2>6. parse(d) = CASE line = 0 -> None
                       [] line > 0 /\ count < 0 -> Parsed(<<>>, line + 1)
                       [] line > 0 /\ count >= 0 -> bulkStrings(d, line + 2, count)
      BY <1>1, <2>1, <2>2, <2>4, <2>5 DEF parse, parseArray
    <2>7. CASE Len(d) < h
      <3>1. line = 0
        BY <2>3, <2>4, <2>7
      <3>2. parse(d) = None
        BY <2>6, <3>1
      <3> QED
        BY <1>0, <1>2, <1>3, <2>7, <3>2 DEF ArrayTurn
    <2>8. CASE Len(d) >= h
      <3>1. line = h - 1 /\ line > 0 /\ line # 0 /\ line - 1 = h - 2 /\ line + 1 = h /\ line + 2 = h + 1
        BY <1>3, <2>3, <2>4, <2>8
      <3>2. count = n
        BY <2>3, <2>5, <2>8, <3>1
      <3>3. CASE n < 0
        <4>1. parse(d) = Parsed(<<>>, h)
          BY <2>6, <3>1, <3>2, <3>3
        <4>2. ~(n >= 0) /\ ~(Len(d) < h)
          BY <2>8, <3>3
        <4> QED
          BY <1>2, <1>3, <4>1, <4>2 DEF ArrayTurn
      <3>4. CASE n >= 0
        <4>1. parse(d) = bulkStrings(d, h + 1, n)
          BY <2>6, <3>1, <3>2, <3>4
        <4>2. ~(n < 0) /\ ~(Len(d) < h)
          BY <2>8, <3>4
        <4> QED
          BY <1>2, <1>3, <4>1, <4>2 DEF ArrayTurn
      <3> QED
        BY <3>3, <3>4
    <2> QED
      BY <2>7, <2>8
  <1> QED
    BY <1>4, <1>5

LEMMA NullArrayParsed ==
    ASSUME NEW d \in Seq(Byte), At(d, 1, Null("*"))
    PROVE  Outcome(d, Null("*"), <<>>)
  <1>1. Announces(Null("*"), "*", -1)
    BY ByteAssumption, NullAnnounces
  <1>2. PICK n \in Int : n = -1
    OBVIOUS
  <1>3. ArrayTurn(d, Len(Null("*")), n)
    BY <1>1, <1>2, ArrayHead
  <1>4. n < 0
    BY <1>2
  <1> QED
    BY <1>3, <1>4 DEF ArrayTurn, Outcome

\* The strings of an array begin behind its first line.
LEMMA ArrayStrings ==
    ASSUME NEW item, Stringed(item), NEW count \in Nat, Len(item.args) <= count,
           NEW d \in Seq(Byte), NEW rest \in Seq(Byte),
           At(d, 1, head("*", count) \o (concat(sent(item)) \o rest))
    PROVE  /\ head("*", count) \in Seq(Byte) /\ concat(sent(item)) \in Seq(Byte)
           /\ ArrayTurn(d, Len(head("*", count)), count)
           /\ At(d, Len(head("*", count)) + 1, concat(sent(item)))
           /\ At(d, Len(head("*", count)) + 1 + Len(concat(sent(item))), rest)
  <1>1. PICK w, c : w = head("*", count) /\ c = concat(sent(item))
    OBVIOUS
  <1>2. w \in Seq(Byte) /\ c \in Seq(Byte) /\ Announces(w, "*", count)
    BY <1>1, ByteAssumption, HeadTyped, HeadAnnounces, SentTyped, ConcatTyped
  <1>3. PICK u : u = c \o rest
    OBVIOUS
  <1>4. u \in Seq(Byte)
    BY <1>2, <1>3, AppendedTyped
  <1>5. At(d, 1, w \o u)
    BY <1>1, <1>3, Zenon
  <1>6. At(d, 1, w) /\ At(d, 1 + Len(w), u)
    BY <1>2, <1>4, <1>5, AtParts
  <1>7. PICK p \in Nat \ {0} : p = Len(w) + 1
    BY <1>2
  <1>8. At(d, p, c \o rest)
    <2>1. 1 + Len(w) = p
      BY <1>2, <1>7
    <2> QED
      BY <1>3, <1>6, <2>1
  <1>9. At(d, p, c) /\ At(d, p + Len(c), rest)
    BY <1>2, <1>8, AtParts
  <1>10. ArrayTurn(d, Len(w), count)
    BY <1>2, <1>6, ArrayHead
  <1> QED
    BY <1>1, <1>2, <1>7, <1>9, <1>10, Zenon

\* An array is parsed when its last byte has arrived.
LEMMA ArrayParsed ==
    ASSUME NEW item, Stringed(item), NEW d \in Seq(Byte),
           At(d, 1, head("*", Len(item.args)) \o concat(sent(item)))
    PROVE  Outcome(d, head("*", Len(item.args)) \o concat(sent(item)), item.args)
  <1>0. None.ok = FALSE
    BY DEF None
  <1>1. PICK n \in Nat : n = Len(item.args)
    BY DEF Stringed, Args
  <1>2. PICK w, c : w = head("*", n) /\ c = concat(sent(item))
    OBVIOUS
  <1>30. <<>> \in Seq(Byte)
    OBVIOUS
  <1>3. PICK rest \in Seq(Byte) : rest = <<>>
    BY <1>30, Zenon
  <1>4. c \in Seq(Byte) /\ c \o rest = c
    <2>1. c \in Seq(Byte)
      BY <1>2, SentTyped, ConcatTyped
    <2> QED
      BY <1>3, <2>1
  <1>5. At(d, 1, head("*", n) \o (concat(sent(item)) \o rest))
    BY <1>1, <1>2, <1>4, Zenon
  <1>6. /\ w \in Seq(Byte) /\ ArrayTurn(d, Len(w), n)
        /\ At(d, Len(w) + 1, c)
    BY <1>1, <1>2, <1>5, ArrayStrings
  <1>7. PICK h \in Nat, k \in Nat, m \in Nat : h = Len(w) /\ k = Len(c) /\ m = Len(d)
    BY <1>4, <1>6
  <1>8. PICK x : x = w \o c
    OBVIOUS
  <1>9. Len(x) = h + k
    BY <1>4, <1>6, <1>7, <1>8, ConcatLen
  <1>10. CASE m < h
    <2>1. ~parse(d).ok
      BY <1>6, <1>7, <1>10 DEF ArrayTurn
    <2>2. ~(m >= h + k)
      BY <1>10
    <2>3. Outcome(d, x, item.args)
      BY <1>7, <1>9, <2>1, <2>2 DEF Outcome
    <2> QED
      BY <1>1, <1>2, <1>8, <2>3, Zenon
  <1>11. CASE m >= h
    <2>1. parse(d) = bulkStrings(d, h + 1, n)
      BY <1>6, <1>7, <1>11 DEF ArrayTurn
    <2>2. PICK pos \in 1..(m + 1) : pos = h + 1
      BY <1>11
    <2>3. PICK b : b = bulks(d, pos, n)[n]
      OBVIOUS
    <2>4. After(b, d, pos + k, item.args, n)
      <3>1. \A i \in 0..Len(item.args) :
               After(bulks(d, pos, n)[i], d, pos + Len(joined(sent(item))[i]), item.args, i)
        <4>1. At(d, pos, concat(sent(item))) /\ Len(item.args) <= n /\ pos \in 1..(Len(d) + 1)
          BY <1>1, <1>2, <1>6, <1>7, <2>2
        <4> QED
          BY <4>1, LoopAt
      <3>2. Len(joined(sent(item))[n]) = k
        BY <1>1, <1>2, <1>7, SentTyped DEF concat
      <3>3. n \in 0..Len(item.args)
        BY <1>1
      <3> QED
        BY <2>3, <3>1, <3>2, <3>3, Zenon
    <2>5. parse(d) = IF b.ok THEN Parsed(b.args, b.pos - 1) ELSE None
      BY <2>1, <2>2, <2>3 DEF bulkStrings
    <2>6. CASE m >= h + k
      <3>1. b.ok /\ b.pos = pos + k /\ Len(b.args) = n /\ \A j \in 1..n : b.args[j] = item.args[j]
        <4>1. m >= pos + k - 1
          BY <2>2, <2>6
        <4> QED
          BY <1>7, <2>4, <4>1 DEF After
      <3>2. b.args = item.args
        <4>1. b.args \in Args
          <5>1. bulks(d, pos, n) \in [0..n -> Turn(d, pos)]
            BY <1>7, <2>2, BulksDef
          <5>2. b \in Turn(d, pos)
            BY <2>3, <5>1
          <5> QED
            BY <5>2 DEF Turn
        <4>2. item.args \in Args
          BY DEF Stringed
        <4> QED
          BY <1>1, <3>1, <4>1, <4>2, SeqEqual DEF Args
      <3>3. b.pos - 1 = h + k
        BY <2>2, <3>1
      <3>4. parse(d) = Parsed(item.args, h + k)
        BY <2>5, <3>1, <3>2, <3>3
      <3>5. ~(m < h + k)
        BY <2>6
      <3>6. Outcome(d, x, item.args)
        BY <1>7, <1>9, <3>4, <3>5 DEF Outcome
      <3> QED
        BY <1>1, <1>2, <1>8, <3>6, Zenon
    <2>7. CASE m < h + k
      <3>1. ~b.ok
        <4>1. m < pos + k - 1
          BY <2>2, <2>7
        <4> QED
          BY <1>7, <2>4, <4>1 DEF After
      <3>2. ~parse(d).ok
        BY <1>0, <2>5, <3>1
      <3>3. ~(m >= h + k)
        BY <2>7
      <3>4. Outcome(d, x, item.args)
        BY <1>7, <1>9, <3>2, <3>3 DEF Outcome
      <3> QED
        BY <1>1, <1>2, <1>8, <3>4, Zenon
    <2> QED
      BY <2>6, <2>7
  <1> QED
    BY <1>10, <1>11

\* The string that comes next is none.
NoNext(d, rest) == \A s \in Loop : At(d, s.pos, rest) => ~nextBulk(d, s).ok

\* An array with a string that is none is never parsed, whatever follows.
LEMMA ArrayStuck ==
    ASSUME NEW item, Stringed(item), NEW count \in Nat, Len(item.args) < count,
           NEW d \in Seq(Byte), NEW rest \in Seq(Byte), NoNext(d, rest),
           At(d, 1, head("*", count) \o (concat(sent(item)) \o rest))
    PROVE  ~parse(d).ok
  <1>0. None.ok = FALSE
    BY DEF None
  <1>1. PICK n \in Nat : n = Len(item.args) /\ n < count
    BY DEF Stringed, Args
  <1>2. PICK w, c : w = head("*", count) /\ c = concat(sent(item))
    OBVIOUS
  <1>3. /\ w \in Seq(Byte) /\ c \in Seq(Byte) /\ ArrayTurn(d, Len(w), count)
        /\ At(d, Len(w) + 1, c) /\ At(d, Len(w) + 1 + Len(c), rest)
    <2>1. Len(item.args) <= count
      BY <1>1
    <2> QED
      BY <1>2, <2>1, ArrayStrings
  <1>4. PICK h \in Nat, k \in Nat, m \in Nat : h = Len(w) /\ k = Len(c) /\ m = Len(d)
    BY <1>3
  <1>5. CASE m < h
    BY <1>3, <1>4, <1>5 DEF ArrayTurn
  <1>6. CASE m >= h
    <2>1. parse(d) = bulkStrings(d, h + 1, count)
      BY <1>3, <1>4, <1>6 DEF ArrayTurn
    <2>2. PICK pos \in 1..(m + 1) : pos = h + 1
      BY <1>6
    <2>3. PICK b : b = bulks(d, pos, count)
      OBVIOUS
    <2>4. After(b[n], d, pos + k, item.args, n)
      <3>1. \A i \in 0..Len(item.args) :
               After(bulks(d, pos, count)[i], d, pos + Len(joined(sent(item))[i]), item.args, i)
        <4>1. At(d, pos, concat(sent(item))) /\ Len(item.args) <= count /\ pos \in 1..(Len(d) + 1)
          BY <1>1, <1>2, <1>3, <1>4, <2>2
        <4> QED
          BY <4>1, LoopAt
      <3>2. Len(joined(sent(item))[n]) = k
        BY <1>1, <1>2, <1>4, SentTyped DEF concat
      <3>3. n \in 0..Len(item.args)
        BY <1>1
      <3> QED
        BY <2>3, <3>1, <3>2, <3>3, Zenon
    <2>5. b \in [0..count -> Turn(d, pos)] /\ b[n + 1] = nextBulk(d, b[n])
      <3>1. b \in [0..count -> Turn(d, pos)] /\ \A i \in 1..count : b[i] = nextBulk(d, b[i - 1])
        BY <1>4, <2>2, <2>3, BulksDef
      <3>2. n + 1 \in 1..count /\ (n + 1) - 1 = n
        BY <1>1
      <3> QED
        BY <3>1, <3>2
    <2>6. PICK s \in Loop : s = b[n]
      <3>1. b[n] \in Turn(d, pos)
        BY <1>1, <2>5
      <3> QED
        BY <3>1 DEF Turn, Loop
    <2>7. ~nextBulk(d, s).ok
      <3>1. CASE m >= pos + k - 1
        <4>1. s.pos = pos + k
          BY <1>4, <2>4, <2>6, <3>1 DEF After
        <4>2. pos + k = Len(w) + 1 + Len(c)
          BY <1>4, <2>2
        <4>3. At(d, s.pos, rest)
          BY <1>3, <4>1, <4>2
        <4> QED
          BY <4>3 DEF NoNext
      <3>2. CASE m < pos + k - 1
        <4>1. ~s.ok
          BY <1>4, <2>4, <2>6, <3>2 DEF After
        <4> QED
          BY <4>1, BulkFailed
      <3> QED
        BY <3>1, <3>2
    <2>8. ~b[count].ok
      <3>1. n + 1 \in 1..count /\ ~b[n + 1].ok
        BY <1>1, <2>5, <2>6, <2>7
      <3> QED
        BY <1>4, <2>2, <2>3, <3>1, LoopFails
    <2> QED
      BY <1>0, <2>1, <2>2, <2>3, <2>8 DEF bulkStrings
  <1> QED
    BY <1>5, <1>6

\* A malformed frame is never parsed.
LEMMA MalformedParsed ==
    ASSUME NEW item \in Malformed, NEW d \in Seq(Byte), At(d, 1, wire(item))
    PROVE  ~parse(d).ok
  <1>1. item \in Item
    BY DEF Item
  <1>2. /\ item.kind \in {"noBulk", "wrongTrailer"} /\ Stringed(item)
        /\ item.count \in Nat /\ Len(item.args) < item.count
    BY <1>1, ItemFacts
  <1>3. PICK w, c : w = head("*", item.count) /\ c = concat(sent(item))
    OBVIOUS
  <1>4. w \in Seq(Byte) /\ c \in Seq(Byte)
    BY <1>2, <1>3, ByteAssumption, HeadTyped, SentTyped, ConcatTyped
  <1>5. ASSUME NEW rest \in Seq(Byte), NoNext(d, rest), wire(item) = w \o (c \o rest)
        PROVE  ~parse(d).ok
    BY <1>2, <1>3, <1>5, ArrayStuck, Zenon
  <1>6. CASE item.kind = "noBulk"
    <2>1. PICK ch \in Byte \ {"$"} : ch = item.byte
      BY <1>1, <1>6, ItemFacts
    <2>2. PICK rest : rest = <<ch>>
      OBVIOUS
    <2>3. rest \in Seq(Byte)
      BY <2>2
    <2>4. NoNext(d, rest)
      BY <2>2, NoStringAt DEF NoNext
    <2>5. wire(item) = (w \o c) \o rest
      BY <1>3, <1>6, <2>1, <2>2 DEF wire
    <2>6. wire(item) = w \o (c \o rest)
      BY <1>4, <2>3, <2>5, Regroup, Zenon
    <2> QED
      BY <1>5, <2>3, <2>4, <2>6
  <1>7. CASE item.kind = "wrongTrailer"
    <2>1. PICK a \in Seq(Byte) : a = item.last
      BY <1>1, <1>7, ItemFacts
    <2>2. PICK t : t = item.trailer
      OBVIOUS
    <2>3. t \in Seq(Byte) /\ Len(t) = 2 /\ (t[1] # "CR" \/ t[2] # "LF")
      <3>1. t \in Byte \X Byte /\ t # CRLF
        BY <1>1, <1>7, <2>2, ItemFacts
      <3>2. PICK x \in Byte, y \in Byte : t = <<x, y>>
        BY <3>1
      <3>3. t \in Seq(Byte) /\ Len(t) = 2 /\ t[1] = x /\ t[2] = y
        BY <3>2
      <3>4. ~(x = "CR" /\ y = "LF")
        BY <3>1, <3>2 DEF CRLF
      <3> QED
        BY <3>3, <3>4
    <2>4. PICK u : u = head("$", Len(a))
      OBVIOUS
    <2>5. u \in Seq(Byte)
      <3>1. Len(a) \in Nat
        OBVIOUS
      <3> QED
        BY <2>4, <3>1, ByteAssumption, HeadTyped
    <2>6. PICK rest : rest = (u \o a) \o t
      OBVIOUS
    <2>7. rest \in Seq(Byte)
      BY <2>3, <2>5, <2>6, AppendedTyped
    <2>8. NoNext(d, rest)
      <3> SUFFICES ASSUME NEW s \in Loop, At(d, s.pos, rest) PROVE ~nextBulk(d, s).ok
        BY DEF NoNext
      <3>1. CASE ~s.ok
        BY <3>1, BulkFailed
      <3>2. CASE s.ok
        <4>1. StringTurn(d, s, rest, a, t)
          BY <2>3, <2>4, <2>6, <3>2, StringAt
        <4> QED
          BY <2>3, <4>1 DEF StringTurn
      <3> QED
        BY <3>1, <3>2
    <2>9. wire(item) = (((w \o c) \o u) \o a) \o t
      BY <1>3, <1>7, <2>1, <2>2, <2>4 DEF wire
    <2>10. wire(item) = w \o (c \o rest)
      <3>1. PICK v : v = w \o c
        OBVIOUS
      <3>2. v \in Seq(Byte)
        BY <1>4, <3>1, AppendedTyped
      <3>3. (v \o u) \o a = v \o (u \o a)
        BY <2>5, <3>2, Regroup, Zenon
      <3>4. PICK y : y = u \o a
        OBVIOUS
      <3>5. y \in Seq(Byte)
        BY <2>5, <3>4, AppendedTyped
      <3>6. (v \o y) \o t = v \o (y \o t)
        BY <2>3, <3>2, <3>5, Regroup, Zenon
      <3>7. v \o rest = w \o (c \o rest)
        BY <1>4, <2>7, <3>1, Regroup, Zenon
      <3> QED
        BY <2>6, <2>9, <3>1, <3>3, <3>4, <3>6, <3>7, Zenon
    <2> QED
      BY <1>5, <2>7, <2>8, <2>10
  <1> QED
    BY <1>2, <1>6, <1>7

\* A longer concatenation is no shorter.
LEMMA JoinedGrows ==
    ASSUME NEW x \in Args, NEW n \in Nat, n = Len(x), NEW i \in 0..n
    PROVE  \A j \in i..n : Len(joined(x)[i]) <= Len(joined(x)[j])
  <1>2. PICK g : g = [j \in 0..n |-> Len(joined(x)[j])]
    OBVIOUS
  <1>3. /\ \A j \in 0..n : Len(joined(x)[j]) \in Nat
        /\ \A j \in 1..n : Len(x[j]) \in Nat /\ Len(joined(x)[j]) = Len(joined(x)[j - 1]) + Len(x[j])
    BY JoinedLen, Zenon
  <1>30. g \in [0..n -> Nat]
    BY <1>2, <1>3
  <1>31. \A j \in 1..n : g[j - 1] <= g[j]
    <2> SUFFICES ASSUME NEW j \in 1..n PROVE g[j - 1] <= g[j]
      OBVIOUS
    <2>1. j - 1 \in 0..n /\ j \in 0..n
      OBVIOUS
    <2>2. PICK l \in Nat : l = Len(x[j]) /\ Len(joined(x)[j]) = Len(joined(x)[j - 1]) + l
      BY <1>3
    <2>3. g[j] = g[j - 1] + l /\ g[j - 1] \in Nat
      BY <1>2, <1>30, <2>1, <2>2
    <2> QED
      BY <2>3
  <1> DEFINE T == {j \in 0..n : j >= i => g[i] <= g[j]}
  <1>4. 0 \in T
    BY <1>30
  <1>5. ASSUME NEW j \in 1..n, j - 1 \in T PROVE j \in T
    <2>1. CASE j - 1 >= i
      <3>1. g[i] <= g[j - 1] /\ g[j - 1] <= g[j]
        BY <1>5, <1>31, <2>1
      <3>2. g[i] \in Nat /\ g[j - 1] \in Nat /\ g[j] \in Nat
        BY <1>30
      <3>3. g[i] <= g[j]
        BY <3>1, <3>2
      <3> QED
        BY <3>3
    <2>2. CASE ~(j - 1 >= i)
      <3>1. j >= i => j = i
        BY <2>2
      <3>2. g[i] \in Nat
        BY <1>30
      <3>3. j >= i => g[i] <= g[j]
        BY <3>1, <3>2
      <3> QED
        BY <3>3
    <2> QED
      BY <2>1, <2>2
  <1> HIDE DEF T
  <1>6. \A j \in 0..n : j \in T
    BY <1>4, <1>5, UpTo
  <1>7. \A j \in i..n : j \in 0..n /\ g[i] <= g[j]
    BY <1>6 DEF T
  <1>8. \A j \in 0..n : g[j] = Len(joined(x)[j])
    BY <1>2, Zenon
  <1> QED
    BY <1>7, <1>8, Zenon

-----------------------------------------------------------------------------
(* Inline commands. *)

LEMMA SeqFacts ==
    /\ \A s \in Seq(Byte) : Len(s) \in Nat /\ (s # <<>> => Len(s) >= 1)
    /\ \A s \in Seq(Byte), ch \in Byte :
          /\ s \o <<ch>> \in Seq(Byte) /\ Len(s \o <<ch>>) = Len(s) + 1
          /\ (\A k \in 1..Len(s) : (s \o <<ch>>)[k] = s[k])
          /\ (s \o <<ch>>)[Len(s) + 1] = ch
  <1>1. \A s \in Seq(Byte) : Len(s) \in Nat /\ (s # <<>> => Len(s) >= 1)
    BY EmptySeq
  <1>2. ASSUME NEW s \in Seq(Byte), NEW ch \in Byte
        PROVE  /\ s \o <<ch>> \in Seq(Byte) /\ Len(s \o <<ch>>) = Len(s) + 1
               /\ (\A k \in 1..Len(s) : (s \o <<ch>>)[k] = s[k])
               /\ (s \o <<ch>>)[Len(s) + 1] = ch
    OBVIOUS
  <1> QED
    BY <1>1, <1>2

\* A word, as a sequence.
IsWord(v) == /\ v \in Seq(Byte) /\ Len(v) \in Nat /\ Len(v) >= 1
             /\ (\A k \in 1..Len(v) : v[k] # " ") /\ NoPair(v)

\* v with a space.
IsSpaced(y, v) == /\ y \in Seq(Byte) /\ Len(y) = Len(v) + 1
                  /\ \A k \in 1..Len(v) : y[k] = v[k]
                  /\ y[Len(v) + 1] = " "

\* The words, and the words with a space.
LEMMA WordFacts ==
    ASSUME NEW words \in Seq(Word), NEW i \in 1..Len(words)
    PROVE  IsWord(words[i]) /\ IsSpaced(spaced(words)[i], words[i])
  <1>0. PICK v : v = words[i]
    OBVIOUS
  <1>1. v \in Word
    BY <1>0
  <1>2. v \in Seq(Byte) /\ v # <<>> /\ (\A k \in 1..Len(v) : v[k] # " ")
    BY <1>1 DEF Word
  <1>3. NoPair(v)
    <2>1. \A k \in 1..(Len(v) - 1) : <<v[k], v[k + 1]>> # CRLF
      BY <1>1 DEF Word
    <2> QED
      BY <2>1 DEF NoPair, CRLF
  <1>4. Len(v) \in Nat /\ Len(v) >= 1
    BY <1>2, SeqFacts, Zenon
  <1>5. spaced(words)[i] = v \o <<" ">>
    BY <1>0 DEF spaced
  <1>6. " " \in Byte
    BY ByteAssumption
  <1>7. IsSpaced(v \o <<" ">>, v)
    BY <1>2, <1>6, SeqFacts, Zenon DEF IsSpaced
  <1> QED
    BY <1>0, <1>2, <1>3, <1>4, <1>5, <1>7, Zenon DEF IsWord

\* A line that is empty or ends in a space.
SpaceEnd(u) == Len(u) >= 1 => u[Len(u)] = " "

\* What a line w of one word more than u is.
Longer(u, v, w) ==
    /\ w \in Seq(Byte) /\ NoPair(w) /\ Len(w) >= 1 /\ SpaceEnd(w)
    /\ w[1] = IF Len(u) >= 1 THEN u[1] ELSE v[1]

\* What one word more does to a line: it ends in a space, and no line end is within it.
LEMMA LineLonger ==
    ASSUME NEW u \in Seq(Byte), NEW v \in Seq(Byte), NEW y \in Seq(Byte), IsWord(v), IsSpaced(y, v),
           NoPair(u), SpaceEnd(u)
    PROVE  Longer(u, v, u \o y)
  <1>0. PICK w : w = u \o y
    OBVIOUS
  <1>01. Len(v) \in Nat /\ Len(v) >= 1
    BY Zenon DEF IsWord
  <1>1. PICK a \in Nat, b \in Nat : a = Len(u) /\ b = Len(v) /\ b >= 1
    BY <1>01
  <1>2. /\ Len(y) = b + 1 /\ (\A k \in 1..b : y[k] = v[k]) /\ y[b + 1] = " "
    BY <1>1 DEF IsSpaced
  <1>3. /\ w \in Seq(Byte) /\ Len(w) = a + b + 1
        /\ \A k \in 1..a : w[k] = u[k]
        /\ \A k \in 1..(b + 1) : w[a + k] = y[k]
    <2>1. /\ u \o y \in Seq(Byte)
          /\ Len(u \o y) = Len(u) + Len(y)
          /\ \A k \in 1..(Len(u) + Len(y)) : (u \o y)[k] = IF k <= Len(u) THEN u[k] ELSE y[k - Len(u)]
      BY ConcatProperties, Zenon
    <2>2. /\ w \in Seq(Byte) /\ Len(w) = a + (b + 1)
          /\ \A k \in 1..(a + (b + 1)) : w[k] = IF k <= a THEN u[k] ELSE y[k - a]
      BY <1>0, <1>1, <1>2, <2>1, Zenon
    <2>3. a + (b + 1) = a + b + 1
      OBVIOUS
    <2>4. \A k \in 1..a : k \in 1..(a + (b + 1)) /\ k <= a
      OBVIOUS
    <2>5. \A k \in 1..(b + 1) : a + k \in 1..(a + (b + 1)) /\ ~(a + k <= a) /\ (a + k) - a = k
      OBVIOUS
    <2>6. \A k \in 1..a : w[k] = u[k]
      BY <2>2, <2>4, Zenon
    <2>7. \A k \in 1..(b + 1) : w[a + k] = y[k]
      BY <2>2, <2>5, Zenon
    <2> QED
      BY <2>2, <2>3, <2>6, <2>7, Zenon
  <1>4. /\ \A k \in 1..(a - 1) : ~(u[k] = "CR" /\ u[k + 1] = "LF")
        /\ a >= 1 => u[a] = " "
        /\ \A k \in 1..(b - 1) : ~(v[k] = "CR" /\ v[k + 1] = "LF")
    BY <1>1 DEF NoPair, IsWord, SpaceEnd
  <1>10. NoPair(w)
    <2>0. SUFFICES ASSUME NEW k \in 1..(a + b), w[k] = "CR", w[k + 1] = "LF" PROVE FALSE
      <3>1. Len(w) - 1 = a + b
        BY <1>3
      <3> QED
        BY <3>1 DEF NoPair
    <2>1. CASE k < a
      <3>1. k \in 1..(a - 1) /\ k \in 1..a /\ k + 1 \in 1..a
        BY <2>1
      <3>2. u[k] = "CR" /\ u[k + 1] = "LF"
        BY <1>3, <2>0, <3>1
      <3> QED
        BY <1>4, <3>1, <3>2
    <2>2. CASE k = a
      <3>1. a \in 1..a /\ a >= 1
        BY <2>2
      <3>2. w[a] = u[a]
        BY <1>3, <3>1
      <3> QED
        BY <1>4, <2>0, <2>2, <3>1, <3>2
    <2>3. CASE k > a
      <3>1. PICK l \in 1..b : l = k - a
        BY <2>3
      <3>2. k = a + l /\ k + 1 = a + (l + 1) /\ l \in 1..(b + 1) /\ l + 1 \in 1..(b + 1)
        BY <3>1
      <3>3. y[l] = "CR" /\ y[l + 1] = "LF"
        BY <1>3, <2>0, <3>2
      <3>4. CASE l = b
        BY <1>2, <3>3, <3>4
      <3>5. CASE l # b
        <4>1. l \in 1..(b - 1) /\ l + 1 \in 1..b
          BY <3>1, <3>5
        <4>2. v[l] = "CR" /\ v[l + 1] = "LF"
          BY <1>2, <3>3, <4>1
        <4> QED
          BY <1>4, <4>1, <4>2
      <3> QED
        BY <3>4, <3>5
    <2> QED
      BY <2>1, <2>2, <2>3
  <1>11. Len(w) >= 1 /\ w[Len(w)] = " "
    <2>1. b + 1 \in 1..(b + 1) /\ a + b + 1 = a + (b + 1) /\ a + b + 1 >= 1
      OBVIOUS
    <2>2. w[a + (b + 1)] = y[b + 1]
      BY <1>3, <2>1
    <2> QED
      BY <1>2, <1>3, <2>1, <2>2
  <1>12. w[1] = IF a >= 1 THEN u[1] ELSE v[1]
    <2>1. CASE a >= 1
      <3>1. 1 \in 1..a
        BY <2>1
      <3> QED
        BY <1>3, <2>1, <3>1
    <2>2. CASE ~(a >= 1)
      <3>1. a + 1 = 1 /\ 1 \in 1..(b + 1) /\ 1 \in 1..b
        BY <1>1, <2>2
      <3>2. w[a + 1] = y[1] /\ y[1] = v[1]
        BY <1>2, <1>3, <3>1
      <3> QED
        BY <2>2, <3>1, <3>2
    <2> QED
      BY <2>1, <2>2
  <1> QED
    BY <1>0, <1>1, <1>3, <1>10, <1>11, <1>12, Zenon DEF Longer, SpaceEnd

LEMMA WordsTyped ==
    ASSUME NEW words \in Seq(Word)
    PROVE  words \in Args /\ Len(words) \in Nat /\ (words # <<>> => Len(words) >= 1)
  <1>1. \A s \in Word : s \in Seq(Byte)
    BY DEF Word
  <1> QED
    BY <1>1, SeqMonotonic, EmptySeq DEF Args

\* Each line of words ends in a space, and no line end is within it.
LEMMA LineOfWords ==
    ASSUME NEW words \in Seq(Word), NEW line, line = concat(spaced(words))
    PROVE  /\ line \in Seq(Byte) /\ NoPair(line)
           /\ words # <<>> => Len(line) >= 1 /\ line[1] = words[1][1]
           /\ words = <<>> => Len(line) = 0
  <1>1. PICK x \in Args : x = spaced(words) /\ Len(x) = Len(words)
    BY SpacedTyped, WordsTyped
  <1>2. PICK n \in Nat : n = Len(words) /\ n = Len(x)
    BY <1>1, WordsTyped
  <1>3. PICK f : f = joined(x)
    OBVIOUS
  <1>4. /\ f[0] = <<>> /\ \A i \in 1..n : f[i] = f[i - 1] \o x[i]
        /\ \A i \in 0..n : f[i] \in Seq(Byte)
        /\ \A i \in 1..n : x[i] \in Seq(Byte)
    BY <1>2, <1>3, JoinedLen, JoinedDef, Zenon
  <1>5. line = f[n]
    BY <1>1, <1>2, <1>3, Zenon DEF concat
  <1> DEFINE Fine(i) == /\ NoPair(f[i])
                        /\ SpaceEnd(f[i])
                        /\ i >= 1 => Len(f[i]) >= 1 /\ f[i][1] = words[1][1]
                        /\ i = 0 => Len(f[i]) = 0
             T == {i \in 0..n : Fine(i)}
  <1>6. 0 \in T
    <2>1. NoPair(<<>>) /\ SpaceEnd(<<>>) /\ Len(<<>>) = 0 /\ ~(0 >= 1)
      BY DEF NoPair, SpaceEnd
    <2>2. Fine(0)
      BY <1>4, <2>1, Zenon
    <2> HIDE DEF Fine
    <2> QED
      BY <2>2
  <1>7. ASSUME NEW i \in 1..n, i - 1 \in T PROVE i \in T
    <2>0. i \in 1..Len(words) /\ i \in 0..n /\ i - 1 \in 0..n
      BY <1>2
    <2>1. PICK u \in Seq(Byte) : u = f[i - 1]
      BY <1>4, <2>0
    <2>2. PICK v \in Seq(Byte) : v = words[i] /\ IsWord(v)
      BY <2>0, WordFacts, Zenon DEF IsWord
    <2>3. PICK y \in Seq(Byte) : y = x[i]
      BY <1>4
    <2>4. IsSpaced(y, v)
      BY <1>1, <2>0, <2>2, <2>3, WordFacts, Zenon
    <2>5. PICK w : w = u \o y
      OBVIOUS
    <2>6. w = f[i]
      BY <1>4, <2>1, <2>3, <2>5, Zenon
    <2>7. Fine(i - 1)
      BY <1>7
    <2>8. /\ NoPair(u) /\ SpaceEnd(u)
          /\ i - 1 >= 1 => Len(u) >= 1 /\ u[1] = words[1][1]
          /\ i - 1 = 0 => Len(u) = 0
      BY <2>1, <2>7, Zenon
    <2>90. Longer(u, v, w)
      BY <2>2, <2>4, <2>5, <2>8, LineLonger, Zenon
    <2>9. /\ NoPair(w) /\ Len(w) >= 1 /\ SpaceEnd(w)
          /\ w[1] = IF Len(u) >= 1 THEN u[1] ELSE v[1]
      BY <2>90 DEF Longer
    <2>10. w[1] = words[1][1]
      <3>1. CASE i = 1
        <4>1. ~(Len(u) >= 1)
          BY <2>8, <3>1
        <4> QED
          BY <2>2, <2>9, <3>1, <4>1
      <3>2. CASE i # 1
        <4>1. i - 1 >= 1
          BY <3>2
        <4> QED
          BY <2>8, <2>9, <4>1
      <3> QED
        BY <3>1, <3>2
    <2>11. i # 0
      OBVIOUS
    <2>12. Fine(i)
      BY <2>6, <2>9, <2>10, <2>11, Zenon
    <2> HIDE DEF Fine
    <2> QED
      BY <2>0, <2>12
  <1> HIDE DEF T
  <1>8. \A i \in 0..n : i \in T
    BY <1>6, <1>7, UpTo
  <1>9. n \in T
    BY <1>8
  <1>90. Fine(n)
    <2> HIDE DEF Fine
    <2> QED
      BY <1>9 DEF T
  <1>10. words # <<>> => n >= 1
    BY <1>2, WordsTyped, Zenon
  <1>11. words = <<>> => n = 0
    BY <1>2
  <1>12. line \in Seq(Byte)
    <2>1. n \in 0..n
      OBVIOUS
    <2> QED
      BY <1>4, <1>5, <2>1, Zenon
  <1> QED
    BY <1>5, <1>90, <1>10, <1>11, <1>12, Zenon

\* Behind a word.
Ended(ts, words, i) == Len(ts) = i /\ \A j \in 1..i : ts[j] = words[j]

\* Behind k bytes of word i.
Within(ts, words, i, k) ==
    /\ Len(ts) = i /\ \A j \in 1..(i - 1) : ts[j] = words[j]
    /\ Len(ts[i]) = k /\ \A j \in 1..k : ts[i][j] = words[i][j]

\* The first byte of a word.
LEMMA FirstByte ==
    ASSUME NEW ts \in Seq(Seq(Byte)), NEW words, NEW i \in Nat \ {0}, Ended(ts, words, i - 1),
           NEW ch \in Byte, words[i][1] = ch
    PROVE  Within(Append(ts, <<ch>>), words, i, 1)
  <1>1. PICK z : z = <<ch>>
    OBVIOUS
  <1>2. z \in Seq(Byte) /\ Len(z) = 1 /\ z[1] = ch
    BY <1>1
  <1>3. Len(ts) = i - 1 /\ \A j \in 1..(i - 1) : ts[j] = words[j]
    BY DEF Ended
  <1>4. PICK y : y = Append(ts, z)
    OBVIOUS
  <1>5. Len(y) = Len(ts) + 1 /\ y[Len(ts) + 1] = z /\ \A j \in 1..Len(ts) : y[j] = ts[j]
    BY <1>2, <1>4
  <1>6. Len(y) = i /\ y[i] = z /\ \A j \in 1..(i - 1) : y[j] = words[j]
    BY <1>3, <1>5
  <1>7. Within(y, words, i, 1)
    <2>1. \A j \in 1..1 : j = 1
      OBVIOUS
    <2>2. Len(y[i]) = 1 /\ \A j \in 1..1 : y[i][j] = words[i][j]
      BY <1>2, <1>6, <2>1, Zenon
    <2> QED
      BY <1>6, <2>2, Zenon DEF Within
  <1> QED
    BY <1>1, <1>4, <1>7, Zenon

LEMMA SameInterval ==
    ASSUME NEW a \in Nat, NEW b \in Nat, 1..a = 1..b
    PROVE  a = b
  <1>1. a >= 1 => a \in 1..b
    OBVIOUS
  <1>2. b >= 1 => b \in 1..a
    OBVIOUS
  <1> QED
    BY <1>1, <1>2

\* The jth byte of word i.
Byteth(words, i, j, ch) == words[i][j] = ch

\* Another byte of a word.
LEMMA NextByte ==
    ASSUME NEW ts \in Seq(Seq(Byte)), NEW words, NEW i \in Nat \ {0}, NEW k \in Nat \ {0},
           Within(ts, words, i, k), NEW ch \in Byte, Byteth(words, i, k + 1, ch)
    PROVE  Within([ts EXCEPT ![Len(ts)] = Append(@, ch)], words, i, k + 1)
  <1>1. /\ Len(ts) = i /\ \A j \in 1..(i - 1) : ts[j] = words[j]
        /\ Len(ts[i]) = k /\ \A j \in 1..k : ts[i][j] = words[i][j]
    BY DEF Within
  <1>2. ts \in [1..i -> Seq(Byte)]
    BY <1>1
  <1>3. PICK z \in Seq(Byte) : z = ts[i]
    BY <1>2
  <1>4. PICK y : y = Append(z, ch)
    OBVIOUS
  <1>5. y \in Seq(Byte) /\ Len(y) = k + 1 /\ y[k + 1] = ch /\ \A j \in 1..k : y[j] = z[j]
    BY <1>1, <1>3, <1>4
  <1>6. PICK r : r = [ts EXCEPT ![i] = y]
    OBVIOUS
  <1>7. r \in [1..i -> Seq(Byte)] /\ r[i] = y /\ \A j \in 1..(i - 1) : r[j] = ts[j]
    BY <1>2, <1>5, <1>6
  <1>8. Len(r) = i
    <2>1. r \in Seq(Seq(Byte))
      BY <1>7, SeqDef
    <2>2. Len(r) \in Nat /\ DOMAIN r = 1..Len(r) /\ DOMAIN r = 1..i
      BY <1>7, <2>1, LenProperties
    <2>3. PICK l \in Nat : l = Len(r) /\ 1..l = 1..i
      BY <2>2
    <2>4. l = i
      BY <2>3, SameInterval
    <2> QED
      BY <2>3, <2>4
  <1>9. ASSUME NEW j \in 1..(k + 1) PROVE y[j] = words[i][j]
    <2>1. j = k + 1 \/ j \in 1..k
      OBVIOUS
    <2>2. CASE j = k + 1
      BY <1>5, <2>2, Zenon DEF Byteth
    <2>3. CASE j \in 1..k
      BY <1>1, <1>3, <1>5, <2>3, Zenon
    <2> QED
      BY <2>1, <2>2, <2>3
  <1>10. Within(r, words, i, k + 1)
    BY <1>1, <1>5, <1>7, <1>8, <1>9, Zenon DEF Within
  <1>11. [ts EXCEPT ![Len(ts)] = Append(@, ch)] = r
    BY <1>1, <1>3, <1>4, <1>6
  <1> QED
    BY <1>10, <1>11

\* The last byte of a word.
LEMMA WordEnds ==
    ASSUME NEW ts \in Seq(Seq(Byte)), NEW words, NEW i \in Nat \ {0}, NEW v \in Seq(Byte),
           v = words[i], Within(ts, words, i, Len(v))
    PROVE  Ended(ts, words, i)
  <1>1. /\ Len(ts) = i /\ (\A j \in 1..(i - 1) : ts[j] = words[j])
        /\ Len(ts[i]) = Len(v) /\ \A j \in 1..Len(v) : ts[i][j] = v[j]
    BY Zenon DEF Within
  <1>2. PICK z \in Seq(Byte) : z = ts[i]
    BY <1>1
  <1>3. Len(z) = Len(v) /\ \A j \in 1..Len(v) : z[j] = v[j]
    BY <1>1, <1>2, Zenon
  <1>4. z = v
    BY <1>3, SeqEqual
  <1>5. \A j \in 1..i : j = i \/ j \in 1..(i - 1)
    OBVIOUS
  <1> QED
    BY <1>1, <1>2, <1>4, <1>5, Zenon DEF Ended

\* The word v lies behind the first q bytes of the line, with a space behind it.
Lies(line, q, v) ==
    /\ q + Len(v) + 1 <= Len(line) /\ line[q + Len(v) + 1] = " "
    /\ \A k \in 1..Len(v) : line[q + k] = v[k]

\* The line has nothing, or a space, at q.
AfterSpace(line, q) == q # 0 => line[q] = " "

\* The ith word is v.
WordAt(words, i, v) == v = words[i]

\* A word that follows a space, or begins the line, becomes a token.
LEMMA WordToken ==
    ASSUME NEW line \in Seq(Byte), NEW words, NEW i \in Nat \ {0}, NEW v \in Seq(Byte),
           WordAt(words, i, v), IsWord(v), NEW q \in Nat, Lies(line, q, v),
           AfterSpace(line, q), Ended(tokens(line)[q], words, i - 1)
    PROVE  Ended(tokens(line)[q + Len(v) + 1], words, i)
  <1>1. PICK t : t = tokens(line)
    OBVIOUS
  <1>01. Len(v) \in Nat /\ Len(v) >= 1
    BY Zenon DEF IsWord
  <1>02. \A k \in 1..Len(v) : v[k] # " "
    BY Zenon DEF IsWord
  <1>2. PICK b \in Nat, m \in Nat : b = Len(v) /\ b >= 1 /\ m = Len(line)
    BY <1>01
  <1>3. /\ q + b + 1 <= m /\ line[q + b + 1] = " "
        /\ \A k \in 1..b : line[q + k] = v[k] /\ v[k] # " " /\ v[k] \in Byte
    <2>1. \A k \in 1..Len(v) : v[k] \in Byte
      OBVIOUS
    <2> QED
      BY <1>02, <1>2, <2>1, Zenon DEF Lies
  <1>31. q + b + 1 <= m
    BY <1>3
  <1>4. /\ t \in [0..m -> Seq(Seq(Byte))]
        /\ \A k \in 1..m : t[k] = withByte(line, k, t[k - 1])
    BY <1>1, <1>2, TokensDef, Zenon DEF Args
  <1>5. Ended(t[q], words, i - 1)
    BY <1>1
  <1>6. ASSUME NEW k \in 1..m
        PROVE  /\ line[k] = " " => t[k] = t[k - 1]
               /\ line[k] # " " /\ (k = 1 \/ line[k - 1] = " ") => t[k] = Append(t[k - 1], <<line[k]>>)
               /\ line[k] # " " /\ ~(k = 1 \/ line[k - 1] = " ")
                    => t[k] = [t[k - 1] EXCEPT ![Len(t[k - 1])] = Append(@, line[k])]
    BY <1>4, Zenon DEF withByte
  <1> DEFINE K == {k \in 0..b : k >= 1 => Within(t[q + k], words, i, k)}
  <1>8. 0 \in K
    OBVIOUS
  <1>9. ASSUME NEW k \in 1..b, k - 1 \in K PROVE k \in K
    <2>1. q + k \in 1..m /\ (q + k) - 1 = q + (k - 1) /\ q + (k - 1) \in 0..m
      BY <1>31
    <2>2. PICK ts \in Seq(Seq(Byte)) : ts = t[q + (k - 1)]
      BY <1>4, <2>1
    <2>3. PICK ch \in Byte : ch = v[k] /\ ch = line[q + k] /\ ch # " "
      BY <1>3
    <2>4. CASE k = 1
      <3>1. q + k = 1 \/ line[(q + k) - 1] = " "
        <4>1. CASE q = 0
          BY <2>4, <4>1
        <4>2. CASE q # 0
          <5>1. (q + k) - 1 = q
            BY <2>4
          <5> QED
            BY <4>2, <5>1, Zenon DEF AfterSpace
        <4> QED
          BY <4>1, <4>2
      <3>2. t[q + k] = Append(ts, <<ch>>)
        BY <1>6, <2>1, <2>2, <2>3, <3>1, Zenon
      <3>3. Ended(ts, words, i - 1)
        <4>1. q + (k - 1) = q
          BY <2>4
        <4> QED
          BY <1>5, <2>2, <4>1, Zenon
      <3>4. words[i][1] = ch
        BY <2>3, <2>4, Zenon DEF WordAt
      <3>5. Within(t[q + k], words, i, 1)
        BY <3>2, <3>3, <3>4, FirstByte, Zenon
      <3>6. Within(t[q + k], words, i, k)
        BY <2>4, <3>5
      <3> QED
        BY <3>6
    <2>5. CASE k # 1
      <3>1. PICK l \in Nat \ {0} : l = k - 1 /\ l + 1 = k /\ l \in 1..b /\ l >= 1
        BY <2>5
      <3>2. Within(ts, words, i, l)
        BY <1>9, <2>2, <3>1
      <3>3. line[(q + k) - 1] # " "
        <4>1. (q + k) - 1 = q + l
          BY <3>1
        <4> QED
          BY <1>3, <3>1, <4>1, Zenon
      <3>4. q + k # 1
        BY <3>1
      <3>5. t[q + k] = [ts EXCEPT ![Len(ts)] = Append(@, ch)]
        <4>1. t[q + k] = [t[(q + k) - 1] EXCEPT ![Len(t[(q + k) - 1])] = Append(@, line[q + k])]
          BY <1>6, <2>1, <2>3, <3>3, <3>4, Zenon
        <4> QED
          BY <2>1, <2>2, <2>3, <4>1, Zenon
      <3>6. Byteth(words, i, l + 1, ch)
        BY <2>3, <3>1, Zenon DEF WordAt, Byteth
      <3>7. Within([ts EXCEPT ![Len(ts)] = Append(@, ch)], words, i, l + 1)
        BY <3>2, <3>6, NextByte, Zenon
      <3>8. Within(t[q + k], words, i, k)
        BY <3>1, <3>5, <3>7, Zenon
      <3> QED
        BY <3>8
    <2> QED
      BY <2>4, <2>5
  <1> HIDE DEF K
  <1>10. \A k \in 0..b : k \in K
    BY <1>8, <1>9, UpTo
  <1>11. Within(t[q + b], words, i, b)
    BY <1>2, <1>10 DEF K
  <1>12. q + b \in 0..m /\ q + b + 1 \in 1..m /\ (q + b + 1) - 1 = q + b
    BY <1>31
  <1>13. PICK ts \in Seq(Seq(Byte)) : ts = t[q + b]
    BY <1>4, <1>12
  <1>14. t[q + b + 1] = ts
    BY <1>3, <1>6, <1>12, <1>13, Zenon
  <1>15. Ended(ts, words, i)
    BY <1>2, <1>11, <1>13, WordEnds, Zenon DEF WordAt
  <1> QED
    BY <1>1, <1>2, <1>14, <1>15, Zenon

\* The tokens of a line of words are the words.
LEMMA TokensOfWords ==
    ASSUME NEW words \in Seq(Word), NEW line, line = concat(spaced(words))
    PROVE  tokens(line)[Len(line)] = words
  <1>0. line \in Seq(Byte)
    BY LineOfWords
  <1>1. PICK x \in Args : x = spaced(words) /\ Len(x) = Len(words)
    BY SpacedTyped, WordsTyped
  <1>2. PICK n \in Nat : n = Len(words) /\ n = Len(x)
    BY <1>1, WordsTyped
  <1>3. PICK f : f = [i \in 0..n |-> Len(joined(x)[i])]
    OBVIOUS
  <1>30. \A i \in 0..n : f[i] = Len(joined(x)[i])
    BY <1>3, Zenon
  <1>4. /\ \A i \in 0..n : f[i] \in Nat
        /\ f[0] = 0
        /\ \A i \in 1..n : f[i] = f[i - 1] + Len(x[i])
        /\ \A i \in 0..n : f[i] <= Len(line)
        /\ f[n] = Len(line)
    <2>1. line = joined(x)[n]
      BY <1>1, <1>2, Zenon DEF concat
    <2>2. \A i \in 0..n : n \in i..n
      OBVIOUS
    <2>3. \A i \in 0..n : Len(joined(x)[i]) <= Len(joined(x)[n])
      BY <1>2, <2>2, JoinedGrows, Zenon
    <2>4. 0 \in 0..n /\ n \in 0..n /\ \A i \in 1..n : i \in 0..n /\ i - 1 \in 0..n
      OBVIOUS
    <2>5. /\ \A i \in 0..n : Len(joined(x)[i]) \in Nat
          /\ Len(joined(x)[0]) = 0
          /\ \A i \in 1..n : Len(joined(x)[i]) = Len(joined(x)[i - 1]) + Len(x[i])
      BY <1>2, JoinedLen, Zenon
    <2> QED
      BY <1>30, <2>1, <2>3, <2>4, <2>5, Zenon
  <1>5. ASSUME NEW i \in 1..n
        PROVE  /\ IsWord(words[i]) /\ Lies(line, f[i - 1], words[i])
               /\ f[i] = f[i - 1] + Len(words[i]) + 1
    <2>0. i \in 1..Len(words) /\ i \in 0..n /\ i - 1 \in 0..n
      BY <1>2
    <2>1. PICK y : y = x[i]
      OBVIOUS
    <2>2. PICK v : v = words[i]
      OBVIOUS
    <2>3. IsWord(v) /\ IsSpaced(y, v)
      BY <1>1, <2>0, <2>1, <2>2, WordFacts, Zenon
    <2>40. PICK b \in Nat : b = Len(v)
      BY <2>3 DEF IsWord
    <2>41. PICK q \in Nat : q = f[i - 1]
      BY <1>4, <2>0, Zenon
    <2>42. PICK m \in Nat : m = Len(line)
      BY <1>0
    <2>4. b = Len(v) /\ q = f[i - 1] /\ m = Len(line)
      BY <2>40, <2>41, <2>42
    <2>5. Len(y) = b + 1 /\ (\A k \in 1..b : y[k] = v[k]) /\ y[b + 1] = " "
      BY <2>3, <2>4, Zenon DEF IsSpaced
    <2>6. f[i] = q + (b + 1) /\ f[i] <= m
      BY <1>4, <2>0, <2>1, <2>4, <2>5, Zenon
    <2>60. q + (b + 1) = q + b + 1
      OBVIOUS
    <2>7. At(line, 1 + q, y)
      <3>1. At(line, 1, concat(x))
        BY <1>1 DEF At
      <3>2. 1 \in Nat \ {0}
        OBVIOUS
      <3>3. \A j \in 1..Len(x) : At(line, 1 + Len(joined(x)[j - 1]), x[j])
        BY <1>0, <3>1, <3>2, JoinedAt
      <3> QED
        BY <1>2, <1>30, <2>0, <2>1, <2>4, <3>3, Zenon
    <2>8. ASSUME NEW k \in 1..(b + 1) PROVE line[q + k] = y[k]
      <3>1. q + k <= m
        BY <2>6
      <3>2. (1 + q) + k - 1 = q + k
        OBVIOUS
      <3> QED
        BY <2>4, <2>5, <2>7, <3>1, <3>2, Zenon DEF At
    <2>9. \A k \in 1..b : line[q + k] = v[k]
      <3>1. \A k \in 1..b : k \in 1..(b + 1)
        OBVIOUS
      <3> QED
        BY <2>5, <2>8, <3>1, Zenon
    <2>10. line[q + b + 1] = " "
      <3>1. b + 1 \in 1..(b + 1)
        OBVIOUS
      <3> QED
        BY <2>5, <2>8, <2>60, <3>1, Zenon
    <2>11. q + b + 1 <= m
      BY <2>6
    <2> QED
      BY <2>2, <2>3, <2>4, <2>6, <2>60, <2>9, <2>10, <2>11, Zenon DEF Lies
  <1>6. PICK t : t = tokens(line)
    OBVIOUS
  <1>7. t \in [0..Len(line) -> Args] /\ t[0] = <<>>
    BY <1>0, <1>6, TokensDef
  <1> DEFINE T == {i \in 0..n : Ended(t[f[i]], words, i)}
  <1>8. 0 \in T
    <2>1. Ended(<<>>, words, 0)
      BY DEF Ended
    <2>2. 0 \in 0..n
      OBVIOUS
    <2> QED
      BY <1>4, <1>7, <2>1, <2>2
  <1>9. ASSUME NEW i \in 1..n, i - 1 \in T PROVE i \in T
    <2>1. i \in 0..n /\ i - 1 \in 0..n /\ i \in Nat \ {0}
      OBVIOUS
    <2>2. PICK q \in Nat : q = f[i - 1]
      BY <1>4, <2>1
    <2>3. PICK v \in Seq(Byte) : v = words[i] /\ IsWord(v)
      BY <1>5, Zenon DEF IsWord
    <2>4. Lies(line, q, v) /\ f[i] = q + Len(v) + 1
      BY <1>5, <2>2, <2>3, Zenon
    <2>5. Ended(t[q], words, i - 1)
      BY <1>9, <2>2
    <2>60. WordAt(words, i, v)
      BY <2>3 DEF WordAt
    <2>6. AfterSpace(line, q)
      <3>1. CASE i = 1
        <4>1. f[i - 1] = f[0]
          BY <3>1
        <4> QED
          BY <1>4, <2>2, <4>1, Zenon DEF AfterSpace
      <3>2. CASE i # 1
        <4>1. PICK h \in 1..n : h = i - 1
          BY <3>2
        <4>2. PICK r : r = f[h - 1] + Len(words[h]) + 1
          OBVIOUS
        <4>3. line[r] = " " /\ f[h] = r
          BY <1>5, <4>2, Zenon DEF Lies
        <4> QED
          BY <2>2, <4>1, <4>3, Zenon DEF AfterSpace
      <3> QED
        BY <3>1, <3>2
    <2>7. Ended(t[q + Len(v) + 1], words, i)
      BY <1>0, <1>6, <2>1, <2>3, <2>4, <2>5, <2>6, <2>60, WordToken, Zenon
    <2>8. Ended(t[f[i]], words, i)
      BY <2>4, <2>7, Zenon
    <2> QED
      BY <2>1, <2>8
  <1> HIDE DEF T
  <1>10. \A i \in 0..n : i \in T
    BY <1>8, <1>9, UpTo
  <1>11. n \in T
    BY <1>10
  <1>12. PICK ts : ts = t[Len(line)]
    OBVIOUS
  <1>13. Ended(ts, words, n)
    BY <1>4, <1>11, <1>12, Zenon DEF T
  <1>14. ts \in Seq(Seq(Byte)) /\ words \in Seq(Seq(Byte))
    <2>1. Len(line) \in 0..Len(line)
      BY <1>0
    <2> QED
      BY <1>7, <1>12, <2>1, WordsTyped, Zenon DEF Args
  <1>15. ts = words
    BY <1>2, <1>13, <1>14, SeqEqual DEF Ended
  <1> QED
    BY <1>6, <1>12, <1>15

\* A line of words is parsed when its end has arrived.
LEMMA InlineParsed ==
    ASSUME NEW words \in Seq(Word), words # <<>> => words[1][1] # "*",
           NEW d \in Seq(Byte), At(d, 1, concat(spaced(words)) \o CRLF)
    PROVE  Outcome(d, concat(spaced(words)) \o CRLF, words)
  <1>0. None.ok = FALSE
    BY DEF None
  <1>1. PICK line : line = concat(spaced(words))
    OBVIOUS
  <1>2. /\ line \in Seq(Byte) /\ NoPair(line) /\ tokens(line)[Len(line)] = words
        /\ words # <<>> => Len(line) >= 1 /\ line[1] = words[1][1]
        /\ words = <<>> => Len(line) = 0
    BY <1>1, LineOfWords, TokensOfWords
  <1>3. PICK w : w = line \o CRLF
    OBVIOUS
  <1>4. PICK n \in Nat, m \in Nat : n = Len(line) /\ m = Len(d)
    BY <1>2
  <1>5. /\ w \in Seq(Byte) /\ Len(w) = n + 2 /\ (\A i \in 1..n : w[i] = line[i])
        /\ w[n + 1] = "CR"
    BY <1>2, <1>3, <1>4, WithCRLF
  <1>6. At(d, 1, line \o CRLF) /\ At(d, 1, w)
    BY <1>1, <1>3, Zenon
  <1>7. CASE m = 0
    <2>1. d = <<>>
      BY <1>4, <1>7, EmptySeq
    <2>2. parse(d) = None
      BY <2>1 DEF parse
    <2>3. ~(m >= n + 2)
      BY <1>7
    <2>4. Outcome(d, w, words)
      BY <1>0, <1>4, <1>5, <2>2, <2>3 DEF Outcome
    <2> QED
      BY <1>1, <1>3, <2>4
  <1>8. CASE m # 0
    <2>1. d[1] = w[1]
      <3>1. 1 \in 1..Len(w) /\ 1 + 1 - 1 = 1 /\ 1 + 1 - 1 <= Len(d)
        BY <1>4, <1>5, <1>8
      <3> QED
        BY <1>6, <3>1 DEF At
    <2>2. w[1] # "*"
      <3>1. CASE words = <<>>
        BY <1>2, <1>4, <1>5, <3>1
      <3>2. CASE words # <<>>
        <4>1. 1 \in 1..n /\ line[1] # "*"
          BY <1>2, <1>4, <3>2
        <4> QED
          BY <1>5, <4>1
      <3> QED
        BY <3>1, <3>2
    <2>3. parse(d) = parseInline(d)
      <3>1. d # <<>>
        BY <1>4, <1>8
      <3> QED
        BY <2>1, <2>2, <3>1 DEF parse
    <2>4. /\ m >= 1 + n + 1 => findCRLF(d, 1) = 1 + n /\ SubSeq(d, 1, 1 + n - 1) = line
          /\ m < 1 + n + 1 => findCRLF(d, 1) = 0
      <3>1. PICK p \in Nat \ {0} : p = 1
        OBVIOUS
      <3>2. At(d, p, line \o CRLF)
        BY <1>6, <3>1
      <3>3. /\ Len(d) >= p + Len(line) + 1 =>
                findCRLF(d, p) = p + Len(line) /\ SubSeq(d, p, p + Len(line) - 1) = line
            /\ Len(d) < p + Len(line) + 1 => findCRLF(d, p) = 0
        BY <1>2, <3>2, LineAt
      <3> QED
        BY <1>4, <3>1, <3>3, Zenon
    <2>5. PICK end : end = findCRLF(d, 1)
      OBVIOUS
    <2>6. parse(d) = IF end = 0 THEN None ELSE Parsed(tokens(SubSeq(d, 1, end - 1))[end - 1], end + 1)
      BY <2>3, <2>5 DEF parseInline
    <2>7. CASE m >= n + 2
      <3>1. end = 1 + n /\ SubSeq(d, 1, 1 + n - 1) = line
        BY <2>4, <2>5, <2>7
      <3>2. end # 0 /\ end - 1 = n /\ end + 1 = n + 2 /\ 1 + n - 1 = n
        BY <3>1
      <3>3. parse(d) = Parsed(tokens(line)[n], n + 2)
        BY <2>6, <3>1, <3>2
      <3>4. ~(m < n + 2)
        BY <2>7
      <3>5. Outcome(d, w, words)
        BY <1>2, <1>4, <1>5, <3>3, <3>4 DEF Outcome
      <3> QED
        BY <1>1, <1>3, <3>5
    <2>8. CASE m < n + 2
      <3>1. end = 0
        BY <2>4, <2>5, <2>8
      <3>2. parse(d) = None
        BY <2>6, <3>1
      <3>3. ~(m >= n + 2)
        BY <2>8
      <3>4. Outcome(d, w, words)
        BY <1>0, <1>4, <1>5, <3>2, <3>3 DEF Outcome
      <3> QED
        BY <1>1, <1>3, <3>4
    <2> QED
      BY <2>7, <2>8
  <1> QED
    BY <1>7, <1>8

\* The parser returns the command of every item that is a frame when its last byte has
\* arrived, and nothing before.
LEMMA ItemParsed ==
    ASSUME NEW item \in Item \ Malformed, NEW d \in Seq(Byte), At(d, 1, wire(item))
    PROVE  Outcome(d, wire(item), item.args)
  <1>1. /\ item.kind \in {"array", "nullArray", "inline"} /\ item.args \in Args
        /\ item.kind = "nullArray" => item.args = <<>>
        /\ item.kind = "array" => Stringed(item)
        /\ item.kind = "inline" =>
                 item.args \in Seq(Word) /\ (item.args # <<>> => item.args[1][1] # "*")
    BY ItemFacts
  <1>2. CASE item.kind = "array"
    <2>1. wire(item) = head("*", Len(item.args)) \o concat(sent(item))
      BY <1>2 DEF wire
    <2> QED
      BY <1>1, <1>2, <2>1, ArrayParsed, Zenon
  <1>3. CASE item.kind = "nullArray"
    <2>1. wire(item) = Null("*")
      BY <1>3 DEF wire, Null
    <2> QED
      BY <1>1, <1>3, <2>1, NullArrayParsed, Zenon
  <1>4. CASE item.kind = "inline"
    <2>1. wire(item) = concat(spaced(item.args)) \o CRLF
      BY <1>4 DEF wire, spaced
    <2> QED
      BY <1>1, <1>4, <2>1, InlineParsed, Zenon
  <1> QED
    BY <1>1, <1>2, <1>3, <1>4

LEMMA AtBoth ==
    ASSUME NEW w \in Seq(Byte), NEW rest \in Seq(Byte)
    PROVE  /\ w \o rest \in Seq(Byte) /\ Len(w \o rest) = Len(w) + Len(rest)
           /\ At(w \o rest, 1, w)
           /\ \A n \in 0..Len(w) : /\ SubSeq(w, 1, n) \in Seq(Byte) /\ Len(SubSeq(w, 1, n)) = n
                                   /\ At(SubSeq(w, 1, n), 1, w)
  <1>1. PICK d : d = w \o rest
    OBVIOUS
  <1>2. d \in Seq(Byte) /\ Len(d) = Len(w) + Len(rest) /\ \A i \in 1..Len(w) : d[i] = w[i]
    BY <1>1
  <1>3. \A i \in 1..Len(w) : 1 + i - 1 = i
    OBVIOUS
  <1>4. At(d, 1, w)
    BY <1>2, <1>3, Zenon DEF At
  <1>5. ASSUME NEW n \in 0..Len(w)
        PROVE  /\ SubSeq(w, 1, n) \in Seq(Byte) /\ Len(SubSeq(w, 1, n)) = n
               /\ At(SubSeq(w, 1, n), 1, w)
    <2>1. PICK u : u = SubSeq(w, 1, n)
      OBVIOUS
    <2>2. u \in Seq(Byte) /\ Len(u) = n /\ \A i \in 1..n : u[i] = w[i]
      BY <2>1
    <2>3. ASSUME NEW i \in 1..Len(w), 1 + i - 1 <= Len(u) PROVE u[1 + i - 1] = w[i]
      <3>1. i \in 1..n
        BY <1>3, <2>2, <2>3
      <3> QED
        BY <1>3, <2>2, <3>1, Zenon
    <2>4. At(u, 1, w)
      BY <2>3, Zenon DEF At
    <2> QED
      BY <2>1, <2>2, <2>4
  <1> QED
    BY <1>1, <1>2, <1>4, <1>5, Zenon

\* RespParser::parse undoes the encoding: whatever lies behind a frame in the buffer, it
\* returns the arguments the client gave, bytes that look like syntax included, and takes
\* the frame's bytes and no other; of a frame that has not arrived in full it takes none.
THEOREM FrameParsed ==
    \A item \in Item \ Malformed :
        /\ \A rest \in Seq(Byte) : parse(wire(item) \o rest) = Parsed(item.args, Len(wire(item)))
        /\ \A n \in 0..(Len(wire(item)) - 1) : ~parse(SubSeq(wire(item), 1, n)).ok
  <1> SUFFICES ASSUME NEW item \in Item \ Malformed
               PROVE  /\ \A rest \in Seq(Byte) : parse(wire(item) \o rest) = Parsed(item.args, Len(wire(item)))
                      /\ \A n \in 0..(Len(wire(item)) - 1) : ~parse(SubSeq(wire(item), 1, n)).ok
    OBVIOUS
  <1>1. PICK w \in Seq(Byte) : w = wire(item)
    BY WireTyped
  <1>2. \A d \in Seq(Byte) : At(d, 1, w) => Outcome(d, w, item.args)
    BY <1>1, ItemParsed, Zenon
  <1>3. ASSUME NEW rest \in Seq(Byte) PROVE parse(w \o rest) = Parsed(item.args, Len(w))
    <2>1. PICK d \in Seq(Byte) : d = w \o rest /\ At(d, 1, w) /\ Len(d) = Len(w) + Len(rest)
      BY AtBoth
    <2>2. Len(d) >= Len(w)
      BY <2>1
    <2>3. Outcome(d, w, item.args)
      BY <1>2, <2>1
    <2> QED
      BY <2>1, <2>2, <2>3, Zenon DEF Outcome
  <1>4. ASSUME NEW n \in 0..(Len(w) - 1) PROVE ~parse(SubSeq(w, 1, n)).ok
    <2>1. n \in 0..Len(w)
      OBVIOUS
    <2>2. PICK u \in Seq(Byte) : u = SubSeq(w, 1, n) /\ At(u, 1, w) /\ Len(u) = n
      BY <2>1, AtBoth
    <2>3. Len(u) < Len(w)
      BY <2>2
    <2>4. Outcome(u, w, item.args)
      BY <1>2, <2>2
    <2> QED
      BY <2>2, <2>3, <2>4, Zenon DEF Outcome
  <1> QED
    BY <1>1, <1>3, <1>4, Zenon

-----------------------------------------------------------------------------
(* What a client means. *)

\* What its items mean, one after the other.
LEMMA CommandsDef ==
    ASSUME NEW items \in Seq(Item)
    PROVE  /\ commands(items) \in [0..Len(items) -> Seq(Args)]
           /\ commands(items)[0] = <<>>
           /\ \A i \in 1..Len(items) : commands(items)[i] = withCommand(commands(items)[i - 1], items[i].args)
  <1> DEFINE n == Len(items)
             V == Seq(Args)
             next(i, v) == withCommand(v, items[i].args)
             step == [i \in 1..n |-> [v \in V |-> next(i, v)]]
             f == commands(items)
  <1>1. n \in Nat /\ <<>> \in V
    OBVIOUS
  <1>2. \A i \in 1..n : \A v \in V : next(i, v) \in V
    <2> SUFFICES ASSUME NEW i \in 1..n, NEW v \in V PROVE next(i, v) \in V
      OBVIOUS
    <2>1. PICK x \in Args : x = items[i].args
      BY ItemFacts
    <2>2. v \in Seq(Args) /\ Append(v, x) \in Seq(Args)
      OBVIOUS
    <2> QED
      BY <2>1, <2>2, Zenon DEF withCommand
  <1>3. f = CHOOSE j : j = [i \in 0..n |-> IF i = 0 THEN <<>> ELSE next(i, j[i - 1])]
    BY DEF commands
  <1> HIDE DEF n, V, next, f
  <1>4. step \in [1..n -> [V -> V]] /\ \A i \in 1..n : \A v \in V : step[i][v] = next(i, v)
    BY <1>2
  <1> HIDE DEF step
  <1>5. PICK a \in V : a = <<>>
    BY <1>1
  <1>6. PICK g \in [0..n -> V] : Follows(g, n, a, step)
    BY <1>1, <1>4, RecursionExists
  <1>7. g[0] = a /\ \A i \in 1..n : g[i] = next(i, g[i - 1])
    BY <1>1, <1>4, <1>6 DEF Follows
  <1>8. g = [i \in 0..n |-> IF i = 0 THEN a ELSE next(i, g[i - 1])]
    BY <1>1, <1>6, <1>7
  <1>9. f = [i \in 0..n |-> IF i = 0 THEN a ELSE next(i, f[i - 1])]
    BY <1>3, <1>5, <1>8
  <1>10. f[0] = a /\ (\A i \in 1..n : f[i] = next(i, f[i - 1])) /\ f = [i \in 0..n |-> f[i]]
    <2>1. 0 \in 0..n /\ \A i \in 1..n : i \in 0..n /\ i # 0
      BY <1>1
    <2>2. f = [i \in 0..n |-> f[i]]
      BY <1>9, Zenon
    <2>3. \A i \in 0..n : f[i] = IF i = 0 THEN a ELSE next(i, f[i - 1])
      BY <1>9, Zenon
    <2> QED
      BY <2>1, <2>2, <2>3, Zenon
  <1>11. f \in [0..n -> V]
    <2>1. \A i \in 1..n : f[i - 1] \in V => f[i] \in V
      BY <1>2, <1>10, Zenon
    <2> QED
      BY <1>1, <1>5, <1>10, <2>1, RecursionTyped, Zenon
  <1> QED
    BY <1>5, <1>10, <1>11, Zenon DEF f, n, V, next

\* The commands of more items begin with those of fewer.
LEMMA MeantGrows ==
    ASSUME script \in Script, NEW k \in 0..Len(script), NEW h \in 0..Len(script), k <= h
    PROVE  IsPrefix(meant(k), meant(h))
  <1>1. PICK n \in Nat : n = Len(script) /\ script \in Seq(Item)
    BY WiresTyped
  <1>2. PICK c : c = commands(script)
    OBVIOUS
  <1>3. /\ c \in [0..n -> Seq(Args)]
        /\ \A i \in 1..n : c[i] = withCommand(c[i - 1], script[i].args) /\ script[i].args \in Args
    BY <1>1, <1>2, WiresTyped, CommandsDef, ItemFacts, Zenon
  <1>4. PICK s \in Seq(Args) : s = c[k]
    BY <1>1, <1>3
  <1> DEFINE P(t) == Len(s) <= Len(t) /\ \A i \in 1..Len(s) : t[i] = s[i]
             T == {j \in 0..n : j >= k => P(c[j])}
  <1>5. 0 \in T
    <2>1. 0 >= k => c[0] = s
      BY <1>1, <1>4
    <2>2. P(s)
      OBVIOUS
    <2> HIDE DEF P
    <2> QED
      BY <2>1, <2>2
  <1>6. ASSUME NEW j \in 1..n, j - 1 \in T PROVE j \in T
    <2>0. SUFFICES ASSUME j >= k PROVE P(c[j])
      OBVIOUS
    <2>1. CASE j = k
      <3>1. P(s)
        OBVIOUS
      <3> HIDE DEF P
      <3> QED
        BY <1>4, <2>1, <3>1
    <2>2. CASE j # k
      <3>1. PICK t \in Seq(Args) : t = c[j - 1]
        BY <1>3
      <3>2. P(t)
        <4>1. j - 1 >= k
          BY <1>1, <2>0, <2>2
        <4> HIDE DEF P
        <4> QED
          BY <1>6, <3>1, <4>1
      <3>3. PICK x \in Args : x = script[j].args
        BY <1>3
      <3>4. c[j] = t \/ c[j] = Append(t, x)
        BY <1>3, <3>1, <3>3, Zenon DEF withCommand
      <3>5. P(Append(t, x))
        BY <3>2
      <3> HIDE DEF P
      <3> QED
        BY <3>2, <3>4, <3>5, Zenon
    <2> QED
      BY <2>1, <2>2
  <1> HIDE DEF T
  <1>7. \A j \in 0..n : j \in T
    BY <1>5, <1>6, UpTo
  <1>8. PICK t \in Seq(Args) : t = c[h]
    BY <1>1, <1>3
  <1>9. P(t)
    <2>1. h \in T
      BY <1>1, <1>7
    <2> HIDE DEF P
    <2> QED
      BY <1>8, <2>1 DEF T
  <1>10. SubSeq(s, 1, Len(s)) = SubSeq(t, 1, Len(s))
    BY <1>9
  <1>11. IsPrefix(s, t)
    BY <1>9, <1>10 DEF IsPrefix
  <1> QED
    BY <1>2, <1>4, <1>8, <1>11 DEF meant

\* Where the items lie in the stream.
LEMMA SpanFacts ==
    ASSUME script \in Script
    PROVE  /\ Len(stream) \in Nat /\ span(Len(script)) = Len(stream) /\ span(0) = 0
           /\ \A i \in 0..Len(script) : span(i) \in Nat /\ span(i) <= Len(stream)
           /\ \A i \in 1..Len(script) : /\ wire(script[i]) \in Seq(Byte) /\ Len(wire(script[i])) \in Nat
                                        /\ span(i) = span(i - 1) + Len(wire(script[i]))
           /\ \A i \in 0..Len(script) : \A j \in i..Len(script) : span(i) <= span(j)
  <1>1. PICK n \in Nat : n = Len(script) /\ n = Len(wires)
    BY WiresTyped
  <1>2. wires \in Args /\ \A i \in 1..n : wires[i] = wire(script[i])
    BY <1>1, WiresTyped
  <1>3. PICK x \in Args : x = wires
    BY <1>2
  <1>4. /\ \A i \in 0..n : Len(joined(x)[i]) \in Nat
        /\ Len(joined(x)[0]) = 0
        /\ \A i \in 1..n : /\ x[i] \in Seq(Byte) /\ Len(x[i]) \in Nat
                           /\ Len(joined(x)[i]) = Len(joined(x)[i - 1]) + Len(x[i])
    BY <1>1, <1>3, JoinedLen, Zenon
  <1>5. \A i \in 0..n : \A j \in i..n : Len(joined(x)[i]) <= Len(joined(x)[j])
    BY <1>1, <1>3, JoinedGrows, Zenon
  <1>6. \A i \in 0..n : n \in i..n
    OBVIOUS
  <1>7. Len(stream) = Len(joined(x)[n])
    BY <1>1, <1>3, Zenon DEF stream, concat
  <1>8. n \in 0..n
    OBVIOUS
  <1> QED
    BY <1>1, <1>2, <1>3, <1>4, <1>5, <1>6, <1>7, <1>8, Zenon DEF span

\* What lies in a sequence lies in a part of it.
LEMMA AtCut ==
    ASSUME NEW d \in Seq(Byte), NEW q \in Nat, NEW a \in q..Len(d), NEW w \in Seq(Byte), At(d, 1 + q, w)
    PROVE  /\ SubSeq(d, q + 1, a) \in Seq(Byte) /\ Len(SubSeq(d, q + 1, a)) = a - q
           /\ At(SubSeq(d, q + 1, a), 1, w)
  <1>1. PICK m \in Nat : m = Len(d)
    OBVIOUS
  <1>2. PICK u : u = SubSeq(d, q + 1, a)
    OBVIOUS
  <1>3. u \in Seq(Byte) /\ Len(u) = a - q /\ \A i \in 1..(a - q) : u[i] = d[q + i]
    BY <1>1, <1>2
  <1>4. ASSUME NEW i \in 1..Len(w), 1 + i - 1 <= Len(u) PROVE u[1 + i - 1] = w[i]
    <2>1. PICK l \in Nat : l = Len(w) /\ i \in 1..l
      OBVIOUS
    <2>2. 1 + i - 1 = i /\ i \in 1..(a - q) /\ (1 + q) + i - 1 = q + i /\ q + i <= m
      BY <1>1, <1>3, <1>4, <2>1
    <2>3. d[q + i] = w[i]
      BY <1>1, <2>2, Zenon DEF At
    <2> QED
      BY <1>3, <2>2, <2>3, Zenon
  <1>5. At(u, 1, w)
    BY <1>4, Zenon DEF At
  <1> QED
    BY <1>2, <1>3, <1>5

\* The next item lies at the front of the bytes behind the first k items.
LEMMA NextItemAt ==
    ASSUME script \in Script, NEW k \in 0..Len(script), k < Len(script),
           NEW a \in Nat, a <= Len(stream), span(k) <= a
    PROVE  At(SubSeq(stream, span(k) + 1, a), 1, wire(script[k + 1]))
  <1>1. PICK q \in Nat : q = span(k)
    BY SpanFacts
  <1>2. PICK n \in Nat : n = Len(script)
    BY WiresTyped
  <1>3. PICK i \in 1..n : i = k + 1 /\ i - 1 = k
    BY <1>2
  <1>4. PICK d \in Seq(Byte) : d = stream /\ d = concat(wires)
    BY StreamTyped DEF stream
  <1>5. PICK x \in Args : x = wires /\ Len(x) = n /\ x[i] = wire(script[i])
    BY <1>2, WiresTyped
  <1>6. At(d, 1, concat(x))
    BY <1>4, <1>5 DEF At
  <1>7. \A j \in 1..Len(x) : At(d, 1 + Len(joined(x)[j - 1]), x[j])
    <2>1. 1 \in Nat \ {0}
      OBVIOUS
    <2> QED
      BY <1>6, <2>1, JoinedAt
  <1>8. PICK w \in Seq(Byte) : w = wire(script[i])
    BY <1>2, SpanFacts
  <1>9. At(d, 1 + q, w)
    BY <1>1, <1>3, <1>5, <1>7, <1>8, Zenon DEF span
  <1>10. a \in q..Len(d)
    BY <1>1, <1>4
  <1>11. At(SubSeq(d, q + 1, a), 1, w)
    BY <1>9, <1>10, AtCut
  <1> QED
    BY <1>1, <1>3, <1>4, <1>8, <1>11, Zenon

-----------------------------------------------------------------------------
(* The specification. *)

\* The inductive invariant: TypeOK and RepliesInOrder, and no empty command is dispatched.
IInv ==
    /\ script \in Script /\ arrived \in 0..Len(stream)
    /\ Buf(in) /\ Buf(out)
    /\ pc \in {"wait", "parse"}
    /\ got \in Seq(Args \ {<<>>}) /\ received \in Seq(Byte)
    /\ RepliesInOrder

\* The initial state.
LEMMA InitIInv == Init => IInv
  <1> SUFFICES ASSUME Init PROVE IInv
    OBVIOUS
  <1>1. Buf(EmptyBuffer) /\ readableBytes(EmptyBuffer) = 0
    BY DEF EmptyBuffer, Buf, GoodBuffer, readableBytes
  <1>2. Buf(in) /\ Buf(out) /\ readableBytes(out) = 0
    BY <1>1 DEF Init
  <1>3. unread(out) = <<>>
    <2>1. unread(out) \in Seq(Byte) /\ Len(unread(out)) = 0
      BY <1>2, BufFacts
    <2> QED
      BY <2>1, EmptySeq
  <1>4. Len(stream) \in Nat
    BY StreamTyped DEF Init
  <1>5. RepliesInOrder
    <2>1. PICK x : x = [i \in 1..Len(got) |-> reply(got[i])]
      OBVIOUS
    <2>2. Len(got) = 0
      BY DEF Init
    <2>3. x = [i \in 1..0 |-> x[i]] /\ \A i \in 1..0 : x[i] \in Seq(Byte)
      BY <2>1, <2>2
    <2>4. x \in Args /\ Len(x) = 0
      BY <2>3, ManySeqs
    <2>5. concat(x) = <<>>
      BY <2>4, JoinedDef DEF concat
    <2>6. received \o unread(out) = <<>>
      BY <1>3 DEF Init
    <2> QED
      BY <2>1, <2>5, <2>6 DEF RepliesInOrder
  <1> QED
    BY <1>2, <1>4, <1>5 DEF Init, IInv

\* Reading disturbs in only; there is room for what is read.
LEMMA ReadStep ==
    ASSUME IInv, HandleRead
    PROVE  IInv'
  <1>0. /\ script' = script /\ out' = out /\ got' = got /\ received' = received
        /\ pc' = "parse"
    BY DEF HandleRead
  <1>1. PICK b : b = ensureWritableBytes(in, kReadBufSize)
    OBVIOUS
  <1>2. PICK n \in 1..writableBytes(b) :
           /\ arrived + n <= Len(stream)
           /\ in' = filled(b, SubSeq(stream, arrived + 1, arrived + n))
           /\ arrived' = arrived + n
    BY <1>1 DEF HandleRead
  <1>3. Buf(b)
    BY <1>1, EnsureBuf, ReadSizeAssumption DEF IInv
  <1>4. writableBytes(b) \in Nat
    BY <1>3, BufFacts
  <1>5. stream \in Seq(Byte) /\ Len(stream) \in Nat /\ arrived \in 0..Len(stream)
    BY StreamTyped DEF IInv
  <1>6. PICK t : t = SubSeq(stream, arrived + 1, arrived + n)
    OBVIOUS
  <1>7. t \in Seq(Byte) /\ Len(t) = n
    BY <1>2, <1>4, <1>5, <1>6
  <1>8. Buf(in')
    <2>1. Len(t) <= writableBytes(b)
      BY <1>2, <1>4, <1>7
    <2>2. in' = filled(b, t)
      BY <1>2, <1>6
    <2> QED
      BY <1>3, <1>7, <2>1, <2>2, FilledBuf, Zenon
  <1>9. stream' = stream
    BY <1>0 DEF stream, wires
  <1>10. arrived' \in 0..Len(stream)
    BY <1>2, <1>4, <1>5
  <1>11. RepliesInOrder'
    BY <1>0 DEF IInv, RepliesInOrder
  <1> QED
    BY <1>0, <1>8, <1>9, <1>10, <1>11 DEF IInv

\* A parsed command leaves in and its reply joins out.
LEMMA ParseStep ==
    ASSUME IInv, ParseCommand
    PROVE  IInv'
  <1>0. /\ script' = script /\ arrived' = arrived /\ received' = received /\ pc' = pc
        /\ stream' = stream
    BY DEF ParseCommand, stream, wires
  <1>1. unread(in) \in Seq(Byte) /\ Len(unread(in)) = readableBytes(in) /\ readableBytes(in) \in Nat
    BY BufFacts DEF IInv
  <1>2. PICK r : r = parse(unread(in))
    OBVIOUS
  <1>3. /\ r.ok /\ in' = consume(in, r.bytesConsumed)
        /\ IF r.args = <<>> THEN got' = got /\ out' = out
           ELSE got' = Append(got, r.args) /\ out' = append(out, reply(r.args))
    BY <1>2 DEF ParseCommand
  <1>4. r.bytesConsumed \in 1..readableBytes(in) /\ r.args \in Args
    BY <1>1, <1>2, <1>3, ParseBounds
  <1>5. Buf(in')
    BY <1>1, <1>3, <1>4, ConsumeBuf DEF IInv
  <1>6. CASE r.args = <<>>
    <2>1. got' = got /\ out' = out
      BY <1>3, <1>6
    <2>2. RepliesInOrder'
      BY <1>0, <2>1 DEF IInv, RepliesInOrder
    <2> QED
      BY <1>0, <1>5, <2>1, <2>2 DEF IInv
  <1>7. CASE r.args # <<>>
    <2>1. PICK a \in Args \ {<<>>} : a = r.args
      BY <1>4, <1>7
    <2>2. got' = Append(got, a) /\ out' = append(out, reply(a))
      BY <1>3, <1>7, <2>1
    <2>3. reply(a) \in Seq(Byte)
      BY ReplyTyped
    <2>4. Buf(out') /\ unread(out') = unread(out) \o reply(a)
      BY <2>2, <2>3, AppendBuf DEF IInv
    <2>5. /\ got \in Seq(Args \ {<<>>}) /\ got' \in Seq(Args \ {<<>>})
          /\ Len(got) \in Nat /\ Len(got') = Len(got) + 1 /\ got'[Len(got) + 1] = a
          /\ \A i \in 1..Len(got) : got'[i] = got[i]
      BY <2>2 DEF IInv
    <2>6. PICK x, y : /\ x = [i \in 1..Len(got) |-> reply(got[i])]
                      /\ y = [i \in 1..Len(got') |-> reply(got'[i])]
      OBVIOUS
    <2>7. x \in Args /\ Len(x) = Len(got)
      <3>1. x = [i \in 1..Len(got) |-> x[i]] /\ \A i \in 1..Len(got) : x[i] \in Seq(Byte)
        BY <2>5, <2>6, ReplyTyped
      <3> QED
        BY <2>5, <3>1, ManySeqs
    <2>8. y \in Args /\ Len(y) = Len(got')
      <3>1. y = [i \in 1..Len(got') |-> y[i]] /\ \A i \in 1..Len(got') : y[i] \in Seq(Byte)
        BY <2>5, <2>6, ReplyTyped
      <3>2. Len(got') \in Nat
        BY <2>5
      <3> QED
        BY <3>1, <3>2, ManySeqs
    <2>9. (\A i \in 1..Len(x) : y[i] = x[i]) /\ y[Len(y)] = reply(a) /\ Len(y) = Len(x) + 1
      BY <2>5, <2>6, <2>7, <2>8
    <2>10. concat(y) = concat(x) \o reply(a)
      BY <2>7, <2>8, <2>9, ConcatLonger
    <2>11. received \o unread(out) = concat(x)
      BY <2>6 DEF IInv, RepliesInOrder
    <2>12. received' \o unread(out') = concat(y)
      <3>1. received \in Seq(Byte) /\ unread(out) \in Seq(Byte)
        BY BufFacts DEF IInv
      <3>2. received \o (unread(out) \o reply(a)) = (received \o unread(out)) \o reply(a)
        BY <2>3, <3>1, ConcatAssociative
      <3> QED
        BY <1>0, <2>4, <2>10, <2>11, <3>2
    <2>13. RepliesInOrder'
      BY <2>6, <2>12 DEF RepliesInOrder
    <2> QED
      BY <1>0, <1>5, <2>4, <2>5, <2>13 DEF IInv
  <1> QED
    BY <1>6, <1>7

\* What the kernel takes goes from out to received.
LEMMA WriteStep ==
    ASSUME IInv, HandleWrite
    PROVE  IInv'
  <1>0. /\ script' = script /\ arrived' = arrived /\ in' = in /\ pc' = pc /\ got' = got
        /\ stream' = stream
    BY DEF HandleWrite, stream, wires
  <1>1. PICK n \in 1..readableBytes(out) :
           /\ received' = received \o SubSeq(unread(out), 1, n)
           /\ out' = consume(out, n)
    BY DEF HandleWrite
  <1>2. PICK u \in Seq(Byte) : u = unread(out) /\ Len(u) = readableBytes(out)
    BY BufFacts DEF IInv
  <1>3. n \in 0..readableBytes(out) /\ n \in 0..Len(u) /\ Len(u) \in Nat
    BY <1>2
  <1>4. Buf(out') /\ unread(out') = SubSeq(u, n + 1, Len(u))
    BY <1>1, <1>2, <1>3, ConsumeBuf DEF IInv
  <1>5. SubSeq(u, 1, n) \o SubSeq(u, n + 1, Len(u)) = u
    <2>1. SubSeq(u, 1, n) \o SubSeq(u, n + 1, Len(u)) = SubSeq(u, 1, Len(u))
      BY <1>3, ConcatAdjacentSubSeq
    <2> QED
      BY <2>1, SubSeqFull
  <1>6. /\ SubSeq(u, 1, n) \in Seq(Byte) /\ SubSeq(u, n + 1, Len(u)) \in Seq(Byte)
        /\ received \in Seq(Byte)
    BY <1>3 DEF IInv
  <1>7. received' \in Seq(Byte)
    BY <1>1, <1>2, <1>6
  <1>8. received' \o unread(out') = received \o unread(out)
    <2>1. PICK v \in Seq(Byte), w \in Seq(Byte) : v = SubSeq(u, 1, n) /\ w = SubSeq(u, n + 1, Len(u))
      BY <1>6
    <2>2. (received \o v) \o w = received \o (v \o w)
      BY <1>6, ConcatAssociative
    <2> QED
      BY <1>1, <1>2, <1>4, <1>5, <2>1, <2>2, Zenon
  <1>9. RepliesInOrder'
    BY <1>0, <1>8 DEF IInv, RepliesInOrder
  <1> QED
    BY <1>0, <1>4, <1>7, <1>9 DEF IInv

\* Buffers, parser and replies stay in order.
THEOREM Invariance == Spec => []IInv
  <1>1. IInv /\ [Next]_vars => IInv'
    <2> SUFFICES ASSUME IInv, [Next]_vars PROVE IInv'
      OBVIOUS
    <2>1. CASE HandleRead
      BY <2>1, ReadStep
    <2>2. CASE ParseCommand
      BY <2>2, ParseStep
    <2>3. CASE ParseDone
      BY <2>3 DEF ParseDone, IInv, RepliesInOrder, stream, wires
    <2>4. CASE HandleWrite
      BY <2>4, WriteStep
    <2>5. CASE UNCHANGED vars
      BY <2>5 DEF vars, IInv, RepliesInOrder, stream, wires
    <2> QED
      BY <2>1, <2>2, <2>3, <2>4, <2>5 DEF Next
  <1> QED
    BY <1>1, InitIInv, PTL DEF Spec

\* The cursors of both buffers stay in order and within the vector, however the network
\* cuts the streams: no read overruns the room made for it, and the parser consumes no
\* byte that has not arrived.
THEOREM TypeCorrect == Spec => []TypeOK
  <1>1. IInv => TypeOK
    <2> SUFFICES ASSUME IInv PROVE TypeOK
      OBVIOUS
    <2>1. got \in Seq(Args)
      BY SeqMonotonic DEF IInv
    <2> QED
      BY <2>1 DEF IInv, TypeOK, Buf
  <1> QED
    BY <1>1, Invariance, PTL

\* What the client has received and what still waits for it are the replies to its
\* commands, in order, none lost or repeated by a partial write or a grown buffer.
THEOREM RepliesCorrect == Spec => []RepliesInOrder
  <1>1. IInv => RepliesInOrder
    BY DEF IInv
  <1> QED
    BY <1>1, Invariance, PTL

-----------------------------------------------------------------------------
(* The commands. *)

\* The first k items have been taken from the buffer, which holds what has arrived since.
Taken(k) ==
    /\ clean(k) /\ got = meant(k)
    /\ span(k) <= arrived /\ unread(in) = SubSeq(stream, span(k) + 1, arrived)

\* The next item has not arrived in full, or is malformed.
Pending(k) == k < Len(script) => span(k + 1) > arrived \/ ~clean(k + 1)

\* The inductive invariant of the parse loop.
Parsing == \E k \in 0..Len(script) : Taken(k) /\ (pc = "wait" => Pending(k))

\* What a turn of the parse loop finds: the next item, if it has arrived and is a frame.
Found(k, r) ==
    IF r.ok
    THEN /\ k < Len(script) /\ clean(k + 1) /\ span(k + 1) <= arrived
         /\ r = Parsed(script[k + 1].args, Len(wire(script[k + 1])))
    ELSE Pending(k)

LEMMA CleanNext ==
    ASSUME NEW k \in Nat
    PROVE  clean(k + 1) <=> clean(k) /\ script[k + 1] \notin Malformed
  <1>1. \A i : i \in 1..(k + 1) <=> i \in 1..k \/ i = k + 1
    OBVIOUS
  <1> QED
    BY <1>1, Zenon DEF clean

LEMMA ParseMeans ==
    ASSUME IInv, NEW k \in 0..Len(script), Taken(k)
    PROVE  Found(k, parse(unread(in)))
  <1>0. script \in Script /\ arrived \in Nat /\ arrived <= Len(stream) /\ stream \in Seq(Byte)
    BY StreamTyped, SpanFacts DEF IInv
  <1>1. PICK n \in Nat : n = Len(script)
    BY <1>0, WiresTyped
  <1>2. k \in Nat /\ k <= n
    BY <1>1
  <1>3. PICK q \in Nat : q = span(k)
    BY <1>0, SpanFacts
  <1>4. PICK a \in Nat : a = arrived /\ q <= a /\ a <= Len(stream)
    BY <1>0, <1>3 DEF Taken
  <1>5. PICK u : u = unread(in) /\ u = SubSeq(stream, q + 1, a)
    BY <1>3, <1>4 DEF Taken
  <1>6. u \in Seq(Byte) /\ Len(u) = a - q
    BY <1>0, <1>4, <1>5
  <1>7. PICK r : r = parse(u)
    OBVIOUS
  <1>8. Found(k, r)
    <2>1. CASE ~(k < n)
      <3>1. k = n
        BY <1>2, <2>1
      <3>2. q = Len(stream)
        BY <1>0, <1>1, <1>3, <3>1, SpanFacts, Zenon
      <3>3. Len(u) = 0
        BY <1>4, <1>6, <3>2
      <3>4. u = <<>>
        BY <1>6, <3>3, EmptySeq
      <3>5. ~r.ok
        BY <1>7, <3>4 DEF parse, None
      <3> QED
        BY <1>1, <2>1, <3>5, Zenon DEF Found, Pending
    <2>2. CASE k < n
      <3>1. PICK i \in 1..n : i = k + 1 /\ i - 1 = k
        BY <1>2, <2>2
      <3>2. PICK item \in Item : item = script[i]
        BY <1>0, <1>1, WiresTyped
      <3>3. At(u, 1, wire(item))
        BY <1>0, <1>1, <1>3, <1>4, <1>5, <2>2, <3>1, <3>2, NextItemAt, Zenon
      <3>4. PICK l \in Nat : l = Len(wire(item))
        BY <1>0, <1>1, <3>2, SpanFacts
      <3>5. span(k + 1) = q + l
        BY <1>0, <1>1, <1>3, <3>1, <3>2, <3>4, SpanFacts, Zenon
      <3>6. clean(k + 1) <=> item \notin Malformed
        BY <1>2, <3>1, <3>2, CleanNext, Zenon DEF Taken
      <3>7. CASE item \in Malformed
        <4>1. ~r.ok
          BY <1>6, <1>7, <3>3, <3>7, MalformedParsed, Zenon
        <4> QED
          BY <3>6, <3>7, <4>1, Zenon DEF Found, Pending
      <3>8. CASE item \notin Malformed
        <4>1. Outcome(u, wire(item), item.args)
          BY <1>6, <3>2, <3>3, <3>8, ItemParsed
        <4>2. /\ Len(u) >= l => r = Parsed(item.args, l)
              /\ Len(u) < l => ~r.ok
          BY <1>7, <3>4, <4>1, Zenon DEF Outcome
        <4>3. CASE Len(u) >= l
          <5>1. r = Parsed(item.args, l)
            BY <4>2, <4>3
          <5>2. r.ok
            BY <5>1 DEF Parsed
          <5>3. q + l <= a
            BY <1>6, <4>3
          <5>4. span(k + 1) <= arrived
            BY <1>4, <3>5, <5>3, Zenon
          <5> QED
            BY <1>1, <2>2, <3>1, <3>2, <3>4, <3>6, <3>8, <5>1, <5>2, <5>4, Zenon DEF Found
        <4>4. CASE ~(Len(u) >= l)
          <5>1. Len(u) < l /\ q + l > a
            BY <1>6, <4>4
          <5>2. ~r.ok
            BY <4>2, <5>1
          <5>3. span(k + 1) > arrived
            BY <1>4, <3>5, <5>1, Zenon
          <5> QED
            BY <5>2, <5>3, Zenon DEF Found, Pending
        <4> QED
          BY <4>3, <4>4
      <3> QED
        BY <3>7, <3>8
    <2> QED
      BY <2>1, <2>2
  <1> QED
    BY <1>5, <1>7, <1>8, Zenon

\* At first nothing has arrived.
LEMMA InitParsing == Init => Parsing
  <1> SUFFICES ASSUME Init PROVE Parsing
    OBVIOUS
  <1>1. script \in Script /\ arrived = 0 /\ got = <<>>
    BY DEF Init
  <1>2. IInv
    BY InitIInv
  <1>3. PICK n \in Nat : n = Len(script) /\ script \in Seq(Item)
    BY <1>1, WiresTyped
  <1>4. 0 \in 0..Len(script)
    BY <1>3
  <1>5. clean(0)
    BY DEF clean
  <1>6. meant(0) = <<>>
    BY <1>3, CommandsDef DEF meant
  <1>7. span(0) = 0
    BY <1>1, SpanFacts
  <1>8. unread(in) = <<>>
    <2>1. Buf(in) /\ readableBytes(in) = 0
      BY <1>2 DEF Init, IInv, EmptyBuffer, readableBytes
    <2>2. unread(in) \in Seq(Byte) /\ Len(unread(in)) = 0
      BY <2>1, BufFacts
    <2> QED
      BY <2>2, EmptySeq
  <1>9. SubSeq(stream, span(0) + 1, arrived) = <<>>
    <2>1. stream \in Seq(Byte)
      BY <1>1, StreamTyped
    <2>2. SubSeq(stream, 0 + 1, 0) = <<>>
      BY <2>1
    <2> QED
      BY <1>1, <1>7, <2>2, Zenon
  <1>10. Taken(0)
    <2>1. span(0) <= arrived
      BY <1>1, <1>7
    <2> QED
      BY <1>1, <1>5, <1>6, <1>8, <1>9, <2>1, Zenon DEF Taken
  <1>11. Found(0, parse(unread(in)))
    BY <1>2, <1>4, <1>10, ParseMeans
  <1>12. ~parse(unread(in)).ok
    BY <1>8 DEF parse, None
  <1>13. Pending(0)
    BY <1>11, <1>12 DEF Found
  <1> QED
    BY <1>4, <1>10, <1>13 DEF Parsing

\* The items and the stream do not change with the script.
LEMMA SameScript ==
    ASSUME script' = script
    PROVE  /\ stream' = stream
           /\ \A k : /\ (clean(k))' <=> clean(k)
                     /\ (meant(k))' = meant(k)
                     /\ (span(k))' = span(k)
  <1>1. wires' = wires
    BY DEF wires
  <1> QED
    BY <1>1, Zenon DEF stream, clean, meant, span

\* What is read joins the bytes behind the items taken.
LEMMA ReadParsing ==
    ASSUME IInv, Parsing, HandleRead
    PROVE  Parsing'
  <1>0. script' = script /\ got' = got /\ pc' = "parse"
    BY DEF HandleRead
  <1>1. PICK k \in 0..Len(script) : Taken(k)
    BY DEF Parsing
  <1>2. PICK b : b = ensureWritableBytes(in, kReadBufSize)
    OBVIOUS
  <1>3. PICK n \in 1..writableBytes(b) :
           /\ arrived + n <= Len(stream)
           /\ in' = filled(b, SubSeq(stream, arrived + 1, arrived + n))
           /\ arrived' = arrived + n
    BY <1>2 DEF HandleRead
  <1>4. Buf(b) /\ unread(b) = unread(in)
    BY <1>2, EnsureBuf, ReadSizeAssumption DEF IInv
  <1>5. writableBytes(b) \in Nat
    BY <1>4, BufFacts
  <1>6. script \in Script /\ stream \in Seq(Byte) /\ Len(stream) \in Nat /\ arrived \in 0..Len(stream)
    BY StreamTyped DEF IInv
  <1>7. PICK q \in Nat : q = span(k)
    BY <1>6, SpanFacts
  <1>8. PICK a \in Nat : a = arrived /\ q <= a /\ a + n <= Len(stream)
    BY <1>1, <1>3, <1>6, <1>7 DEF Taken
  <1>9. PICK t : t = SubSeq(stream, a + 1, a + n)
    OBVIOUS
  <1>10. t \in Seq(Byte) /\ Len(t) = n /\ n <= writableBytes(b)
    BY <1>5, <1>6, <1>8, <1>9
  <1>11. unread(in') = unread(in) \o t
    <2>1. in' = filled(b, t)
      BY <1>3, <1>8, <1>9, Zenon
    <2>2. Len(t) <= writableBytes(b)
      BY <1>10
    <2> QED
      BY <1>4, <1>10, <2>1, <2>2, FilledBuf, Zenon
  <1>12. unread(in) = SubSeq(stream, q + 1, a)
    BY <1>1, <1>7, <1>8 DEF Taken
  <1>13. SubSeq(stream, q + 1, a) \o SubSeq(stream, a + 1, a + n) = SubSeq(stream, q + 1, a + n)
    <2>1. q + 1 \in 1..(Len(stream) + 1) /\ a \in q..Len(stream) /\ a + n \in a..Len(stream)
      BY <1>5, <1>6, <1>8
    <2> QED
      BY <1>6, <1>8, <2>1, ConcatAdjacentSubSeq
  <1>14. unread(in') = SubSeq(stream, q + 1, a + n)
    BY <1>9, <1>11, <1>12, <1>13, Zenon
  <1>15. q <= a + n
    BY <1>5, <1>8
  <1>16. (Taken(k))'
    BY <1>0, <1>1, <1>3, <1>7, <1>8, <1>14, <1>15, SameScript, Zenon DEF Taken
  <1> QED
    BY <1>0, <1>1, <1>16, Zenon DEF Parsing

\* A part of a part.
LEMMA CutCut ==
    ASSUME NEW d \in Seq(Byte), NEW q \in Nat, NEW l \in Nat, NEW a \in Nat, a <= Len(d), q + l <= a
    PROVE  SubSeq(SubSeq(d, q + 1, a), l + 1, a - q) = SubSeq(d, (q + l) + 1, a)
  <1>1. PICK u : u = SubSeq(d, q + 1, a)
    OBVIOUS
  <1>2. PICK n \in Nat, m \in Nat : n = a - q /\ m = n - l /\ a = (q + l) + m
    OBVIOUS
  <1>3. u \in Seq(Byte) /\ Len(u) = n /\ \A j \in 1..n : u[j] = d[q + j]
    BY <1>1, <1>2
  <1>4. PICK x, y : x = SubSeq(u, l + 1, n) /\ y = SubSeq(d, (q + l) + 1, a)
    OBVIOUS
  <1>5. x \in Seq(Byte) /\ Len(x) = m /\ \A j \in 1..m : x[j] = u[l + j]
    <2>1. l + m = n /\ l + 1 \in 1..(n + 1) /\ n \in l..n
      BY <1>2
    <2>2. Len(x) = m
      BY <1>2, <1>3, <1>4
    <2>3. \A j \in 1..m : x[j] = u[(l + 1) + j - 1]
      BY <1>2, <1>3, <1>4, <2>1
    <2>4. \A j \in 1..m : (l + 1) + j - 1 = l + j
      OBVIOUS
    <2>5. x \in Seq(Byte)
      BY <1>2, <1>3, <1>4
    <2> QED
      BY <2>2, <2>3, <2>4, <2>5, Zenon
  <1>6. y \in Seq(Byte) /\ Len(y) = m /\ \A j \in 1..m : y[j] = d[(q + l) + j]
    BY <1>2, <1>4
  <1>7. \A j \in 1..m : l + j \in 1..n /\ q + (l + j) = (q + l) + j
    BY <1>2
  <1>8. \A j \in 1..m : x[j] = y[j]
    BY <1>3, <1>5, <1>6, <1>7, Zenon
  <1>9. x = y
    BY <1>5, <1>6, <1>8, SeqEqual
  <1> QED
    BY <1>1, <1>2, <1>4, <1>9, Zenon

\* A turn of the parse loop takes the next item, and its command if there is one.
LEMMA TurnParsing ==
    ASSUME IInv, Parsing, ParseCommand
    PROVE  Parsing'
  <1>0. script' = script /\ arrived' = arrived /\ pc' = "parse"
    BY DEF ParseCommand
  <1>1. PICK k \in 0..Len(script) : Taken(k)
    BY DEF Parsing
  <1>2. PICK r : r = parse(unread(in))
    OBVIOUS
  <1>3. /\ r.ok /\ in' = consume(in, r.bytesConsumed)
        /\ IF r.args = <<>> THEN got' = got ELSE got' = Append(got, r.args)
    BY <1>2 DEF ParseCommand
  <1>4. Found(k, r)
    BY <1>1, <1>2, ParseMeans, Zenon
  <1>5. /\ k < Len(script) /\ clean(k + 1) /\ span(k + 1) <= arrived
        /\ r = Parsed(script[k + 1].args, Len(wire(script[k + 1])))
    BY <1>3, <1>4, Zenon DEF Found
  <1>6. script \in Script /\ stream \in Seq(Byte) /\ Len(stream) \in Nat /\ arrived \in 0..Len(stream)
    BY StreamTyped DEF IInv
  <1>7. PICK n \in Nat : n = Len(script) /\ script \in Seq(Item)
    BY <1>6, WiresTyped
  <1>8. PICK i \in 1..n : i = k + 1 /\ i - 1 = k /\ i \in 0..n
    BY <1>5, <1>7
  <1>9. PICK q \in Nat : q = span(k)
    BY <1>6, SpanFacts
  <1>10. PICK l \in Nat : l = Len(wire(script[i]))
    BY <1>6, <1>7, SpanFacts
  <1>11. span(i) = q + l
    BY <1>6, <1>7, <1>8, <1>9, <1>10, SpanFacts, Zenon
  <1>12. PICK a \in Nat : a = arrived /\ a <= Len(stream)
    BY <1>6
  <1>13. q + l <= a
    BY <1>5, <1>8, <1>11, <1>12, Zenon
  <1>14. r.args = script[i].args /\ r.bytesConsumed = l
    BY <1>5, <1>8, <1>10 DEF Parsed
  <1>15. got' = meant(i)
    <2>1. meant(i) = withCommand(meant(k), script[i].args)
      BY <1>7, <1>8, CommandsDef, Zenon DEF meant
    <2>2. got = meant(k)
      BY <1>1 DEF Taken
    <2> QED
      BY <1>3, <1>14, <2>1, <2>2, Zenon DEF withCommand
  <1>16. unread(in) = SubSeq(stream, q + 1, a)
    BY <1>1, <1>9, <1>12, Zenon DEF Taken
  <1>17. unread(in') = SubSeq(stream, (q + l) + 1, a)
    <2>1. PICK u : u = unread(in)
      OBVIOUS
    <2>2. u \in Seq(Byte) /\ Len(u) = a - q
      <3>1. u = SubSeq(stream, q + 1, a)
        BY <1>16, <2>1
      <3> QED
        BY <1>6, <1>12, <1>13, <3>1
    <2>3. Len(u) = readableBytes(in) /\ Buf(in)
      BY <2>1, BufFacts DEF IInv
    <2>4. readableBytes(in) = a - q /\ l \in 0..(a - q)
      BY <1>13, <2>2, <2>3
    <2>5. unread(consume(in, l)) = SubSeq(u, l + 1, a - q)
      BY <2>1, <2>3, <2>4, ConsumeBuf, Zenon
    <2>6. SubSeq(u, l + 1, a - q) = SubSeq(stream, (q + l) + 1, a)
      <3>1. SubSeq(SubSeq(stream, q + 1, a), l + 1, a - q) = SubSeq(stream, (q + l) + 1, a)
        BY <1>6, <1>12, <1>13, CutCut
      <3> QED
        BY <1>16, <2>1, <3>1
    <2> QED
      BY <1>3, <1>14, <2>5, <2>6, Zenon
  <1>18. (Taken(i))'
    <2>1. clean(i) /\ span(i) <= arrived
      BY <1>5, <1>8, Zenon
    <2> QED
      BY <1>0, <1>11, <1>12, <1>15, <1>17, <2>1, SameScript, Zenon DEF Taken
  <1> QED
    BY <1>0, <1>7, <1>8, <1>18, Zenon DEF Parsing

\* Where the loop stops, the next item has not arrived or is malformed.
LEMMA DoneParsing ==
    ASSUME IInv, Parsing, ParseDone
    PROVE  Parsing'
  <1>0. /\ script' = script /\ arrived' = arrived /\ in' = in /\ got' = got
        /\ ~parse(unread(in)).ok
    BY DEF ParseDone
  <1>1. PICK k \in 0..Len(script) : Taken(k)
    BY DEF Parsing
  <1>2. Pending(k)
    BY <1>0, <1>1, ParseMeans, Zenon DEF Found
  <1>3. (Taken(k))' /\ (Pending(k))'
    BY <1>0, <1>1, <1>2, SameScript, Zenon DEF Taken, Pending
  <1> QED
    BY <1>0, <1>1, <1>3, Zenon DEF Parsing

\* Writing disturbs nothing of it.
LEMMA OtherParsing ==
    ASSUME Parsing, UNCHANGED <<script, arrived, in, pc, got>>
    PROVE  Parsing'
  <1>0. script' = script /\ arrived' = arrived /\ in' = in /\ got' = got /\ pc' = pc
    OBVIOUS
  <1>1. PICK k \in 0..Len(script) : Taken(k) /\ (pc = "wait" => Pending(k))
    BY DEF Parsing
  <1>2. (Taken(k))' /\ (pc = "wait" => (Pending(k))')
    BY <1>0, <1>1, SameScript, Zenon DEF Taken, Pending
  <1> QED
    BY <1>0, <1>1, <1>2, Zenon DEF Parsing

\* The last item of which the first n bytes hold the last byte, up to a malformed frame.
LastWhole(k, n) ==
    /\ clean(k) /\ span(k) <= n
    /\ k < Len(script) => span(k + 1) > n \/ ~clean(k + 1)

LEMMA CleanLess ==
    ASSUME NEW k \in Nat, clean(k), NEW j \in 0..k
    PROVE  clean(j)
  <1>1. \A i \in 1..j : i \in 1..k
    OBVIOUS
  <1> QED
    BY <1>1, Zenon DEF clean

\* There is but one last item.
LEMMA LastOne ==
    ASSUME script \in Script, NEW n \in Nat, NEW k \in 0..Len(script), LastWhole(k, n),
           NEW h \in 0..Len(script), LastWhole(h, n)
    PROVE  ~(k < h)
  <1>1. PICK m \in Nat : m = Len(script)
    BY WiresTyped
  <1>2. k \in Nat /\ h \in Nat /\ h <= m
    BY <1>1
  <1> SUFFICES ASSUME k < h PROVE FALSE
    OBVIOUS
  <1>3. k < m /\ k + 1 \in 0..h /\ k + 1 \in 0..m /\ h \in (k + 1)..m
    BY <1>2
  <1>4. clean(k + 1)
    BY <1>2, <1>3, CleanLess DEF LastWhole
  <1>5. span(k + 1) > n
    BY <1>1, <1>3, <1>4 DEF LastWhole
  <1>6. span(k + 1) \in Nat /\ span(h) \in Nat /\ span(k + 1) <= span(h)
    BY <1>1, <1>3, SpanFacts
  <1>7. span(h) <= n
    BY DEF LastWhole
  <1> QED
    BY <1>5, <1>6, <1>7

\* So the commands that have arrived in full are those up to it.
LEMMA CompleteIs ==
    ASSUME script \in Script, NEW n \in Nat, NEW k \in 0..Len(script), LastWhole(k, n)
    PROVE  complete(n) = meant(k)
  <1>1. PICK h : h = CHOOSE j \in 0..Len(script) : LastWhole(j, n)
    OBVIOUS
  <1>2. h \in 0..Len(script) /\ LastWhole(h, n)
    BY <1>1
  <1>3. ~(k < h) /\ ~(h < k)
    BY <1>2, LastOne
  <1>4. h = k
    <2>1. PICK m \in Nat : m = Len(script)
      BY WiresTyped
    <2> QED
      BY <1>2, <1>3, <2>1
  <1>5. complete(n) = meant(h)
    BY <1>1, Zenon DEF complete, LastWhole
  <1> QED
    BY <1>4, <1>5

\* And there is one, at or behind any item that has arrived in full.
LEMMA LastExists ==
    ASSUME script \in Script, NEW n \in Nat, NEW k \in 0..Len(script), clean(k), span(k) <= n
    PROVE  \E h \in 0..Len(script) : k <= h /\ LastWhole(h, n)
  <1> SUFFICES ASSUME \A h \in 0..Len(script) : k <= h => ~LastWhole(h, n) PROVE FALSE
    OBVIOUS
  <1>1. PICK m \in Nat : m = Len(script)
    BY WiresTyped
  <1> DEFINE Arrived(j) == clean(j) /\ span(j) <= n
             T == {j \in 0..m : j >= k => Arrived(j)}
  <1>2. 0 \in T
    <2>1. Arrived(k)
      OBVIOUS
    <2> HIDE DEF Arrived
    <2>2. 0 >= k => k = 0
      BY <1>1
    <2> QED
      BY <2>1, <2>2
  <1>3. ASSUME NEW j \in 1..m, j - 1 \in T PROVE j \in T
    <2>0. SUFFICES ASSUME j >= k PROVE Arrived(j)
      OBVIOUS
    <2>1. CASE j = k
      BY <2>1
    <2>2. CASE j # k
      <3>1. PICK i \in 0..m : i = j - 1 /\ i + 1 = j /\ i < m /\ i >= k /\ k <= i
        BY <1>1, <2>0, <2>2
      <3>2. clean(i) /\ span(i) <= n
        BY <1>3, <3>1
      <3>3. ~LastWhole(i, n)
        BY <1>1, <3>1, Zenon
      <3>4. ~(span(j) > n) /\ clean(j)
        BY <1>1, <3>1, <3>2, <3>3, Zenon DEF LastWhole
      <3>5. span(j) \in Nat
        BY <1>1, SpanFacts
      <3> QED
        BY <3>4, <3>5
    <2> QED
      BY <2>1, <2>2
  <1> HIDE DEF T
  <1>4. m \in T
    <2>1. \A j \in 0..m : j \in T
      BY <1>2, <1>3, UpTo
    <2> QED
      BY <2>1
  <1>5. m \in 0..Len(script) /\ k <= m /\ m >= k /\ ~(m < Len(script))
    BY <1>1
  <1>6. clean(m) /\ span(m) <= n
    BY <1>4, <1>5 DEF T
  <1>7. LastWhole(m, n)
    BY <1>5, <1>6, Zenon DEF LastWhole
  <1> QED
    BY <1>5, <1>7

LEMMA ParsingExact == IInv /\ Parsing => CommandsExact
  <1> SUFFICES ASSUME IInv, Parsing PROVE CommandsExact
    OBVIOUS
  <1>1. PICK k \in 0..Len(script) : Taken(k) /\ (pc = "wait" => Pending(k))
    BY DEF Parsing
  <1>2. script \in Script /\ arrived \in Nat
    BY StreamTyped DEF IInv
  <1>3. clean(k) /\ span(k) <= arrived /\ got = meant(k)
    BY <1>1, Zenon DEF Taken
  <1>4. CASE pc = "wait"
    <2>1. LastWhole(k, arrived)
      BY <1>1, <1>3, <1>4, Zenon DEF LastWhole, Pending
    <2> QED
      BY <1>2, <1>3, <1>4, <2>1, CompleteIs, Zenon DEF CommandsExact
  <1>5. CASE pc # "wait"
    <2>1. PICK h \in 0..Len(script) : k <= h /\ LastWhole(h, arrived)
      BY <1>2, <1>3, LastExists, Zenon
    <2>2. complete(arrived) = meant(h)
      BY <1>2, <2>1, CompleteIs, Zenon
    <2>3. IsPrefix(meant(k), meant(h))
      BY <1>2, <2>1, MeantGrows, Zenon
    <2> QED
      BY <1>3, <1>5, <2>2, <2>3, Zenon DEF CommandsExact
  <1> QED
    BY <1>4, <1>5

\* However the network cuts the stream, what has been dispatched when the parse loop stops
\* is exactly the commands that have arrived in full, up to a malformed frame: none early,
\* twice or altered, and none left in the buffer for an event that may never come.
THEOREM CommandsCorrect == Spec => []CommandsExact
  <1>1. IInv /\ Parsing /\ [Next]_vars => Parsing'
    <2> SUFFICES ASSUME IInv, Parsing, [Next]_vars PROVE Parsing'
      OBVIOUS
    <2>1. CASE HandleRead
      BY <2>1, ReadParsing
    <2>2. CASE ParseCommand
      BY <2>2, TurnParsing
    <2>3. CASE ParseDone
      BY <2>3, DoneParsing
    <2>4. CASE HandleWrite
      <3>1. UNCHANGED <<script, arrived, in, pc, got>>
        BY <2>4 DEF HandleWrite
      <3> QED
        BY <3>1, OtherParsing
    <2>5. CASE UNCHANGED vars
      <3>1. UNCHANGED <<script, arrived, in, pc, got>>
        BY <2>5 DEF vars
      <3> QED
        BY <3>1, OtherParsing
    <2> QED
      BY <2>1, <2>2, <2>3, <2>4, <2>5 DEF Next
  <1> QED
    BY <1>1, Invariance, InitParsing, ParsingExact, PTL DEF Spec
=============================================================================
