----------------------------- MODULE AofProofs -----------------------------
(***************************************************************************)
(* The append-only file replays to the keyspace, before, during and after  *)
(* a rewrite, and a power loss takes away nothing that was synced: for any *)
(* keys and commands, any length of the file, and any interleaving of      *)
(* clients, child, timer, crashes and restarts.                            *)
(***************************************************************************)
EXTENDS Aof, NatLemmas

-----------------------------------------------------------------------------
(* Commands and keyspaces. *)

\* What a file holds: the commands of clients, the child's, which may have several
\* arguments, and what is left of one.
Command ==
    [op : {"SET", "RPUSH", "LPUSH"}, key : Key, args : Seq(Elem)]
      \cup [op : {"DEL", "PEXPIRE"}, key : Key]
      \cup {[op |-> "FLUSHDB"]}

Frame == Command \cup {Torn}

\* The values commands leave.
Stored == [type : {"STRING", "LIST"}, items : Seq(Elem), ttl : BOOLEAN]
Good == Stored \cup {Missing}

LEMMA CommandFacts ==
    ASSUME NEW c \in Command
    PROVE  /\ c # Torn
           /\ c.op \in {"SET", "RPUSH", "LPUSH", "DEL", "PEXPIRE", "FLUSHDB"}
           /\ c.op # "FLUSHDB" => c.key \in Key
           /\ c.op \in {"SET", "RPUSH", "LPUSH"} => c.args \in Seq(Elem)
  BY DEF Command, Torn

LEMMA ClientCommands == Cmd \subseteq Command
  <1>1. \A x \in Elem : <<x>> \in Seq(Elem)
    OBVIOUS
  <1>2. WriteCommand \subseteq Command
    BY <1>1 DEF WriteCommand, Command
  <1> QED
    BY <1>2, CmdAssumption

LEMMA GoodFacts ==
    /\ Missing \in Good /\ Missing.type = "none" /\ Missing.items = <<>> /\ Missing.ttl = FALSE
    /\ \A v \in Good : v \in Value
    /\ \A v \in Stored : v # Missing
    /\ EmptyDb \in [Key -> Good]
  <1>1. <<>> \in Seq(Elem)
    OBVIOUS
  <1>2. Missing \in Value /\ Missing.type = "none" /\ Missing.items = <<>> /\ Missing.ttl = FALSE
    BY <1>1 DEF Missing, Value
  <1>3. \A v \in Stored : v.type # "none" /\ v \in Value
    BY DEF Stored, Value
  <1>4. Missing \in Good
    BY DEF Good
  <1>5. EmptyDb \in [Key -> Good]
    BY <1>4 DEF EmptyDb
  <1> QED
    BY <1>2, <1>3, <1>4, <1>5 DEF Good

\* Every command leaves a keyspace.
LEMMA ApplyType ==
    ASSUME NEW d \in [Key -> Good], NEW c \in Command
    PROVE  apply(d, c) \in [Key -> Good]
  <1> DEFINE k == c.key
  <1>1. CASE wrongType(d, c)
    BY <1>1 DEF apply, cmdRPush, cmdLPush, wrongType
  <1>2. CASE ~wrongType(d, c) /\ c.op = "SET"
    <2>1. [type |-> "STRING", items |-> c.args, ttl |-> FALSE] \in Good
      BY <1>2, CommandFacts DEF Good, Stored
    <2> QED
      BY <1>2, <2>1 DEF apply, cmdSet
  <1>3. CASE ~wrongType(d, c) /\ c.op \in {"RPUSH", "LPUSH"}
    <2>1. k \in Key /\ c.args \in Seq(Elem) /\ d[k].items \in Seq(Elem) /\ d[k].ttl \in BOOLEAN
      <3>1. k \in Key /\ c.args \in Seq(Elem) /\ d[k] \in Good
        BY <1>3, CommandFacts
      <3>2. CASE d[k] \in Stored
        BY <3>1, <3>2 DEF Stored
      <3>3. CASE d[k] = Missing
        <4>1. <<>> \in Seq(Elem)
          OBVIOUS
        <4> QED
          BY <3>1, <3>3, <4>1 DEF Missing
      <3> QED
        BY <3>1, <3>2, <3>3 DEF Good
    <2>2. Reverse(c.args) \in Seq(Elem)
      BY <2>1 DEF Reverse
    <2>3. d[k].items \o c.args \in Seq(Elem) /\ Reverse(c.args) \o d[k].items \in Seq(Elem)
      BY <2>1, <2>2
    <2>4. \A i \in Seq(Elem) : [type |-> "LIST", items |-> i, ttl |-> d[k].ttl] \in Good
      BY <2>1 DEF Good, Stored
    <2> QED
      BY <1>3, <2>3, <2>4 DEF apply, cmdRPush, cmdLPush
  <1>4. CASE ~wrongType(d, c) /\ c.op = "DEL"
    BY <1>4, GoodFacts DEF apply, cmdDel
  <1>5. CASE ~wrongType(d, c) /\ c.op = "PEXPIRE"
    <2>1. k \in Key /\ d[k] \in Good
      BY <1>5, CommandFacts
    <2>2. [type |-> d[k].type, items |-> d[k].items, ttl |-> d[k].ttl \/ d[k] # Missing] \in Good
      <3>1. CASE d[k] = Missing
        BY <3>1, GoodFacts DEF Missing
      <3>2. CASE d[k] \in Stored
        BY <3>2 DEF Good, Stored
      <3> QED
        BY <2>1, <3>1, <3>2 DEF Good
    <2> QED
      BY <1>5, <2>1, <2>2 DEF apply, cmdPexpire
  <1>6. CASE ~wrongType(d, c) /\ c.op = "FLUSHDB"
    BY <1>6, GoodFacts DEF apply
  <1> QED
    BY <1>1, <1>2, <1>3, <1>4, <1>5, <1>6, CommandFacts

-----------------------------------------------------------------------------
(* Loading.  A recursive function exists on 0..m for every m: the least m for *)
(* which it did not could be extended from m - 1.                             *)

\* loaded is what its recursive definition says.
LEMMA LoadedDef ==
    ASSUME NEW f \in Seq(Frame)
    PROVE  loaded(f) = [n \in 0..Len(f) |->
                          IF n = 0 THEN EmptyDb
                          ELSE IF \E i \in 1..n : f[i] = Torn THEN loaded(f)[n - 1]
                          ELSE apply(loaded(f)[n - 1], f[n])]
  <1> DEFINE val(d, n) == IF n = 0 THEN EmptyDb
                          ELSE IF \E i \in 1..n : f[i] = Torn THEN d[n - 1]
                          ELSE apply(d[n - 1], f[n])
             Runs(m) == \E d : d = [n \in 0..m |-> val(d, n)]
             bad == {m \in Nat : ~ Runs(m)}
  <1>1. ASSUME NEW n \in Nat, NEW d, NEW e, n > 0 => d[n - 1] = e[n - 1]
        PROVE  val(d, n) = val(e, n)
    BY <1>1
  <1>2. ASSUME bad # {} PROVE FALSE
    <2>1. PICK m \in bad : \A y \in bad : m <= y
      BY <1>2, LeastNat
    <2>2. CASE m = 0
      <3>1. [n \in 0..0 |-> EmptyDb] = [n \in 0..0 |-> val([i \in 0..0 |-> EmptyDb], n)]
        OBVIOUS
      <3> QED
        BY <2>1, <2>2, <3>1
    <2>3. CASE m # 0
      <3> HIDE DEF Runs
      <3>1. m - 1 \in Nat /\ m - 1 \notin bad
        BY <2>1, <2>3
      <3>2. Runs(m - 1)
        BY <3>1
      <3>3. PICK d : d = [n \in 0..(m - 1) |-> val(d, n)]
        BY <3>2 DEF Runs
      <3> HIDE DEF val
      <3> DEFINE e == [n \in 0..m |-> IF n < m THEN d[n] ELSE val(d, n)]
      <3>4. ASSUME NEW n \in 0..m PROVE e[n] = val(e, n)
        <4>1. n > 0 => d[n - 1] = e[n - 1]
          BY <2>1
        <4>2. val(d, n) = val(e, n)
          BY <4>1, <1>1
        <4>3. CASE n < m
          <5>1. e[n] = d[n] /\ d[n] = val(d, n)
            BY <4>3, <3>3, <2>1
          <5> QED
            BY <5>1, <4>2
        <4>4. CASE n = m
          BY <4>4, <4>2
        <4> QED
          BY <4>3, <4>4, <2>1
      <3>5. DOMAIN e = 0..m /\ e = [n \in DOMAIN e |-> e[n]]
        OBVIOUS
      <3> HIDE DEF e
      <3>6. e = [n \in 0..m |-> val(e, n)]
        BY <3>4, <3>5
      <3> QED
        BY <3>6, <2>1 DEF Runs
    <2> QED
      BY <2>2, <2>3
  <1>3. Runs(Len(f))
    BY <1>2
  <1>4. loaded(f) = [n \in 0..Len(f) |-> val(loaded(f), n)]
    BY <1>3 DEF loaded
  <1> QED
    BY <1>4

LEMMA LoadedSteps ==
    ASSUME NEW f \in Seq(Frame)
    PROVE  /\ loaded(f)[0] = EmptyDb
           /\ \A n \in 1..Len(f) :
                 loaded(f)[n] = IF \E i \in 1..n : f[i] = Torn THEN loaded(f)[n - 1]
                                ELSE apply(loaded(f)[n - 1], f[n])
  <1> DEFINE L == loaded(f)
  <1>1. L = [n \in 0..Len(f) |->
               IF n = 0 THEN EmptyDb
               ELSE IF \E i \in 1..n : f[i] = Torn THEN L[n - 1] ELSE apply(L[n - 1], f[n])]
    BY LoadedDef
  <1> HIDE DEF L
  <1>2. L[0] = EmptyDb
    BY <1>1
  <1>3. ASSUME NEW n \in 1..Len(f)
        PROVE  L[n] = IF \E i \in 1..n : f[i] = Torn THEN L[n - 1] ELSE apply(L[n - 1], f[n])
    BY <1>1
  <1> QED
    BY <1>2, <1>3 DEF L

\* Every keyspace on the way is one.
LEMMA LoadedType ==
    ASSUME NEW f \in Seq(Frame), NEW n \in 0..Len(f)
    PROVE  loaded(f)[n] \in [Key -> Good]
  <1> DEFINE L == loaded(f)
             bad == {m \in 0..Len(f) : L[m] \notin [Key -> Good]}
  <1>1. SUFFICES ASSUME bad # {} PROVE FALSE
    OBVIOUS
  <1>2. PICK m \in bad : \A y \in bad : m <= y
    <2>1. bad \in SUBSET Nat
      OBVIOUS
    <2> HIDE DEF bad
    <2> QED
      BY <1>1, <2>1, LeastNat
  <1>3. L[0] \in [Key -> Good]
    BY LoadedSteps, GoodFacts
  <1>4. m \in 1..Len(f) /\ m - 1 \in 0..Len(f) /\ m - 1 \notin bad
    BY <1>2, <1>3
  <1>5. L[m - 1] \in [Key -> Good]
    BY <1>4
  <1>6. CASE \E i \in 1..m : f[i] = Torn
    BY <1>2, <1>4, <1>5, <1>6, LoadedSteps
  <1>7. CASE ~ \E i \in 1..m : f[i] = Torn
    <2>1. f[m] \in Command
      BY <1>4, <1>7 DEF Frame
    <2>2. apply(L[m - 1], f[m]) \in [Key -> Good]
      BY <2>1, <1>5, ApplyType
    <2> QED
      BY <1>2, <1>4, <1>7, <2>2, LoadedSteps
  <1> QED
    BY <1>6, <1>7

\* What has been loaded depends on the frames read so far only.
LEMMA LoadedPrefix ==
    ASSUME NEW f \in Seq(Frame), NEW g \in Seq(Frame), NEW m \in Nat,
           m <= Len(f), m <= Len(g), \A i \in 1..m : f[i] = g[i],
           NEW n \in 0..m
    PROVE  loaded(f)[n] = loaded(g)[n]
  <1> DEFINE bad == {k \in 0..m : loaded(f)[k] # loaded(g)[k]}
  <1>1. SUFFICES ASSUME bad # {} PROVE FALSE
    OBVIOUS
  <1>2. PICK k \in bad : \A y \in bad : k <= y
    <2>1. bad \in SUBSET Nat
      OBVIOUS
    <2> HIDE DEF bad
    <2> QED
      BY <1>1, <2>1, LeastNat
  <1>3. loaded(f)[0] = loaded(g)[0]
    BY LoadedSteps
  <1>4. k \in 1..m /\ k - 1 \in 0..m /\ k - 1 \notin bad
    BY <1>2, <1>3
  <1>5. loaded(f)[k - 1] = loaded(g)[k - 1] /\ f[k] = g[k]
    BY <1>4
  <1>6. (\E i \in 1..k : f[i] = Torn) <=> (\E i \in 1..k : g[i] = Torn)
    BY <1>4
  <1>7. k \in 1..Len(f) /\ k \in 1..Len(g)
    BY <1>4
  <1> QED
    BY <1>2, <1>5, <1>6, <1>7, LoadedSteps

\* What a power loss leaves of a file loads as far as it goes.
LEMMA ReplayPrefix ==
    ASSUME NEW f \in Seq(Frame), NEW n \in 0..Len(f)
    PROVE  /\ SubSeq(f, 1, n) \in Seq(Frame)
           /\ Len(SubSeq(f, 1, n)) = n
           /\ replay(SubSeq(f, 1, n)) = loaded(f)[n]
  <1> DEFINE g == SubSeq(f, 1, n)
  <1>1. g \in Seq(Frame) /\ Len(g) = n /\ \A i \in 1..n : g[i] = f[i]
    OBVIOUS
  <1> HIDE DEF g
  <1>2. loaded(g)[n] = loaded(f)[n]
    BY <1>1, LoadedPrefix
  <1> QED
    BY <1>1, <1>2 DEF replay, g

LEMMA ReplayType ==
    ASSUME NEW f \in Seq(Frame)
    PROVE  replay(f) \in [Key -> Good]
  BY LoadedType DEF replay

LEMMA ReplayEmpty == replay(<<>>) = EmptyDb
  <1>1. <<>> \in Seq(Frame) /\ Len(<<>>) = 0
    OBVIOUS
  <1> QED
    BY <1>1, LoadedSteps DEF replay

\* A frame more is a command more, unless the parser has given up before.
LEMMA ReplayAppend ==
    ASSUME NEW f \in Seq(Frame), NEW c \in Command, \A i \in 1..Len(f) : f[i] # Torn
    PROVE  replay(Append(f, c)) = apply(replay(f), c)
  <1> DEFINE g == Append(f, c)
  <1>1. g \in Seq(Frame) /\ Len(g) = Len(f) + 1 /\ g[Len(f) + 1] = c
        /\ (\A i \in 1..Len(f) : g[i] = f[i]) /\ Len(f) \in Nat
    BY DEF Frame
  <1> HIDE DEF g
  <1>2. ~ \E i \in 1..(Len(f) + 1) : g[i] = Torn
    BY <1>1, CommandFacts
  <1>3. loaded(g)[Len(f)] = loaded(f)[Len(f)]
    BY <1>1, LoadedPrefix
  <1>4. loaded(g)[Len(f) + 1] = apply(loaded(g)[Len(f)], c)
    BY <1>1, <1>2, LoadedSteps
  <1> QED
    BY <1>1, <1>3, <1>4 DEF replay, g

\* The same for files without a torn frame, as the child's is.
LEMMA CommandsOnly ==
    ASSUME NEW f \in Seq(Command), NEW c \in Command
    PROVE  /\ f \in Seq(Frame) /\ Append(f, c) \in Seq(Command)
           /\ replay(Append(f, c)) = apply(replay(f), c)
  <1>1. f \in Seq(Frame) /\ Append(f, c) \in Seq(Command)
    BY DEF Frame
  <1>2. \A i \in 1..Len(f) : f[i] # Torn
    BY CommandFacts
  <1> QED
    BY <1>1, <1>2, ReplayAppend

-----------------------------------------------------------------------------
(* Writing. *)

\* allWritten is what its recursive definition says: there is a sequence of sets of
\* files of which it is the last.
LEMMA AllWrittenDef ==
    ASSUME NEW f \in Seq(Frame), NEW more \in Seq(Command)
    PROVE  \E files :
             /\ files[0] = {f}
             /\ \A n \in 1..Len(more) :
                   files[n] = writtenAny(files[n - 1], more[n])
             /\ allWritten(f, more) = files[Len(more)]
  <1> DEFINE val(d, n) == IF n = 0 THEN {f} ELSE writtenAny(d[n - 1], more[n])
             Runs(m) == \E d : d = [n \in 0..m |-> val(d, n)]
             bad == {m \in Nat : ~ Runs(m)}
  <1>1. ASSUME NEW n \in Nat, NEW d, NEW e, n > 0 => d[n - 1] = e[n - 1]
        PROVE  val(d, n) = val(e, n)
    BY <1>1
  <1>2. ASSUME bad # {} PROVE FALSE
    <2>1. PICK m \in bad : \A y \in bad : m <= y
      BY <1>2, LeastNat
    <2>2. CASE m = 0
      <3>1. [n \in 0..0 |-> {f}] = [n \in 0..0 |-> val([i \in 0..0 |-> {f}], n)]
        OBVIOUS
      <3> QED
        BY <2>1, <2>2, <3>1
    <2>3. CASE m # 0
      <3> HIDE DEF Runs
      <3>1. m - 1 \in Nat /\ m - 1 \notin bad
        BY <2>1, <2>3
      <3>2. Runs(m - 1)
        BY <3>1
      <3>3. PICK d : d = [n \in 0..(m - 1) |-> val(d, n)]
        BY <3>2 DEF Runs
      <3> HIDE DEF val
      <3> DEFINE e == [n \in 0..m |-> IF n < m THEN d[n] ELSE val(d, n)]
      <3>4. ASSUME NEW n \in 0..m PROVE e[n] = val(e, n)
        <4>1. n > 0 => d[n - 1] = e[n - 1]
          BY <2>1
        <4> n \in Nat
          BY <2>1
        <4> HIDE DEF e
        <4>2. val(d, n) = val(e, n)
          BY <4>1, <1>1
        <4> USE DEF e
        <4>3. CASE n < m
          <5>1. e[n] = d[n] /\ d[n] = val(d, n)
            BY <4>3, <3>3, <2>1
          <5> QED
            BY <5>1, <4>2
        <4>4. CASE n = m
          BY <4>4, <4>2
        <4> QED
          BY <4>3, <4>4, <2>1
      <3>5. DOMAIN e = 0..m /\ e = [n \in DOMAIN e |-> e[n]]
        OBVIOUS
      <3> HIDE DEF e
      <3>6. e = [n \in 0..m |-> val(e, n)]
        BY <3>4, <3>5
      <3> QED
        BY <3>6, <2>1 DEF Runs
    <2> QED
      BY <2>2, <2>3
  <1>3. Runs(Len(more))
    <2> HIDE DEF Runs
    <2>1. Len(more) \in Nat /\ Len(more) \notin bad
      BY <1>2
    <2> QED
      BY <2>1
  <1> DEFINE F == CHOOSE d : d = [n \in 0..Len(more) |-> val(d, n)]
  <1>4. allWritten(f, more) = F[Len(more)]
    BY DEF allWritten
  <1>5. F = [n \in 0..Len(more) |-> val(F, n)]
    BY <1>3
  <1> HIDE DEF F
  <1>6. F[0] = {f}
    BY <1>5
  <1>7. ASSUME NEW n \in 1..Len(more)
        PROVE  F[n] = writtenAny(F[n - 1], more[n])
    <2>1. n \in 0..Len(more) /\ n # 0
      OBVIOUS
    <2> HIDE DEF val
    <2>2. F[n] = val(F, n)
      BY <1>5, <2>1
    <2> QED
      BY <2>1, <2>2 DEF val
  <1> QED
    BY <1>4, <1>6, <1>7

LEMMA WrittenType ==
    ASSUME NEW g \in Seq(Frame), NEW c \in Command
    PROVE  /\ written(g, c) \subseteq Seq(Frame)
           /\ ~May("write") => written(g, c) = {Append(g, c)}
  <1>1. c \in Frame /\ Torn \in Frame
    BY DEF Frame
  <1>2. Append(g, c) \in Seq(Frame) /\ Append(g, Torn) \in Seq(Frame)
    BY <1>1
  <1> QED
    BY <1>2 DEF written

\* Files stay files.
LEMMA AllWrittenType ==
    ASSUME NEW f \in Seq(Frame), NEW more \in Seq(Command)
    PROVE  allWritten(f, more) \subseteq Seq(Frame)
  <1>1. PICK files :
          /\ files[0] = {f}
          /\ \A n \in 1..Len(more) : files[n] = writtenAny(files[n - 1], more[n])
          /\ allWritten(f, more) = files[Len(more)]
    BY AllWrittenDef
  <1> DEFINE bad == {m \in 0..Len(more) : ~ (files[m] \subseteq Seq(Frame))}
  <1>2. SUFFICES ASSUME bad # {} PROVE FALSE
    BY <1>1
  <1>3. PICK m \in bad : \A y \in bad : m <= y
    <2>1. bad \in SUBSET Nat
      OBVIOUS
    <2> HIDE DEF bad
    <2> QED
      BY <1>2, <2>1, LeastNat
  <1>4. files[0] \subseteq Seq(Frame)
    BY <1>1
  <1>5. m \in 1..Len(more) /\ m - 1 \in 0..Len(more) /\ m - 1 \notin bad
    BY <1>3, <1>4
  <1>6. files[m - 1] \subseteq Seq(Frame) /\ more[m] \in Command
    BY <1>5
  <1>7. writtenAny(files[m - 1], more[m]) \subseteq Seq(Frame)
    BY <1>6, WrittenType DEF writtenAny
  <1> QED
    BY <1>1, <1>3, <1>5, <1>7

\* When no write fails, the frames are appended in their order.
LEMMA AllWrittenQuiet ==
    ASSUME NEW f \in Seq(Frame), NEW more \in Seq(Command), ~May("write")
    PROVE  allWritten(f, more) = {f \o more}
  <1>1. PICK files :
          /\ files[0] = {f}
          /\ \A n \in 1..Len(more) : files[n] = writtenAny(files[n - 1], more[n])
          /\ allWritten(f, more) = files[Len(more)]
    BY AllWrittenDef
  <1> DEFINE upto(n) == f \o SubSeq(more, 1, n)
             bad == {m \in 0..Len(more) : files[m] # {upto(m)}}
  <1>2. upto(Len(more)) = f \o more /\ upto(0) = f
    <2>1. SubSeq(more, 1, Len(more)) = more /\ SubSeq(more, 1, 0) = <<>>
      OBVIOUS
    <2>2. f \o <<>> = f
      OBVIOUS
    <2> QED
      BY <2>1, <2>2
  <1>3. ASSUME NEW n \in 1..Len(more)
        PROVE  upto(n) = Append(upto(n - 1), more[n]) /\ upto(n - 1) \in Seq(Frame)
    <2>1. SubSeq(more, 1, n) = Append(SubSeq(more, 1, n - 1), more[n])
      OBVIOUS
    <2>2. SubSeq(more, 1, n - 1) \in Seq(Frame) /\ more[n] \in Frame
      BY DEF Frame
    <2> DEFINE h == SubSeq(more, 1, n - 1)
    <2> HIDE DEF h
    <2>3. h \in Seq(Frame) => f \o Append(h, more[n]) = Append(f \o h, more[n]) /\ f \o h \in Seq(Frame)
      BY <2>2
    <2> QED
      BY <2>1, <2>2, <2>3 DEF h
  <1> HIDE DEF upto
  <1>4. SUFFICES ASSUME bad # {} PROVE FALSE
    <2>1. Len(more) \in 0..Len(more)
      OBVIOUS
    <2>2. bad = {} => files[Len(more)] = {upto(Len(more))}
      BY <2>1
    <2> QED
      BY <1>1, <1>2, <2>2
  <1>5. PICK m \in bad : \A y \in bad : m <= y
    <2>1. bad \in SUBSET Nat
      OBVIOUS
    <2> HIDE DEF bad
    <2> QED
      BY <1>4, <2>1, LeastNat
  <1>6. m \in 1..Len(more) /\ m - 1 \in 0..Len(more) /\ m - 1 \notin bad
    BY <1>1, <1>2, <1>5
  <1>7. files[m - 1] = {upto(m - 1)} /\ more[m] \in Command
    BY <1>6
  <1>8. writtenAny({upto(m - 1)}, more[m]) = {upto(m)}
    <2>1. upto(m) = Append(upto(m - 1), more[m]) /\ upto(m - 1) \in Seq(Frame)
      BY <1>3, <1>6
    <2>2. written(upto(m - 1), more[m]) = {upto(m)}
      BY <1>7, <2>1, WrittenType
    <2> QED
      BY <2>2 DEF writtenAny
  <1> QED
    BY <1>1, <1>5, <1>6, <1>7, <1>8

\* What the child writes for a key.
LEMMA RebuildType ==
    ASSUME NEW k \in Key, NEW v \in Good, NEW cmds \in rebuild(k, v)
    PROVE  cmds \in Seq(Command)
  <1> DEFINE value  == [op |-> IF v.type = "STRING" THEN "SET" ELSE "RPUSH",
                        key |-> k, args |-> v.items]
             expire == [op |-> "PEXPIRE", key |-> k]
  <1>1. v \in Value
    BY GoodFacts
  <1>2. value \in Command /\ expire \in Command
    BY <1>1 DEF Value, Command
  <1>3. cmds \in {<<value, expire>>, <<value>>, <<>>}
    BY DEF rebuild
  <1> HIDE DEF value, expire
  <1>4. <<value, expire>> \in Seq(Command) /\ <<value>> \in Seq(Command) /\ <<>> \in Seq(Command)
    BY <1>2
  <1> QED
    BY <1>3, <1>4

-----------------------------------------------------------------------------
(* Type correctness, whatever the environment does. *)

Db == [Key -> Good]
File == [frames : Seq(Frame), durable : Nat, safe : Nat \ {0}]

LEMMA FileRecord ==
    ASSUME NEW f \in Seq(Frame), NEW n \in Nat, NEW m \in Nat \ {0}
    PROVE  [frames |-> f, durable |-> n, safe |-> m] \in File
  BY DEF File

\* The history and the file fit.
FileTyped(a, h) ==
    /\ a \in File
    /\ a.durable <= Len(a.frames) /\ a.safe <= Len(h)

Typed ==
    /\ db \in Db
    /\ hist \in Seq(Db)
    /\ FileTyped(aof, hist)
    /\ enabled \in BOOLEAN
    /\ buffer \in Seq(Command)
    /\ temp \in Seq(Frame)
    /\ child \in [state : {"none", "running", "done", "failed"}, snapshot : Db, todo : SUBSET Key]
    /\ child.state = "none" => buffer = <<>> /\ temp = <<>>
    /\ child.state = "done" => child.todo = {}

LEMMA ExtendedFacts ==
    ASSUME NEW h \in Seq(Db), Len(h) > 0, NEW d \in Db
    PROVE  /\ extended(h, d) \in Seq(Db)
           /\ Len(extended(h, d)) >= Len(h)
           /\ Last(extended(h, d)) = d
           /\ \A i \in 1..Len(h) : extended(h, d)[i] = h[i]
           /\ d = Last(h) => extended(h, d) = h
  <1>1. CASE d = Last(h)
    BY <1>1 DEF extended
  <1>2. CASE d # Last(h)
    BY <1>2 DEF extended, Last
  <1> QED
    BY <1>1, <1>2

LEMMA FsyncFacts ==
    ASSUME NEW a, a.frames \in Seq(Frame), NEW h \in Seq(Db), Len(h) > 0
    PROVE  /\ fsync(a, h).frames = a.frames
           /\ fsync(a, h).durable = Len(a.frames)
           /\ fsync(a, h).safe = Len(h)
           /\ FileTyped(fsync(a, h), h)
  BY DEF fsync, FileTyped, File

LEMMA NoChildTyped ==
    /\ NoChild \in [state : {"none", "running", "done", "failed"}, snapshot : Db, todo : SUBSET Key]
    /\ NoChild.state = "none" /\ NoChild.todo = {}
  BY GoodFacts DEF NoChild, Db

\* A file that is written to, or only synced, fits a history that has become longer.
LEMMA FileTypedMono ==
    ASSUME NEW a, NEW h \in Seq(Db), FileTyped(a, h), NEW e \in Seq(Db), Len(h) <= Len(e)
    PROVE  FileTyped(a, e) /\ Len(h) > 0 /\ Len(e) > 0
  BY DEF FileTyped, File

LEMMA TickType ==
    ASSUME FileTyped(aof, hist), hist \in Seq(Db),
           NEW h \in Seq(Db), Len(hist) <= Len(h), NEW a \in tick(h)
    PROVE  FileTyped(a, h) /\ a.frames = aof.frames
  <1>1. aof.frames \in Seq(Frame)
    BY DEF FileTyped, File
  <1> QED
    BY <1>1, FileTypedMono, FsyncFacts DEF tick

LEMMA TypedInit == Init => Typed
  <1> SUFFICES ASSUME Init PROVE Typed
    OBVIOUS
  <1>1. db \in Db
    BY GoodFacts DEF Init, Db
  <1>2. hist \in Seq(Db) /\ Len(hist) = 1
    BY <1>1 DEF Init
  <1>3. <<>> \in Seq(Frame) /\ <<>> \in Seq(Command)
    OBVIOUS
  <1>4. FileTyped(aof, hist)
    BY <1>2, <1>3 DEF Init, FileTyped, File
  <1> QED
    BY <1>1, <1>2, <1>3, <1>4, NoChildTyped DEF Init, Typed

LEMMA TypedExecute ==
    ASSUME Typed, NEW c \in Cmd, Execute(c)
    PROVE  Typed'
  <1>1. c \in Command
    BY ClientCommands
  <1>2. db' \in Db
    BY <1>1, ApplyType DEF Typed, Execute, Db
  <1>3. Len(hist) > 0
    BY DEF Typed, FileTyped, File
  <1>4. hist' \in Seq(Db) /\ Len(hist') >= Len(hist)
    BY <1>2, <1>3, ExtendedFacts DEF Typed, Execute
  <1>5. FileTyped(aof, hist')
    BY <1>4, FileTypedMono DEF Typed
  <1>6. FileTyped(aof', hist') /\ buffer' \in Seq(Command)
        /\ (child.state = "none" => buffer' = buffer)
    <2>1. CASE enabled
      <3>1. log(c, hist')
        BY <2>1 DEF Execute
      <3>2. PICK frames \in written(aof.frames, c) :
              LET a == [aof EXCEPT !.frames = frames] IN
              aof' = IF policy = "ALWAYS" THEN fsync(a, hist') ELSE a
        BY <3>1 DEF log
      <3>3. frames \in Seq(Frame) /\ Len(aof.frames) <= Len(frames)
        <4>1. aof.frames \in Seq(Frame)
          BY DEF Typed, FileTyped, File
        <4>2. frames \in Seq(Frame)
          BY <1>1, <4>1, WrittenType
        <4>3. frames \in {Append(aof.frames, c), aof.frames, Append(aof.frames, Torn)}
          BY DEF written
        <4> QED
          BY <4>1, <4>2, <4>3
      <3> DEFINE a == [aof EXCEPT !.frames = frames]
      <3>4. a = [frames |-> frames, durable |-> aof.durable, safe |-> aof.safe]
        BY DEF Typed, FileTyped, File
      <3>5. FileTyped(a, hist')
        BY <1>5, <3>3, <3>4 DEF FileTyped, File
      <3>6. a.frames \in Seq(Frame)
        BY <3>3, <3>4
      <3>7. FileTyped(fsync(a, hist'), hist')
        <4> HIDE DEF a
        <4> QED
          BY <3>6, <1>3, <1>4, FsyncFacts
      <3>8. FileTyped(aof', hist')
        BY <3>2, <3>5, <3>7
      <3>9. buffer' \in Seq(Command) /\ (child.state = "none" => buffer' = buffer)
        BY <1>1, <3>1 DEF log, Typed
      <3> QED
        BY <3>8, <3>9
    <2>2. CASE ~enabled
      BY <2>2, <1>5 DEF Execute, Typed
    <2> QED
      BY <2>1, <2>2
  <1> QED
    BY <1>2, <1>4, <1>6 DEF Typed, Execute

LEMMA TypedChild ==
    ASSUME Typed, Child \/ triggerRewrite
    PROVE  Typed'
  <1>0. <<>> \in Seq(Frame) /\ <<>> \in Seq(Command) /\ keysOf(db) \in SUBSET Key
    BY DEF keysOf
  <1>1. CASE triggerRewrite
    BY <1>0, <1>1 DEF triggerRewrite, Typed
  <1>2. CASE ChildExit
    BY <1>2 DEF ChildExit, Typed
  <1>3. CASE ChildFail
    BY <1>3 DEF ChildFail, Typed
  <1>4. ASSUME NEW k \in Key, ChildWrite(k)
        PROVE  Typed'
    <2>1. child.snapshot[k] \in Good
      BY DEF Typed, Db
    <2>2. PICK cmds \in rebuild(k, child.snapshot[k]) : temp' \in allWritten(temp, cmds)
      BY <1>4 DEF ChildWrite
    <2>3. temp' \in Seq(Frame)
      BY <2>1, <2>2, RebuildType, AllWrittenType DEF Typed
    <2> QED
      BY <1>4, <2>3 DEF ChildWrite, Typed
  <1> QED
    BY <1>1, <1>2, <1>3, <1>4 DEF Child

LEMMA TypedTimer ==
    ASSUME Typed, Timer
    PROVE  Typed'
  <1>0. <<>> \in Seq(Frame) /\ <<>> \in Seq(Command)
    OBVIOUS
  <1>1. db' \in Db
    BY GoodFacts DEF Timer, Typed, Db
  <1>2. hist' \in Seq(Db) /\ Len(hist') >= Len(hist) /\ Len(hist) > 0
    <2>1. Len(hist) > 0
      BY DEF Typed, FileTyped, File
    <2> QED
      BY <1>1, <2>1, ExtendedFacts DEF Typed, Timer
  <1>3. PICK a \in tick(hist') : notYet(a) \/ abandon(a) \/ swap(hist')
    BY DEF Timer
  <1>4. FileTyped(a, hist')
    BY <1>2, <1>3, TickType DEF Typed
  <1>5. CASE notYet(a)
    BY <1>1, <1>2, <1>4, <1>5 DEF notYet, Typed
  <1>6. CASE abandon(a)
    BY <1>0, <1>1, <1>2, <1>4, <1>6, NoChildTyped DEF abandon, Typed
  <1>7. CASE swap(hist')
    <2>1. PICK frames \in allWritten(temp, buffer) :
            aof' = fsync([frames |-> frames, durable |-> 0, safe |-> 0], hist')
      BY <1>7 DEF swap, withBuffer
    <2>2. frames \in Seq(Frame)
      BY <2>1, AllWrittenType DEF Typed
    <2>3. FileTyped(aof', hist')
      BY <1>2, <2>1, <2>2, FsyncFacts
    <2> QED
      BY <1>0, <1>1, <1>2, <1>7, <2>3, NoChildTyped DEF swap, Typed
  <1> QED
    BY <1>3, <1>5, <1>6, <1>7

LEMMA SurvivorsType ==
    ASSUME NEW a \in File, NEW frames \in survivors(a)
    PROVE  frames \in Seq(Frame)
  <1>1. ASSUME NEW n \in a.durable..Len(a.frames)
        PROVE  SubSeq(a.frames, 1, n) \in Seq(Frame)
    BY DEF File
  <1>2. Torn \in Frame
    BY DEF Frame
  <1>3. ASSUME NEW n \in a.durable..(Len(a.frames) - 1)
        PROVE  Append(SubSeq(a.frames, 1, n), Torn) \in Seq(Frame)
    <2>1. n \in a.durable..Len(a.frames)
      BY DEF File
    <2> QED
      BY <1>1, <1>2, <2>1
  <1> QED
    BY <1>1, <1>3 DEF survivors

\* A start leaves nothing of what the old process held in memory.
LEMMA StartFacts ==
    ASSUME NEW frames \in Seq(Frame), start(frames)
    PROVE  /\ db' \in Db /\ db' = replay(frames)
           /\ enabled' = TRUE /\ buffer' = <<>> /\ temp' = <<>> /\ child' = NoChild
           /\ policy' = policy
           /\ buffer' \in Seq(Command) /\ temp' \in Seq(Frame)
  <1>1. <<>> \in Seq(Frame) /\ <<>> \in Seq(Command)
    OBVIOUS
  <1> QED
    BY <1>1, ReplayType DEF start, Db

LEMMA TypedStop ==
    ASSUME Typed, Shutdown \/ Kill \/ PowerLoss
    PROVE  Typed'
  <1>0. aof.frames \in Seq(Frame) /\ Len(hist) > 0 /\ aof \in File
    BY DEF Typed, FileTyped, File
  <1>1. CASE Shutdown \/ Kill
    <2>1. start(aof.frames) /\ hist' = extended(hist, db')
      BY <1>1 DEF Shutdown, Kill
    <2>2. hist' \in Seq(Db) /\ Len(hist') >= Len(hist)
      BY <1>0, <2>1, StartFacts, ExtendedFacts DEF Typed
    <2>3. FileTyped(aof, hist') /\ FileTyped(fsync(aof, hist'), hist')
      BY <1>0, <2>2, FileTypedMono, FsyncFacts DEF Typed
    <2>4. FileTyped(aof', hist')
      BY <1>1, <2>3 DEF Shutdown, Kill
    <2> QED
      BY <1>0, <2>1, <2>2, <2>4, StartFacts, NoChildTyped DEF Typed
  <1>2. CASE PowerLoss
    <2>1. PICK frames \in survivors(aof) :
            /\ start(frames)
            /\ hist' = <<db'>>
            /\ aof' = fsync([frames |-> frames, durable |-> 0, safe |-> 0], hist')
      BY <1>2 DEF PowerLoss
    <2>2. frames \in Seq(Frame)
      BY <1>0, SurvivorsType
    <2>3. hist' \in Seq(Db) /\ Len(hist') > 0
      <3>1. \A d \in Db : <<d>> \in Seq(Db) /\ Len(<<d>>) = 1
        OBVIOUS
      <3>2. db' \in Db
        BY <2>1, <2>2, StartFacts
      <3> QED
        BY <2>1, <3>1, <3>2
    <2>4. FileTyped(aof', hist')
      <3> DEFINE a == [frames |-> frames, durable |-> 0, safe |-> 0]
      <3>1. a.frames \in Seq(Frame)
        BY <2>2
      <3> HIDE DEF a
      <3>2. FileTyped(fsync(a, hist'), hist')
        BY <2>3, <3>1, FsyncFacts
      <3> QED
        BY <2>1, <3>2 DEF a
    <2> QED
      BY <2>1, <2>2, <2>3, <2>4, StartFacts, NoChildTyped DEF Typed
  <1> QED
    BY <1>1, <1>2

LEMMA TypedNext == Typed /\ [Next]_vars => Typed'
  <1> SUFFICES ASSUME Typed, [Next]_vars PROVE Typed'
    OBVIOUS
  <1>1. CASE UNCHANGED vars
    BY <1>1 DEF vars, Typed
  <1>2. CASE Next
    BY <1>2, TypedExecute, TypedChild, TypedTimer, TypedStop DEF Next
  <1> QED
    BY <1>1, <1>2

LEMMA TypedOK == Typed => TypeOK
  <1> SUFFICES ASSUME Typed PROVE TypeOK
    OBVIOUS
  <1>1. Db \subseteq [Key -> Value]
    BY GoodFacts DEF Db
  <1>2. db \in [Key -> Value] /\ hist \in Seq([Key -> Value])
    BY <1>1 DEF Typed
  <1> QED
    BY <1>2 DEF Typed, TypeOK, FileTyped, File

\* The keyspace, its history, the file and the child keep their types through every
\* crash and restart, and with every fault of the environment: writes that fail half
\* way, files that cannot be reopened, keys that expire while the child writes.
THEOREM TypeCorrect == Spec => []TypeOK
  <1>1. Spec => []Typed
    BY TypedInit, TypedNext, PTL DEF Spec
  <1> QED
    BY <1>1, TypedOK, PTL

-----------------------------------------------------------------------------
(* Files that hold what they should. *)

\* FileIsCurrent and CrashSafe of any file, keyspace and history; what a power loss
\* leaves is expressed by how far the loading of the whole file has come.
Holds(a, d) == intact(a.frames) => replay(a.frames) = d

Recovers(a, h) ==
    intact(a.frames) =>
        \A n \in a.durable..Len(a.frames) :
            \E i \in a.safe..Len(h) : loaded(a.frames)[n] = h[i]

LEMMA RecoversIsCrashSafe ==
    ASSUME Typed, Recovers(aof, hist)
    PROVE  CrashSafe
  <1>1. aof.frames \in Seq(Frame) /\ aof.durable \in Nat
    BY DEF Typed, FileTyped, File
  <1>2. ASSUME NEW n \in aof.durable..Len(aof.frames)
        PROVE  replay(SubSeq(aof.frames, 1, n)) = loaded(aof.frames)[n]
    <2>1. n \in 0..Len(aof.frames)
      BY <1>1
    <2> QED
      BY <1>1, <2>1, ReplayPrefix
  <1> QED
    BY <1>2 DEF Recovers, CrashSafe

\* The history only grows.
LEMMA RecoversMono ==
    ASSUME NEW a, NEW h \in Seq(Db), FileTyped(a, h), Recovers(a, h),
           NEW e \in Seq(Db), Len(h) <= Len(e), \A i \in 1..Len(h) : e[i] = h[i]
    PROVE  Recovers(a, e)
  <1> SUFFICES ASSUME intact(a.frames), NEW n \in a.durable..Len(a.frames)
               PROVE  \E i \in a.safe..Len(e) : loaded(a.frames)[n] = e[i]
    BY DEF Recovers
  <1>1. PICK i \in a.safe..Len(h) : loaded(a.frames)[n] = h[i]
    BY DEF Recovers
  <1>2. i \in 1..Len(h) /\ i \in a.safe..Len(e)
    BY DEF FileTyped, File
  <1> QED
    BY <1>1, <1>2

\* After an fsync there is one file left, and it holds the last keyspace.
LEMMA FsyncRecovers ==
    ASSUME NEW a, a.frames \in Seq(Frame), NEW h \in Seq(Db), Len(h) > 0, Holds(a, Last(h))
    PROVE  Holds(fsync(a, h), Last(h)) /\ Recovers(fsync(a, h), h)
  <1> DEFINE b == fsync(a, h)
  <1>1. b.frames = a.frames /\ b.durable = Len(a.frames) /\ b.safe = Len(h)
    BY FsyncFacts
  <1> HIDE DEF b
  <1>2. Holds(b, Last(h))
    BY <1>1 DEF Holds
  <1>3. ASSUME intact(b.frames), NEW n \in b.durable..Len(b.frames)
        PROVE  \E i \in b.safe..Len(h) : loaded(b.frames)[n] = h[i]
    <2>1. n = Len(b.frames) /\ Len(h) \in b.safe..Len(h)
      BY <1>1
    <2>2. loaded(b.frames)[n] = Last(h)
      BY <1>2, <1>3, <2>1 DEF Holds, replay
    <2> QED
      BY <2>1, <2>2 DEF Last
  <1> QED
    BY <1>2, <1>3 DEF Recovers, b

\* log appends the command to a file that holds the keyspace before it.
LEMMA AppendRecovers ==
    ASSUME NEW a, NEW h \in Seq(Db), FileTyped(a, h), Holds(a, Last(h)), Recovers(a, h),
           NEW c \in Command, NEW d, d = apply(Last(h), c), d \in Db,
           NEW b, b = [frames |-> Append(a.frames, c), durable |-> a.durable, safe |-> a.safe]
    PROVE  /\ b.frames \in Seq(Frame) /\ Len(b.frames) = Len(a.frames) + 1
           /\ FileTyped(b, extended(h, d))
           /\ Holds(b, d)
           /\ Recovers(b, extended(h, d))
  <1> DEFINE f == a.frames
             e == extended(h, d)
  <1>1. f \in Seq(Frame) /\ a.durable \in Nat /\ a.durable <= Len(f)
        /\ a.safe \in Nat /\ a.safe > 0 /\ a.safe <= Len(h)
    BY DEF FileTyped, File
  <1>2. e \in Seq(Db) /\ Len(e) >= Len(h) /\ Last(e) = d /\ \A i \in 1..Len(h) : e[i] = h[i]
    <2>1. Len(h) > 0
      BY <1>1
    <2> QED
      BY <2>1, ExtendedFacts
  <1> HIDE DEF e
  <1> DEFINE g == Append(f, c)
  <1>4. g \in Seq(Frame) /\ Len(g) = Len(f) + 1 /\ Len(f) \in Nat /\ \A i \in 1..Len(f) : g[i] = f[i]
    BY <1>1 DEF Frame
  <1>5. b.frames = g /\ b.durable = a.durable /\ b.safe = a.safe
    OBVIOUS
  <1>6. FileTyped(b, e)
    <2>1. a.durable <= Len(g) /\ a.safe <= Len(e)
      BY <1>1, <1>2, <1>4
    <2>2. b \in File
      <3>1. g \in Seq(Frame) /\ a.durable \in Nat /\ a.safe \in Nat \ {0}
        BY <1>1, <1>4
      <3> QED
        BY <3>1, FileRecord
    <2> HIDE DEF g
    <2> QED
      BY <1>5, <2>1, <2>2 DEF FileTyped
  <1>7. ASSUME intact(g)
        PROVE  intact(f) /\ replay(g) = d
    <2>1. \A i \in 1..Len(f) : f[i] # Torn
      BY <1>4, <1>7 DEF intact
    <2>2. intact(f)
      BY <1>4, <2>1 DEF intact
    <2>3. replay(g) = apply(replay(f), c)
      BY <1>1, <2>1, ReplayAppend
    <2> QED
      BY <2>2, <2>3 DEF Holds
  <1> HIDE DEF g
  <1>8. ASSUME intact(g), NEW n \in a.durable..Len(g)
        PROVE  \E i \in a.safe..Len(e) : loaded(g)[n] = e[i]
    <2>1. CASE n = Len(g)
      <3>1. loaded(g)[n] = d
        BY <1>7, <1>8, <2>1 DEF replay
      <3>2. Len(e) \in a.safe..Len(e) /\ e[Len(e)] = d
        BY <1>1, <1>2 DEF Last
      <3> QED
        BY <3>1, <3>2
    <2>2. CASE n # Len(g)
      <3>1. n \in a.durable..Len(f) /\ n \in 0..Len(f)
        BY <1>1, <1>4, <2>2
      <3>2. loaded(g)[n] = loaded(f)[n]
        <4>1. Len(f) \in Nat /\ Len(f) <= Len(f) /\ Len(f) <= Len(g)
          BY <1>4
        <4> HIDE DEF f
        <4> QED
          BY <1>1, <1>4, <3>1, <4>1, LoadedPrefix
      <3>3. PICK i \in a.safe..Len(h) : loaded(f)[n] = h[i]
        BY <1>7, <1>8, <3>1 DEF Recovers
      <3>4. i \in 1..Len(h) /\ i \in a.safe..Len(e)
        BY <1>1, <1>2
      <3> QED
        BY <1>2, <3>2, <3>3, <3>4
    <2> QED
      BY <2>1, <2>2
  <1>9. Holds(b, d)
    BY <1>5, <1>7 DEF Holds
  <1>10. Recovers(b, e)
    BY <1>5, <1>8 DEF Recovers
  <1> QED
    BY <1>4, <1>5, <1>6, <1>9, <1>10 DEF e

-----------------------------------------------------------------------------
(* What the child writes. *)

\* The first command brings back type and items.
LEMMA RebuildValue ==
    ASSUME NEW d \in Db, NEW k \in Key, d[k] = Missing, NEW v \in Stored,
           NEW c, c.op = (IF v.type = "STRING" THEN "SET" ELSE "RPUSH"), c.key = k, c.args = v.items
    PROVE  apply(d, c) = [d EXCEPT ![k] = [type |-> v.type, items |-> v.items, ttl |-> FALSE]]
  <1>1. c.key = k /\ c.args = v.items /\ d[k].type = "none" /\ d[k].items = <<>> /\ d[k].ttl = FALSE
        /\ v.items \in Seq(Elem) /\ v.type \in {"STRING", "LIST"}
    BY GoodFacts DEF Stored
  <1>2. ~wrongType(d, c)
    BY <1>1 DEF wrongType
  <1>3. CASE v.type = "STRING"
    BY <1>1, <1>2, <1>3 DEF apply, cmdSet
  <1>4. CASE v.type = "LIST"
    <2>1. c.op = "RPUSH"
      BY <1>4
    <2>2. <<>> \o v.items = v.items
      BY <1>1
    <2> QED
      BY <1>1, <1>2, <1>4, <2>1, <2>2 DEF apply, cmdRPush
  <1> QED
    BY <1>1, <1>3, <1>4

\* The second one the deadline.
LEMMA RebuildExpire ==
    ASSUME NEW d \in Db, NEW k \in Key, d[k] \in Stored, NEW c, c = [op |-> "PEXPIRE", key |-> k]
    PROVE  apply(d, c) = [d EXCEPT ![k] = [type |-> d[k].type, items |-> d[k].items, ttl |-> TRUE]]
  <1>1. c.key = k /\ c.op = "PEXPIRE" /\ ~wrongType(d, c) /\ d[k] # Missing
    BY GoodFacts DEF wrongType
  <1>2. (d[k].ttl \/ d[k] # Missing) = TRUE
    BY <1>1, Zenon
  <1> QED
    BY <1>1, <1>2 DEF apply, cmdPexpire

\* The keyspace that the child has written so far.
Rest == [k \in Key |-> IF k \in child.todo THEN Missing ELSE child.snapshot[k]]

LEMMA ChildWriteRebuilds ==
    ASSUME Typed, ~May("expire"), ~May("write"), NEW k \in Key, ChildWrite(k),
           temp \in Seq(Command), child.todo \subseteq keysOf(child.snapshot), replay(temp) = Rest
    PROVE  temp' \in Seq(Command) /\ replay(temp') = Rest'
  <1> DEFINE v == child.snapshot[k]
             w == [type |-> v.type, items |-> v.items, ttl |-> FALSE]
             c == [op |-> IF v.type = "STRING" THEN "SET" ELSE "RPUSH", key |-> k, args |-> v.items]
             x == [op |-> "PEXPIRE", key |-> k]
             d == [Rest EXCEPT ![k] = w]
  <1>1. v \in Stored /\ k \in child.todo
    <2>1. k \in child.todo /\ v # Missing
      BY DEF ChildWrite, keysOf
    <2>2. v \in Good
      BY DEF Typed, Db
    <2> QED
      BY <2>1, <2>2 DEF Good
  <1>2. Rest \in Db /\ Rest[k] = Missing
    BY <1>1, GoodFacts DEF Rest, Typed, Db
  <1>3. c \in Command /\ x \in Command
    BY <1>1 DEF Stored, Command
  <1>4. apply(Rest, c) = d
    <2>1. c.op = (IF v.type = "STRING" THEN "SET" ELSE "RPUSH") /\ c.key = k /\ c.args = v.items
      OBVIOUS
    <2> HIDE DEF v, c
    <2>2. apply(Rest, c) = [Rest EXCEPT ![k] = [type |-> v.type, items |-> v.items, ttl |-> FALSE]]
      BY <1>1, <1>2, <2>1, RebuildValue
    <2> QED
      BY <2>2
  <1>5. w \in Stored /\ w.type = v.type /\ w.items = v.items
    BY <1>1 DEF Stored
  <1>6. d \in Db /\ d[k] = w
    <2> HIDE DEF w
    <2> QED
      BY <1>2, <1>5 DEF Db, Good
  <1>7. apply(d, x) = [d EXCEPT ![k] = [type |-> v.type, items |-> v.items, ttl |-> TRUE]]
    <2>1. x = [op |-> "PEXPIRE", key |-> k]
      OBVIOUS
    <2> HIDE DEF d, w, x, v
    <2>2. apply(d, x) = [d EXCEPT ![k] = [type |-> d[k].type, items |-> d[k].items, ttl |-> TRUE]]
      BY <1>5, <1>6, <2>1, RebuildExpire, Zenon
    <2> QED
      BY <1>5, <1>6, <2>2
  <1>8. Rest' = [Rest EXCEPT ![k] = v]
    <2>1. child'.snapshot = child.snapshot /\ child'.todo = child.todo \ {k}
      BY DEF ChildWrite, Typed
    <2> QED
      BY <2>1 DEF Rest
  <1>9. PICK cmds \in rebuild(k, v) : temp' \in allWritten(temp, cmds)
    BY DEF ChildWrite
  <1>10. cmds = IF v.ttl THEN <<c, x>> ELSE <<c>>
    BY <1>9 DEF rebuild
  <1> HIDE DEF c, x
  <1>11. replay(Append(temp, c)) = d /\ Append(temp, c) \in Seq(Command)
    BY <1>3, <1>4, CommandsOnly
  <1>12. temp \in Seq(Frame)
    BY DEF Typed
  <1>13. CASE v.ttl
    <2>1. <<c, x>> \in Seq(Command) /\ temp \o <<c, x>> = Append(Append(temp, c), x)
      BY <1>3
    <2>2. temp' = Append(Append(temp, c), x)
      BY <1>9, <1>10, <1>12, <1>13, <2>1, AllWrittenQuiet
    <2>3. replay(temp') = apply(d, x) /\ temp' \in Seq(Command)
      BY <1>3, <1>11, <2>2, CommandsOnly
    <2>4. [type |-> v.type, items |-> v.items, ttl |-> TRUE] = v
      BY <1>1, <1>13 DEF Stored
    <2>5. [d EXCEPT ![k] = v] = [Rest EXCEPT ![k] = v]
      BY <1>2 DEF Db
    <2> HIDE DEF v, d
    <2> QED
      BY <1>7, <1>8, <2>3, <2>4, <2>5
  <1>14. CASE ~v.ttl
    <2>1. <<c>> \in Seq(Command) /\ temp \o <<c>> = Append(temp, c)
      BY <1>3
    <2>2. temp' = Append(temp, c)
      BY <1>9, <1>10, <1>12, <1>14, <2>1, AllWrittenQuiet
    <2>3. w = v
      BY <1>1, <1>14 DEF Stored
    <2> QED
      BY <1>8, <1>11, <2>2, <2>3
  <1> QED
    BY <1>13, <1>14

-----------------------------------------------------------------------------
(* The file is current. *)

\* Every write succeeds, the file can be opened again after the swap, and no deadline
\* passes.  Children and swaps may fail and a power loss may leave half a frame.
QuietFaults == Faults \cap {"write", "reopen", "expire"} = {}

\* Every file that loads the child's snapshot loads the keyspace with the buffer behind it.
BufferCatchesUp ==
    \A t \in Seq(Command) : replay(t) = child.snapshot => replay(t \o buffer) = db

\* The rewrite will lead to the keyspace.
ChildInv ==
    child.state \in {"running", "done"} =>
        /\ temp \in Seq(Command)
        /\ child.todo \subseteq keysOf(child.snapshot)
        /\ replay(temp) = Rest
        /\ BufferCatchesUp

\* Under ALWAYS nothing waits for an fsync.
Synced == policy = "ALWAYS" => aof.durable = Len(aof.frames)

\* The inductive invariant of CrashSafe, FileIsCurrent and NothingLost.
Current ==
    /\ Typed
    /\ enabled = TRUE
    /\ db = Last(hist)
    /\ Holds(aof, db)
    /\ Recovers(aof, hist)
    /\ Synced
    /\ ChildInv

LEMMA QuietFacts ==
    ASSUME QuietFaults
    PROVE  ~May("write") /\ ~May("reopen") /\ ~May("expire")
  BY DEF QuietFaults, May

LEMMA CurrentInit == Init => Current
  <1> SUFFICES ASSUME Init PROVE Current
    OBVIOUS
  <1>1. Typed
    BY TypedInit
  <1>2. hist \in Seq(Db) /\ Len(hist) = 1 /\ Last(hist) = db /\ hist[1] = db
    BY <1>1 DEF Typed, Init, Last
  <1>3. aof.frames = <<>> /\ aof.durable = 0 /\ aof.safe = 1 /\ Len(<<>>) = 0
    BY DEF Init
  <1>4. replay(aof.frames) = db /\ loaded(aof.frames)[0] = db
    BY <1>3, ReplayEmpty DEF Init, replay
  <1>5. Recovers(aof, hist)
    BY <1>2, <1>3, <1>4 DEF Recovers
  <1>6. child.state = "none"
    BY NoChildTyped DEF Init
  <1> QED
    BY <1>1, <1>2, <1>3, <1>4, <1>5, <1>6 DEF Current, Holds, Synced, ChildInv, Init

LEMMA CurrentExecute ==
    ASSUME QuietFaults, Current, NEW c \in Cmd, Execute(c)
    PROVE  Current'
  <1>0. Typed /\ Typed' /\ c \in Command
    BY TypedExecute, ClientCommands DEF Current
  <1>1. hist \in Seq(Db) /\ Len(hist) > 0 /\ FileTyped(aof, hist) /\ aof.frames \in Seq(Frame)
        /\ db' \in Db /\ hist' \in Seq(Db)
    BY <1>0 DEF Typed, FileTyped, File
  <1>2. db' = apply(db, c) /\ hist' = extended(hist, db') /\ log(c, hist')
        /\ policy' = policy /\ child' = child /\ temp' = temp /\ enabled' = TRUE
    BY DEF Execute, Current
  <1>3. db' = Last(hist') /\ Len(hist') > 0
    BY <1>1, <1>2, ExtendedFacts
  <1> DEFINE b == [frames |-> Append(aof.frames, c), durable |-> aof.durable, safe |-> aof.safe]
  <1>4. aof' = IF policy = "ALWAYS" THEN fsync(b, hist') ELSE b
    <2>1. PICK frames \in written(aof.frames, c) :
            aof' = IF policy = "ALWAYS" THEN fsync([aof EXCEPT !.frames = frames], hist')
                                        ELSE [aof EXCEPT !.frames = frames]
      BY <1>2 DEF log
    <2>2. frames = Append(aof.frames, c)
      BY <1>0, <1>1, QuietFacts, WrittenType
    <2>3. [aof EXCEPT !.frames = frames] = [frames |-> frames, durable |-> aof.durable, safe |-> aof.safe]
      BY <1>1 DEF FileTyped, File
    <2> QED
      BY <2>1, <2>2, <2>3
  <1>5. b.frames \in Seq(Frame) /\ Holds(b, db') /\ Recovers(b, hist')
    <2> HIDE DEF b
    <2>1. Holds(aof, Last(hist)) /\ Recovers(aof, hist) /\ db' = apply(Last(hist), c)
      BY <1>2 DEF Current
    <2> QED
      BY <1>0, <1>1, <1>2, <2>1, AppendRecovers DEF b
  <1>6. Holds(aof', db') /\ Recovers(aof', hist') /\ Synced'
    <2> HIDE DEF b
    <2>1. CASE policy = "ALWAYS"
      <3>1. aof' = fsync(b, hist')
        BY <1>4, <2>1
      <3>2. aof'.durable = Len(aof'.frames)
        BY <1>1, <1>3, <1>5, <3>1, FsyncFacts
      <3> QED
        BY <1>1, <1>3, <1>5, <3>1, <3>2, FsyncRecovers DEF Synced
    <2>2. CASE policy # "ALWAYS"
      BY <1>2, <1>4, <1>5, <2>2 DEF Synced
    <2> QED
      BY <2>1, <2>2
  <1>7. ChildInv'
    <2> SUFFICES ASSUME child.state \in {"running", "done"} PROVE ChildInv'
      BY <1>2 DEF ChildInv
    <2>1. temp \in Seq(Command) /\ child.todo \subseteq keysOf(child.snapshot)
          /\ replay(temp) = Rest /\ BufferCatchesUp /\ buffer \in Seq(Command)
      BY <1>0 DEF Current, ChildInv, Typed
    <2>2. buffer' = Append(buffer, c)
      BY <1>2 DEF log
    <2>3. ASSUME NEW t \in Seq(Command), replay(t) = child.snapshot
          PROVE  replay(t \o buffer') = db'
      <3>1. t \o Append(buffer, c) = Append(t \o buffer, c) /\ t \o buffer \in Seq(Command)
        BY <1>0, <2>1
      <3>2. replay(t \o buffer) = db
        BY <2>1, <2>3 DEF BufferCatchesUp
      <3> QED
        BY <1>0, <1>2, <2>2, <3>1, <3>2, CommandsOnly
    <2>4. BufferCatchesUp' /\ Rest' = Rest
      BY <1>2, <2>3 DEF BufferCatchesUp, Rest
    <2> QED
      BY <1>2, <2>1, <2>4 DEF ChildInv
  <1> QED
    BY <1>0, <1>2, <1>3, <1>6, <1>7 DEF Current

LEMMA CurrentChild ==
    ASSUME QuietFaults, Current, Child \/ triggerRewrite
    PROVE  Current'
  <1>0. Typed /\ Typed'
    BY TypedChild DEF Current
  <1>1. policy' = policy /\ db' = db /\ hist' = hist /\ aof' = aof /\ enabled' = enabled
    BY DEF Child, triggerRewrite, ChildExit, ChildFail, ChildWrite
  <1>2. SUFFICES ChildInv'
    BY <1>0, <1>1 DEF Current, Holds, Recovers, Synced
  <1>3. CASE triggerRewrite
    <2>1. child'.snapshot = db /\ child'.todo = keysOf(db) /\ buffer' = <<>> /\ temp' = <<>>
      BY <1>3 DEF triggerRewrite
    <2>2. Rest' = EmptyDb
      <3>1. db \in Db
        BY <1>0 DEF Typed
      <3> QED
        BY <2>1, <3>1 DEF Rest, EmptyDb, keysOf, Db
    <2>3. <<>> \in Seq(Command) /\ \A t \in Seq(Command) : t \o <<>> = t
      OBVIOUS
    <2>4. BufferCatchesUp'
      BY <1>1, <2>1, <2>3 DEF BufferCatchesUp
    <2> QED
      BY <2>1, <2>2, <2>3, <2>4, ReplayEmpty DEF ChildInv
  <1>4. CASE ChildExit
    <2>1. child'.snapshot = child.snapshot /\ child'.todo = child.todo /\ child.state = "running"
          /\ temp' = temp /\ buffer' = buffer
      BY <1>0, <1>4 DEF ChildExit, Typed
    <2>2. Rest' = Rest /\ (BufferCatchesUp => BufferCatchesUp')
      BY <1>1, <2>1 DEF Rest, BufferCatchesUp
    <2> QED
      BY <2>1, <2>2 DEF Current, ChildInv
  <1>5. CASE ChildFail
    <2>1. child'.state = "failed"
      BY <1>0, <1>5 DEF ChildFail, Typed
    <2> QED
      BY <2>1 DEF ChildInv
  <1>6. ASSUME NEW k \in Key, ChildWrite(k)
        PROVE  ChildInv'
    <2>1. child'.snapshot = child.snapshot /\ child'.todo = child.todo \ {k}
          /\ child.state = "running" /\ buffer' = buffer
      BY <1>0, <1>6 DEF ChildWrite, Typed
    <2>2. temp \in Seq(Command) /\ child.todo \subseteq keysOf(child.snapshot)
          /\ replay(temp) = Rest /\ BufferCatchesUp
      BY <2>1 DEF Current, ChildInv
    <2>3. temp' \in Seq(Command) /\ replay(temp') = Rest'
      BY <1>0, <1>6, <2>2, QuietFacts, ChildWriteRebuilds
    <2>4. BufferCatchesUp'
      BY <1>1, <2>1, <2>2 DEF BufferCatchesUp
    <2> QED
      BY <2>1, <2>2, <2>3, <2>4 DEF ChildInv
  <1> QED
    BY <1>3, <1>4, <1>5, <1>6 DEF Child

\* The swap puts a file in place that loads the keyspace.
LEMMA SwapHolds ==
    ASSUME QuietFaults, Current, NEW h \in Seq(Db), Len(h) > 0, Last(h) = db, swap(h)
    PROVE  /\ \E a : /\ a.frames \in Seq(Frame) /\ Holds(a, Last(h)) /\ replay(a.frames) = db
                      /\ a.frames = temp \o buffer
                      /\ aof' = fsync(a, h)
           /\ enabled' = TRUE
  <1>1. child.state = "done" /\ child.todo = {}
    BY DEF swap, Current, Typed
  <1>2. temp \in Seq(Command) /\ buffer \in Seq(Command) /\ temp \in Seq(Frame)
        /\ replay(temp) = Rest /\ BufferCatchesUp
    BY <1>1 DEF Current, ChildInv, Typed
  <1>3. Rest = child.snapshot
    BY <1>1 DEF Rest, Current, Typed, Db
  <1>4. replay(temp \o buffer) = db
    BY <1>2, <1>3 DEF BufferCatchesUp
  <1>5. withBuffer = {temp \o buffer}
    BY <1>2, QuietFacts, AllWrittenQuiet DEF withBuffer
  <1>6. temp \o buffer \in Seq(Frame)
    BY <1>2 DEF Frame
  <1> DEFINE a == [frames |-> temp \o buffer, durable |-> 0, safe |-> 0]
  <1>7. aof' = fsync(a, h) /\ enabled' = TRUE
    BY <1>5, QuietFacts DEF swap
  <1>8. a.frames = temp \o buffer
    OBVIOUS
  <1> HIDE DEF a
  <1> QED
    BY <1>4, <1>6, <1>7, <1>8 DEF Holds

LEMMA CurrentTimer ==
    ASSUME QuietFaults, Current, Timer
    PROVE  Current' /\ db' = db
  <1>0. Typed /\ Typed'
    BY TypedTimer DEF Current
  <1>1. hist \in Seq(Db) /\ Len(hist) > 0 /\ FileTyped(aof, hist) /\ aof.frames \in Seq(Frame)
    BY <1>0 DEF Typed, FileTyped, File
  <1>2. PICK K \in SUBSET {k \in Key : May("expire") /\ db[k].ttl} :
          /\ db' = [k \in Key |-> IF k \in K THEN Missing ELSE db[k]]
          /\ hist' = extended(hist, db')
          /\ \E a \in tick(hist') : notYet(a) \/ abandon(a) \/ swap(hist')
          /\ policy' = policy
    BY DEF Timer
  <1>3. db' = db
    <2>1. K = {}
      BY <1>2, QuietFacts
    <2> QED
      BY <1>0, <1>2, <2>1 DEF Typed, Db
  <1>4. hist' = hist
    BY <1>0, <1>1, <1>2, <1>3, ExtendedFacts DEF Current, Typed
  <1>5. PICK a \in tick(hist) : notYet(a) \/ abandon(a) \/ swap(hist)
    BY <1>2, <1>4
  <1>6. Holds(a, db) /\ Recovers(a, hist) /\ (policy = "ALWAYS" => a.durable = Len(a.frames))
    <2>1. CASE a = aof
      BY <2>1 DEF Current, Synced
    <2>2. CASE a = fsync(aof, hist) /\ policy = "EVERYSEC"
      BY <1>1, <2>2, FsyncRecovers DEF Current
    <2> QED
      BY <1>5, <2>1, <2>2 DEF tick
  <1>7. CASE notYet(a)
    <2>1. Holds(aof', db') /\ Recovers(aof', hist') /\ Synced' /\ enabled' = TRUE
      BY <1>2, <1>3, <1>4, <1>6, <1>7 DEF notYet, Synced, Current
    <2>2. ChildInv'
      <3>1. temp' = temp /\ buffer' = buffer /\ child' = child
        BY <1>7 DEF notYet
      <3>2. Rest' = Rest /\ (BufferCatchesUp => BufferCatchesUp')
        BY <1>3, <3>1 DEF Rest, BufferCatchesUp
      <3> QED
        BY <3>1, <3>2 DEF Current, ChildInv
    <2> QED
      BY <1>0, <1>3, <1>4, <2>1, <2>2 DEF Current
  <1>8. CASE abandon(a)
    <2>1. Holds(aof', db') /\ Recovers(aof', hist') /\ Synced' /\ enabled' = TRUE
      BY <1>2, <1>3, <1>4, <1>6, <1>8 DEF abandon, Synced, Current
    <2>2. ChildInv'
      BY <1>8, NoChildTyped DEF abandon, ChildInv
    <2> QED
      BY <1>0, <1>3, <1>4, <2>1, <2>2 DEF Current
  <1>9. CASE swap(hist)
    <2>1. PICK b : b.frames \in Seq(Frame) /\ Holds(b, Last(hist)) /\ aof' = fsync(b, hist)
      BY <1>1, <1>9, SwapHolds DEF Current
    <2>2. Holds(aof', db') /\ Recovers(aof', hist')
      BY <1>1, <1>3, <1>4, <2>1, FsyncRecovers DEF Current
    <2>3. Synced'
      BY <1>1, <2>1, FsyncFacts DEF Synced
    <2>4. enabled' = TRUE
      BY <1>1, <1>9, SwapHolds DEF Current
    <2>5. ChildInv'
      BY <1>9, NoChildTyped DEF swap, ChildInv
    <2> QED
      BY <1>0, <1>3, <1>4, <2>2, <2>3, <2>4, <2>5 DEF Current
  <1> QED
    BY <1>3, <1>5, <1>7, <1>8, <1>9

LEMMA CurrentStop ==
    ASSUME Current, Shutdown \/ Kill \/ PowerLoss
    PROVE  Current'
  <1>0. Typed /\ Typed'
    BY TypedStop DEF Current
  <1>1. hist \in Seq(Db) /\ Len(hist) > 0 /\ FileTyped(aof, hist) /\ aof.frames \in Seq(Frame)
        /\ aof \in File /\ hist' \in Seq(Db) /\ Len(hist') > 0
    BY <1>0 DEF Typed, FileTyped, File
  <1>2. CASE Shutdown \/ Kill
    <2>1. start(aof.frames) /\ hist' = extended(hist, db')
      BY <1>2 DEF Shutdown, Kill
    <2>2. db' = replay(aof.frames) /\ enabled' = TRUE /\ policy' = policy /\ child'.state = "none"
      BY <1>1, <2>1, StartFacts, NoChildTyped
    <2>3. Last(hist') = db' /\ Len(hist) <= Len(hist') /\ \A i \in 1..Len(hist) : hist'[i] = hist[i]
      <3>1. db' \in Db
        BY <1>0 DEF Typed
      <3> QED
        BY <1>1, <2>1, <3>1, ExtendedFacts
    <2>4. Holds(aof, db') /\ Recovers(aof, hist')
      BY <1>1, <2>2, <2>3, RecoversMono DEF Current, Holds
    <2>5. Holds(fsync(aof, hist'), db') /\ Recovers(fsync(aof, hist'), hist')
          /\ fsync(aof, hist').durable = Len(fsync(aof, hist').frames)
      BY <1>1, <2>3, <2>4, FsyncRecovers, FsyncFacts
    <2>6. aof' = aof \/ aof' = fsync(aof, hist')
      BY <1>2 DEF Shutdown, Kill
    <2>7. Holds(aof', db') /\ Recovers(aof', hist') /\ Synced'
      BY <2>2, <2>4, <2>5, <2>6 DEF Synced, Current
    <2> QED
      BY <1>0, <2>2, <2>3, <2>7 DEF Current, ChildInv
  <1>3. CASE PowerLoss
    <2>1. PICK frames \in survivors(aof) :
            /\ start(frames)
            /\ hist' = <<db'>>
            /\ aof' = fsync([frames |-> frames, durable |-> 0, safe |-> 0], hist')
      BY <1>3 DEF PowerLoss
    <2>2. frames \in Seq(Frame)
      BY <1>1, <2>1, SurvivorsType
    <2>3. db' = replay(frames) /\ enabled' = TRUE /\ policy' = policy /\ child'.state = "none"
      BY <2>1, <2>2, StartFacts, NoChildTyped
    <2>4. Last(hist') = db'
      BY <2>1 DEF Last
    <2> DEFINE a == [frames |-> frames, durable |-> 0, safe |-> 0]
    <2>5. a.frames = frames /\ aof' = fsync(a, hist')
      BY <2>1
    <2> HIDE DEF a
    <2>6. Holds(a, Last(hist'))
      BY <2>3, <2>4, <2>5 DEF Holds
    <2>7. Holds(aof', db') /\ Recovers(aof', hist') /\ aof'.durable = Len(aof'.frames)
      BY <1>1, <2>2, <2>4, <2>5, <2>6, FsyncRecovers, FsyncFacts
    <2> QED
      BY <1>0, <2>3, <2>4, <2>7 DEF Current, ChildInv, Synced
  <1> QED
    BY <1>2, <1>3

LEMMA CurrentNext ==
    ASSUME QuietFaults
    PROVE  Current /\ [Next]_vars => Current'
  <1> SUFFICES ASSUME Current, [Next]_vars PROVE Current'
    OBVIOUS
  <1>1. CASE UNCHANGED vars
    <2>1. UNCHANGED Rest /\ (BufferCatchesUp => BufferCatchesUp')
      BY <1>1 DEF vars, Rest, BufferCatchesUp
    <2>2. Typed'
      BY <1>1, TypedNext DEF Current
    <2> QED
      BY <1>1, <2>1, <2>2 DEF vars, Current, Holds, Recovers, Synced, ChildInv
  <1>2. CASE Next
    BY <1>2, CurrentExecute, CurrentChild, CurrentTimer, CurrentStop DEF Next
  <1> QED
    BY <1>1, <1>2

\* Whatever is interleaved, Current holds.
LEMMA CurrentAlways ==
    ASSUME QuietFaults
    PROVE  Spec => []Current
  BY CurrentInit, CurrentNext, PTL DEF Spec

LEMMA CurrentImplies ==
    ASSUME Current
    PROVE  CrashSafe /\ FileIsCurrent /\ NothingLost
  <1>1. CrashSafe
    BY RecoversIsCrashSafe DEF Current
  <1>2. FileIsCurrent
    BY DEF Current, Holds, FileIsCurrent
  <1>3. aof.frames \in Seq(Frame) /\ Len(aof.frames) \in 0..Len(aof.frames)
    BY DEF Current, Typed, FileTyped, File
  <1>4. replay(SubSeq(aof.frames, 1, Len(aof.frames))) = replay(aof.frames)
    BY <1>3, ReplayPrefix DEF replay
  <1>5. NothingLost
    BY <1>3, <1>4 DEF Current, Holds, Synced, NothingLost
  <1> QED
    BY <1>1, <1>2, <1>5

\* The file replays to the keyspace in memory in every state: before, during and after
\* a rewrite, whatever commands come in between the fork and the swap (AOFWriter::log,
\* checkRewriteComplete), whether or not child and swap succeed.
THEOREM FileCorrect ==
    ASSUME QuietFaults
    PROVE  Spec => []FileIsCurrent
  BY CurrentAlways, CurrentImplies, PTL

\* Whatever a power loss takes of what was not synced, the next start (AOFLoader::load)
\* finds a keyspace that existed, and one no older than the last fsync.
THEOREM CrashCorrect ==
    ASSUME QuietFaults
    PROVE  Spec => []CrashSafe
  BY CurrentAlways, CurrentImplies, PTL

\* Under ALWAYS no power loss takes anything away, the swap of the files included.
THEOREM AlwaysCorrect ==
    ASSUME QuietFaults
    PROVE  Spec => []NothingLost
  BY CurrentAlways, CurrentImplies, PTL

LEMMA TimerLosesNothing ==
    ASSUME QuietFaults, Current, [Next]_vars
    PROVE  [Timer /\ child.state = "done" /\ aof'.frames # aof.frames
              => replay(aof'.frames) = db']_vars
  <1> SUFFICES ASSUME Timer, child.state = "done", aof'.frames # aof.frames
               PROVE  replay(aof'.frames) = db'
    OBVIOUS
  <1>1. Current' /\ db' = db
    BY CurrentTimer
  <1>2. intact(aof'.frames)
    <2>1. hist \in Seq(Db) /\ Len(hist) > 0 /\ FileTyped(aof, hist) /\ db \in Db
          /\ db = Last(hist) /\ temp \in Seq(Command) /\ buffer \in Seq(Command)
      BY DEF Current, Typed, FileTyped, File, ChildInv
    <2>2. hist' = hist
      BY <1>1, <2>1, ExtendedFacts DEF Timer
    <2>3. PICK a \in tick(hist) : notYet(a) \/ abandon(a) \/ swap(hist)
      BY <2>2 DEF Timer
    <2>4. a.frames = aof.frames
      BY <2>1, <2>3, TickType
    <2>5. swap(hist)
      BY <2>3, <2>4 DEF notYet, abandon
    <2>6. PICK b : b.frames \in Seq(Frame) /\ b.frames = temp \o buffer /\ aof' = fsync(b, hist)
      BY <2>1, <2>5, SwapHolds
    <2>7. aof'.frames = temp \o buffer
      BY <2>1, <2>6, FsyncFacts
    <2>8. temp \o buffer \in Seq(Command)
      BY <2>1
    <2> QED
      BY <2>7, <2>8, CommandFacts DEF intact
  <1> QED
    BY <1>1, <1>2 DEF Current, Holds

\* When no write fails, the swap loses no command: docs/persistence.md:94.
THEOREM RewriteCorrect ==
    ASSUME QuietFaults
    PROVE  Spec => RewriteLosesNothing
  BY CurrentAlways, TimerLosesNothing, PTL DEF Spec, RewriteLosesNothing

-----------------------------------------------------------------------------
(* Without torn frames the hypothesis intact of CrashSafe always holds. *)

Whole == Current /\ aof.frames \in Seq(Command)

LEMMA WholeNext ==
    ASSUME QuietFaults, ~May("torn")
    PROVE  Whole /\ [Next]_vars => Whole'
  <1> SUFFICES ASSUME Whole, [Next]_vars PROVE aof'.frames \in Seq(Command)
    BY CurrentNext DEF Whole
  <1> DEFINE f == aof.frames
  <1>0. /\ Current /\ Typed /\ f \in Seq(Command) /\ f \in Seq(Frame)
        /\ hist \in Seq(Db) /\ Len(hist) > 0 /\ FileTyped(aof, hist)
        /\ aof \in File /\ Last(hist) = db /\ db \in Db
    BY DEF Whole, Current, Typed, FileTyped, File
  <1>1. CASE UNCHANGED vars
    BY <1>0, <1>1 DEF vars
  <1>2. ASSUME NEW c \in Cmd, Execute(c)
        PROVE  aof'.frames \in Seq(Command)
    <2>1. c \in Command
      BY ClientCommands
    <2>2. PICK frames \in written(f, c) :
            aof' = IF policy = "ALWAYS" THEN fsync([aof EXCEPT !.frames = frames], hist')
                                        ELSE [aof EXCEPT !.frames = frames]
      BY <1>2 DEF Execute, log, Whole, Current
    <2>3. frames = Append(f, c)
      BY <1>0, <2>1, QuietFacts, WrittenType
    <2>4. aof'.frames = frames
      BY <1>0, <2>2 DEF fsync, File
    <2> QED
      BY <1>0, <2>1, <2>3, <2>4
  <1>3. CASE Child \/ triggerRewrite
    BY <1>0, <1>3 DEF Child, triggerRewrite, ChildExit, ChildFail, ChildWrite
  <1>4. CASE Timer
    <2>1. hist' = hist
      BY <1>0, <1>4, CurrentTimer, ExtendedFacts DEF Timer
    <2>2. PICK a \in tick(hist) : notYet(a) \/ abandon(a) \/ swap(hist)
      BY <1>4, <2>1 DEF Timer
    <2>3. CASE notYet(a) \/ abandon(a)
      <3>1. a.frames = f
        BY <1>0, <2>2, TickType
      <3> QED
        BY <1>0, <2>3, <3>1 DEF notYet, abandon
    <2>4. CASE swap(hist)
      <3>1. PICK b : b.frames \in Seq(Frame) /\ b.frames = temp \o buffer /\ aof' = fsync(b, hist)
        BY <1>0, <2>4, SwapHolds
      <3>2. aof'.frames = temp \o buffer
        BY <1>0, <3>1, FsyncFacts
      <3>3. temp \in Seq(Command) /\ buffer \in Seq(Command)
        BY <1>0, <2>4 DEF swap, Current, ChildInv, Typed
      <3> QED
        BY <3>2, <3>3
    <2> QED
      BY <2>2, <2>3, <2>4
  <1>5. CASE Shutdown \/ Kill
    BY <1>0, <1>5 DEF Shutdown, Kill, fsync
  <1>6. CASE PowerLoss
    <2>1. PICK frames \in survivors(aof) :
            aof' = fsync([frames |-> frames, durable |-> 0, safe |-> 0], hist')
      BY <1>6 DEF PowerLoss
    <2>2. PICK n \in aof.durable..Len(f) : frames = SubSeq(f, 1, n)
      BY <2>1 DEF survivors
    <2>3. frames \in Seq(Command)
      BY <1>0, <2>2 DEF File
    <2> QED
      BY <2>1, <2>3 DEF fsync
  <1> QED
    BY <1>1, <1>2, <1>3, <1>4, <1>5, <1>6 DEF Next

\* As long as no power loss leaves half a frame behind, what was synced survives every
\* one of them (docs/persistence.md:47); with half a frame it need not.
THEOREM SyncedCorrect ==
    ASSUME QuietFaults, ~May("torn")
    PROVE  Spec => []SyncedSurvive
  <1>1. Init => Whole
    <2>1. <<>> \in Seq(Command)
      OBVIOUS
    <2> QED
      BY <2>1, CurrentInit DEF Whole, Init
  <1>2. Whole => SyncedSurvive
    <2> SUFFICES ASSUME Whole PROVE SyncedSurvive
      OBVIOUS
    <2>1. CrashSafe
      BY CurrentImplies DEF Whole
    <2>2. intact(aof.frames)
      BY CommandFacts DEF Whole, intact
    <2> QED
      BY <2>1, <2>2 DEF CrashSafe, SyncedSurvive
  <1> QED
    BY <1>1, <1>2, WholeNext, PTL DEF Spec
=============================================================================
