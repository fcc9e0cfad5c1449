---------------------------- MODULE ServerProofs ----------------------------
(***************************************************************************)
(* The main loop keeps the registry, the events and the two client modes   *)
(* in step, logs every write, and closes nobody early: for any number of   *)
(* descriptors, channels and clients, and any pipelines.                   *)
(***************************************************************************)
EXTENDS Server, TLAPS

-----------------------------------------------------------------------------
(* The inductive invariant. *)

\* An event is being handled.
Handling == pc \in {"parse", "exec", "write"}

\* No two connections have the same address, and every address was given out.
IdsUnique ==
    /\ \A f \in connections : conn[f].id \in 1..accepted
    /\ \A f, g \in connections : conn[f].id = conn[g].id => f = g

\* The loop handles the event of a connection, or none.
CursorCurrent ==
    /\ Handling <=> cur.fd # Listener
    /\ pc = "poll" => ready = {}

\* One event per descriptor and pass, the one being handled included.
EventsOnce ==
    /\ \A d, e \in ready : d.fd = e.fd => d = e
    /\ \A e \in ready : e.fd # Listener => e.fd # cur.fd

\* An error is reported for a client that is gone for good.
ErrorsReal ==
    \A e \in ready : e.fd # Listener /\ "ERR" \in e.ev => sock[e.fd].state \in {"reset", "hup"}

\* Between events nothing that was read is left unparsed.
InputDrained ==
    \A f \in connections : conn[f].in # <<>> => pc \in {"parse", "exec"} /\ f = cur.fd

\* The loop stops reading from a client only after its last byte.
ReadToTheEnd ==
    \A f \in connections : ~conn[f].wantRead =>
        sock[f].state # "open" /\ sock[f].toServer = <<>>

\* What GracefulClose demands of a connection that is about to be closed.
Served(f) ==
    sock[f].state \in {"open", "half"} =>
        /\ sock[f].toServer = <<>> /\ conn[f].in = <<>>
        /\ \A i \in 1..Len(conn[f].out) : conn[f].out[i] # "reply"

\* A marked connection has been served, has no event left, and goes with this pass.
MarkedServed ==
    \A f \in connections : conn[f].wantClose =>
        /\ pc # "poll"
        /\ \A e \in ready : e.fd # f
        /\ f # cur.fd
        /\ Served(f)

IInv ==
    /\ TypeOK
    /\ IdsUnique /\ CursorCurrent /\ EventsCurrent /\ EventsOnce
    /\ RegistryExact /\ ModesApart /\ WritesLogged
    /\ ErrorsReal /\ InputDrained /\ ReadToTheEnd /\ MarkedServed

-----------------------------------------------------------------------------
(* The log and what was executed. *)

LEMMA SubsequenceLonger ==
    ASSUME NEW S, NEW s \in Seq(S), NEW t \in Seq(S), NEW x \in S, subsequence(s, t)
    PROVE  subsequence(s, Append(t, x))
  <1>1. PICK at \in [1..Len(s) -> 1..Len(t)] :
           /\ \A i, j \in 1..Len(s) : i < j => at[i] < at[j]
           /\ \A i \in 1..Len(s) : t[at[i]] = s[i]
    BY DEF subsequence
  <1>2. at \in [1..Len(s) -> 1..Len(Append(t, x))]
    BY <1>1
  <1>3. \A i \in 1..Len(s) : Append(t, x)[at[i]] = s[i]
    BY <1>1
  <1> QED
    BY <1>1, <1>2, <1>3 DEF subsequence

LEMMA SubsequenceBoth ==
    ASSUME NEW S, NEW s \in Seq(S), NEW t \in Seq(S), NEW x \in S, subsequence(s, t)
    PROVE  subsequence(Append(s, x), Append(t, x))
  <1>1. PICK at \in [1..Len(s) -> 1..Len(t)] :
           /\ \A i, j \in 1..Len(s) : i < j => at[i] < at[j]
           /\ \A i \in 1..Len(s) : t[at[i]] = s[i]
    BY DEF subsequence
  <1> DEFINE n  == Len(s) + 1
             up == [i \in 1..n |-> IF i = n THEN Len(t) + 1 ELSE at[i]]
  <1>2. /\ Len(s) \in Nat /\ Len(t) \in Nat
        /\ Len(Append(s, x)) = n /\ Len(Append(t, x)) = Len(t) + 1
    OBVIOUS
  <1>3. \A i \in 1..n : i # n => i \in 1..Len(s) /\ at[i] \in 1..Len(t) /\ up[i] = at[i]
    BY <1>1, <1>2
  <1>4. up[n] = Len(t) + 1
    BY <1>2
  <1>5. up \in [1..n -> 1..(Len(t) + 1)]
    BY <1>1, <1>2
  <1> HIDE DEF up
  <1>6. \A i, j \in 1..n : i < j => up[i] < up[j]
    <2> SUFFICES ASSUME NEW i \in 1..n, NEW j \in 1..n, i < j
                 PROVE  up[i] < up[j]
      OBVIOUS
    <2>1. i # n /\ i \in 1..Len(s) /\ up[i] = at[i] /\ at[i] \in 1..Len(t)
      BY <1>2, <1>3
    <2>2. CASE j = n
      BY <1>2, <1>4, <2>1, <2>2
    <2>3. CASE j # n
      BY <1>1, <1>3, <2>1, <2>3
    <2> QED
      BY <2>2, <2>3
  <1>7. \A i \in 1..n : Append(t, x)[up[i]] = Append(s, x)[i]
    <2> SUFFICES ASSUME NEW i \in 1..n
                 PROVE  Append(t, x)[up[i]] = Append(s, x)[i]
      OBVIOUS
    <2>1. CASE i = n
      BY <1>2, <1>4, <2>1
    <2>2. CASE i # n
      BY <1>1, <1>2, <1>3, <2>2
    <2> QED
      BY <2>1, <2>2
  <1>8. /\ up \in [1..Len(Append(s, x)) -> 1..Len(Append(t, x))]
        /\ \A i, j \in 1..Len(Append(s, x)) : i < j => up[i] < up[j]
        /\ \A i \in 1..Len(Append(s, x)) : Append(t, x)[up[i]] = Append(s, x)[i]
    BY <1>2, <1>5, <1>6, <1>7
  <1> QED
    BY <1>8 DEF subsequence

LEMMA LogKept ==
    ASSUME WritesLogged, UNCHANGED <<log, executed, failed>>
    PROVE  WritesLogged'
  BY DEF WritesLogged, subsequence

-----------------------------------------------------------------------------
(* What the commands do to the connections. *)

LEMMA WrittenType ==
    ASSUME NEW out \in Seq({"reply", "push"}), NEW x \in {"reply", "push"}
    PROVE  written(out, x) \in Seq({"reply", "push"})
  BY DEF written


\* What no command changes in a connection d, which was c before it.
Kept(c, d) ==
    d.id = c.id /\ d.in = c.in /\ d.wantRead = c.wantRead /\ d.wantClose = c.wantClose

\* What a command of another client leaves alone besides.
KeptByOthers(c, d) ==
    /\ Kept(c, d) /\ d.inTxn = c.inTxn /\ d.subs = c.subs
    /\ d.out \in {c.out, written(c.out, "push")}

LEMMA ReplyEffect ==
    ASSUME NEW c \in [Fd -> Connection], NEW f \in Fd
    PROVE  /\ reply(c, f) \in [Fd -> Connection]
           /\ reply(c, f) = [c EXCEPT ![f] = [c[f] EXCEPT !.out = written(@, "reply")]]
           /\ \A g \in Fd \ {f} : reply(c, f)[g] = c[g]
           /\ Kept(c[f], reply(c, f)[f])
           /\ reply(c, f)[f].inTxn = c[f].inTxn
           /\ reply(c, f)[f].subs = c[f].subs
           /\ reply(c, f)[f].queued = c[f].queued
  <1>1. written(c[f].out, "reply") \in Seq({"reply", "push"})
    BY WrittenType DEF Connection
  <1> QED
    BY <1>1 DEF reply, Connection, Kept

\* PUBLISH: messages into the subscribers' buffers, then the reply.
LEMMA PublishEffect ==
    ASSUME NEW c \in [Fd -> Connection], NEW f \in Fd, NEW ch, cmdPublish(c, f, ch)
    PROVE  \E p \in [Fd -> Connection] :
              conn' = reply(p, f) /\ \A g \in Fd : KeptByOthers(c[g], p[g])
  <1> DEFINE push(g) == IF g \in connections /\ c[g].id \in channels[ch]
                        THEN [c[g] EXCEPT !.out = written(@, "push"), !.wantWrite = TRUE]
                        ELSE c[g]
             p == [g \in Fd |-> push(g)]
  <1>1. ASSUME NEW g \in Fd
        PROVE  push(g) \in Connection /\ KeptByOthers(c[g], push(g))
    BY WrittenType DEF Connection, Kept, KeptByOthers
  <1> HIDE DEF push
  <1>2. p \in [Fd -> Connection] /\ \A g \in Fd : p[g] = push(g)
    BY <1>1
  <1>3. conn' = reply(p, f)
    BY DEF cmdPublish, push
  <1> QED
    BY <1>1, <1>2, <1>3

\* A command that writes succeeds or fails.
Outcome(cmd) ==
    IF cmd.name \in WriteCommand
    THEN \/ executed' = Append(executed, cmd) /\ failed' = failed
         \/ executed' = executed /\ failed' = failed + 1
    ELSE UNCHANGED <<executed, failed>>

LEMMA CommandEffect ==
    ASSUME TypeOK,
           NEW c \in [Fd -> Connection], NEW f \in Fd, NEW cmd \in Command,
           dispatch(c, f, cmd)
    PROVE  /\ conn' \in [Fd -> Connection]
           /\ \A g \in Fd : Kept(c[g], conn'[g])
           /\ \A g \in Fd \ {f} : KeptByOthers(c[g], conn'[g])
           /\ channels' \in [Channel -> SUBSET Nat]
           /\ Outcome(cmd)
  <1> DEFINE r == reply(c, f)
  <1>1. /\ r \in [Fd -> Connection] /\ Kept(c[f], r[f])
        /\ \A g \in Fd \ {f} : r[g] = c[g] /\ KeptByOthers(c[g], r[g])
    BY ReplyEffect DEF Kept, KeptByOthers
  <1>2. cmd.args \in Seq(Channel)
    BY CommandAssumption
  <1>3. Range1(cmd.args) \subseteq Channel
    BY <1>2 DEF Range1
  <1>4. handled(cmd) => cmd.name \notin WriteCommand
    BY WriteAssumption DEF handled
  <1> HIDE DEF r
  <1> DEFINE Edited(d) ==
               d \in Connection /\ Kept(r[f], d) /\ conn' = [r EXCEPT ![f] = d]
  <1>e. ASSUME NEW d, Edited(d)
        PROVE  /\ conn' \in [Fd -> Connection]
               /\ \A g \in Fd : Kept(c[g], conn'[g])
               /\ \A g \in Fd \ {f} : KeptByOthers(c[g], conn'[g])
    <2>1. conn' \in [Fd -> Connection] /\ conn'[f] = d /\ \A g \in Fd \ {f} : conn'[g] = r[g]
      BY <1>1, <1>e
    <2>2. Kept(c[f], d)
      BY <1>1, <1>e DEF Kept
    <2> QED
      BY <1>1, <2>1, <2>2 DEF KeptByOthers
  <1>t. r[f] \in Connection /\ channels \in [Channel -> SUBSET Nat] /\ c[f].id \in Nat
    BY <1>1 DEF TypeOK, Connection
  <1>5. CASE handled(cmd) /\ cmdMulti(c, f)
    <2>1. Edited([r[f] EXCEPT !.inTxn = TRUE])
      BY <1>t, <1>5 DEF cmdMulti, r, Connection, Kept
    <2> QED
      BY <1>4, <1>5, <1>e, <1>t, <2>1 DEF cmdMulti, Outcome
  <1>6. CASE handled(cmd) /\ cmdDiscard(c, f)
    <2>1. Edited([r[f] EXCEPT !.inTxn = FALSE, !.queued = <<>>])
      <3>0. <<>> \in Seq(Command)
        OBVIOUS
      <3>1. [r[f] EXCEPT !.inTxn = FALSE, !.queued = <<>>] \in Connection
        BY <1>t, <3>0 DEF Connection
      <3>2. Kept(r[f], [r[f] EXCEPT !.inTxn = FALSE, !.queued = <<>>])
        BY <1>t DEF Connection, Kept
      <3>3. conn' = [r EXCEPT ![f] = [r[f] EXCEPT !.inTxn = FALSE, !.queued = <<>>]]
        BY <1>1, <1>6 DEF cmdDiscard, r
      <3> QED
        BY <3>1, <3>2, <3>3
    <2> QED
      BY <1>4, <1>6, <1>e, <1>t, <2>1 DEF cmdDiscard, Outcome
  <1>7. CASE handled(cmd) /\ cmdSubscribe(c, f, cmd.args)
    <2>1. Edited([r[f] EXCEPT !.subs = @ \cup Range1(cmd.args)])
      BY <1>t, <1>3, <1>7 DEF cmdSubscribe, r, Connection, Kept
    <2>2. channels' \in [Channel -> SUBSET Nat]
      BY <1>t, <1>7 DEF cmdSubscribe
    <2> QED
      BY <1>4, <1>7, <1>e, <2>1, <2>2 DEF cmdSubscribe, Outcome
  <1>8. CASE handled(cmd) /\ cmdUnsubscribe(c, f, cmd.args)
    <2> DEFINE leaving == IF cmd.args = <<>> THEN c[f].subs ELSE Range1(cmd.args)
    <2>1. Edited([r[f] EXCEPT !.subs = @ \ leaving])
      BY <1>t, <1>8 DEF cmdUnsubscribe, r, Connection, Kept
    <2>2. channels' \in [Channel -> SUBSET Nat]
      BY <1>t, <1>8 DEF cmdUnsubscribe
    <2> QED
      BY <1>4, <1>8, <1>e, <2>1, <2>2 DEF cmdUnsubscribe, Outcome
  <1>9. CASE handled(cmd) /\ cmdPublish(c, f, cmd.args[1])
    <2>2. PICK p \in [Fd -> Connection] :
             conn' = reply(p, f) /\ \A g \in Fd : KeptByOthers(c[g], p[g])
      BY <1>9, PublishEffect
    <2>4. /\ conn' \in [Fd -> Connection]
          /\ \A g \in Fd \ {f} : conn'[g] = p[g]
          /\ Kept(p[f], conn'[f])
      BY <2>2, ReplyEffect
    <2>5. \A g \in Fd \ {f} : KeptByOthers(c[g], conn'[g])
      BY <2>2, <2>4
    <2>6. \A g \in Fd : Kept(c[g], conn'[g])
      <3>1. Kept(c[f], conn'[f])
        BY <2>2, <2>4 DEF Kept, KeptByOthers
      <3> QED
        BY <2>5, <3>1 DEF KeptByOthers
    <2> QED
      BY <1>4, <1>9, <1>t, <2>4, <2>5, <2>6 DEF cmdPublish, Outcome
  <1>10. CASE ~handled(cmd) /\ cmdOther(c, f, cmd)
    BY <1>1, <1>10 DEF cmdOther, r, TypeOK, Kept, Outcome
  <1> QED
    BY <1>5, <1>6, <1>7, <1>8, <1>9, <1>10 DEF dispatch

-----------------------------------------------------------------------------
(* The registry. *)

\* The registry reg is that of the connections cs at the descriptors K.
RegistryOf(K, cs, reg) ==
    \A ch \in Channel : \A i :
        i \in reg[ch] <=> \E g \in K : ch \in cs[g].subs /\ cs[g].id = i

\* A command changes the subscriptions of its client only, and the registry with them.
LEMMA CommandSubscriptions ==
    ASSUME TypeOK,
           NEW c \in [Fd -> Connection], NEW f \in Fd, NEW cmd \in Command,
           dispatch(c, f, cmd)
    PROVE  \/ channels' = channels /\ conn'[f].subs = c[f].subs
           \/ \E S \in SUBSET Channel :
                /\ conn'[f].subs = c[f].subs \cup S
                /\ channels' = [ch \in Channel |-> IF ch \in S THEN channels[ch] \cup {c[f].id}
                                                 ELSE channels[ch]]
           \/ \E S \in SUBSET Channel :
                /\ conn'[f].subs = c[f].subs \ S
                /\ channels' = [ch \in Channel |-> IF ch \in S THEN channels[ch] \ {c[f].id}
                                                 ELSE channels[ch]]
  <1> DEFINE r == reply(c, f)
  <1>1. r \in [Fd -> Connection] /\ r[f] \in Connection /\ r[f].subs = c[f].subs
    BY ReplyEffect
  <1>2. cmd.args \in Seq(Channel) /\ Range1(cmd.args) \subseteq Channel
    BY CommandAssumption DEF Range1
  <1> HIDE DEF r
  <1>3. CASE cmdMulti(c, f)
    BY <1>1, <1>3 DEF cmdMulti, r, Connection
  <1>4. CASE cmdDiscard(c, f)
    BY <1>1, <1>4 DEF cmdDiscard, r, Connection
  <1>5. CASE cmdSubscribe(c, f, cmd.args)
    <2>1. conn'[f].subs = c[f].subs \cup Range1(cmd.args)
      BY <1>1, <1>5 DEF cmdSubscribe, r, Connection
    <2> QED
      BY <1>2, <1>5, <2>1 DEF cmdSubscribe, Outcome
  <1>6. CASE cmdUnsubscribe(c, f, cmd.args)
    <2> DEFINE leaving == IF cmd.args = <<>> THEN c[f].subs ELSE Range1(cmd.args)
    <2>1. conn'[f].subs = c[f].subs \ leaving
      BY <1>1, <1>6 DEF cmdUnsubscribe, r, Connection
    <2>2. leaving \in SUBSET Channel
      BY <1>2 DEF Connection
    <2> QED
      BY <1>6, <2>1, <2>2 DEF cmdUnsubscribe
  <1>7. CASE cmdPublish(c, f, cmd.args[1])
    <2>1. PICK p \in [Fd -> Connection] :
             conn' = reply(p, f) /\ \A g \in Fd : KeptByOthers(c[g], p[g])
      BY <1>7, PublishEffect
    <2>2. conn'[f].subs = c[f].subs
      BY <2>1, ReplyEffect DEF KeptByOthers
    <2> QED
      BY <1>7, <2>2 DEF cmdPublish
  <1>8. CASE cmdOther(c, f, cmd)
    BY <1>1, <1>8 DEF cmdOther, r
  <1> QED
    BY <1>3, <1>4, <1>5, <1>6, <1>7, <1>8 DEF dispatch

LEMMA CommandRegistry ==
    ASSUME TypeOK,
           NEW c \in [Fd -> Connection], NEW f \in connections, NEW cmd \in Command,
           \A g, h \in connections : c[g].id = c[h].id => g = h,
           RegistryOf(connections, c, channels),
           dispatch(c, f, cmd)
    PROVE  RegistryOf(connections, conn', channels')
  <1>1. f \in Fd /\ connections \subseteq Fd /\ channels \in [Channel -> SUBSET Nat]
    BY DEF TypeOK
  <1>2. \A g \in connections : conn'[g].id = c[g].id
    BY <1>1, CommandEffect DEF Kept
  <1>3. \A g \in connections \ {f} : conn'[g].subs = c[g].subs
    BY <1>1, CommandEffect DEF KeptByOthers
  <1> SUFFICES ASSUME NEW ch \in Channel, NEW i
               PROVE  i \in channels'[ch] <=>
                        \E g \in connections : ch \in conn'[g].subs /\ conn'[g].id = i
    BY DEF RegistryOf
  <1>4. i \in channels[ch] <=> \E g \in connections : ch \in c[g].subs /\ c[g].id = i
    BY DEF RegistryOf
  <1>5. CASE channels' = channels /\ conn'[f].subs = c[f].subs
    BY <1>2, <1>3, <1>4, <1>5
  <1>6. ASSUME NEW S \in SUBSET Channel,
               conn'[f].subs = c[f].subs \cup S,
               channels' = [x \in Channel |-> IF x \in S THEN channels[x] \cup {c[f].id}
                                              ELSE channels[x]]
        PROVE  i \in channels'[ch] <=>
                 \E g \in connections : ch \in conn'[g].subs /\ conn'[g].id = i
    BY <1>2, <1>3, <1>4, <1>6
  <1>7. ASSUME NEW S \in SUBSET Channel,
               conn'[f].subs = c[f].subs \ S,
               channels' = [x \in Channel |-> IF x \in S THEN channels[x] \ {c[f].id}
                                              ELSE channels[x]]
        PROVE  i \in channels'[ch] <=>
                 \E g \in connections : ch \in conn'[g].subs /\ conn'[g].id = i
    BY <1>2, <1>3, <1>4, <1>7
  <1> QED
    BY <1>1, <1>5, <1>6, <1>7, CommandSubscriptions

\* Outside EXEC no command brings its client into both modes: the gate keeps MULTI
\* from subscribers, and in a transaction SUBSCRIBE is only queued.
LEMMA CommandModes ==
    ASSUME TypeOK,
           NEW c \in [Fd -> Connection], NEW f \in Fd, NEW cmd \in Command,
           ~(c[f].inTxn /\ c[f].subs # {}),
           ~gated(c[f], cmd), ~queueable(c[f], cmd),
           dispatch(c, f, cmd)
    PROVE  ~(conn'[f].inTxn /\ conn'[f].subs # {})
  <1> DEFINE r == reply(c, f)
  <1>1. /\ r \in [Fd -> Connection] /\ r[f] \in Connection
        /\ r[f].subs = c[f].subs /\ r[f].inTxn = c[f].inTxn
    BY ReplyEffect
  <1> HIDE DEF r
  <1>2. CASE handled(cmd) /\ cmd.name = "MULTI" /\ cmdMulti(c, f)
    <2>1. c[f].subs = {}
      BY <1>2 DEF gated
    <2> QED
      BY <1>1, <1>2, <2>1 DEF cmdMulti, r, Connection
  <1>3. CASE handled(cmd) /\ cmd.name = "DISCARD" /\ cmdDiscard(c, f)
    BY <1>1, <1>3 DEF cmdDiscard, r, Connection
  <1>4. CASE handled(cmd) /\ cmd.name = "SUBSCRIBE" /\ cmdSubscribe(c, f, cmd.args)
    <2>1. ~c[f].inTxn
      BY <1>4 DEF queueable
    <2> QED
      BY <1>1, <1>4, <2>1 DEF cmdSubscribe, r, Connection
  <1>5. CASE handled(cmd) /\ cmd.name = "UNSUBSCRIBE" /\ cmdUnsubscribe(c, f, cmd.args)
    <2>1. ~c[f].inTxn
      BY <1>5 DEF queueable
    <2> QED
      BY <1>1, <1>5, <2>1 DEF cmdUnsubscribe, r, Connection
  <1>6. CASE handled(cmd) /\ cmd.name = "PUBLISH" /\ cmdPublish(c, f, cmd.args[1])
    <2>1. PICK p \in [Fd -> Connection] :
             conn' = reply(p, f) /\ \A g \in Fd : KeptByOthers(c[g], p[g])
      BY <1>6, PublishEffect
    <2> QED
      BY <2>1, ReplyEffect DEF KeptByOthers
  <1>7. CASE ~handled(cmd) /\ cmdOther(c, f, cmd)
    BY <1>1, <1>7 DEF cmdOther, r
  <1> QED
    BY <1>2, <1>3, <1>4, <1>5, <1>6, <1>7 DEF dispatch

-----------------------------------------------------------------------------
(* The steps. *)

LEMMA RegistrySame ==
    ASSUME channels \in [Channel -> SUBSET Nat]
    PROVE  RegistryExact <=> RegistryOf(connections, conn, channels)
  BY DEF RegistryExact, RegistryOf

LEMMA RegistrySameNext ==
    ASSUME channels' \in [Channel -> SUBSET Nat]
    PROVE  RegistryExact' <=> RegistryOf(connections', conn', channels')
  BY DEF RegistryExact, RegistryOf

\* A message that is published adds no reply.
LEMMA PushAddsNoReply ==
    ASSUME NEW out \in Seq({"reply", "push"}), \A i \in 1..Len(out) : out[i] # "reply"
    PROVE  \A i \in 1..Len(written(out, "push")) : written(out, "push")[i] # "reply"
  BY DEF written

\* The descriptor of the event being handled is that of a connection not yet marked.
LEMMA CursorOpen ==
    ASSUME IInv, Handling
    PROVE  cur.fd \in connections /\ cur.fd \in Fd /\ ~conn[cur.fd].wantClose
  BY DEF IInv, TypeOK, CursorCurrent, EventsCurrent, MarkedServed, Connection

\* What the parse loop and EXEC may do to the state in one step.
LEMMA CommandStep ==
    ASSUME IInv, NEW f \in Fd, f = cur.fd,
           pc \in {"parse", "exec"}, pc' \in {"parse", "exec"},
           UNCHANGED <<connections, interest, ready, cur, sock, backlog, accepted, sent>>,
           conn' \in [Fd -> Connection],
           \A g \in Fd \ {f} : KeptByOthers(conn[g], conn'[g]),
           conn'[f].id = conn[f].id, conn'[f].wantRead = conn[f].wantRead,
           conn'[f].wantClose = conn[f].wantClose,
           channels' \in [Channel -> SUBSET Nat],
           done' \in Nat, log' \in Seq(Command), executed' \in Seq(Command), failed' \in Nat,
           WritesLogged',
           RegistryOf(connections, conn', channels'),
           conn'[f].inTxn /\ conn'[f].subs # {} => pc' = "exec"
    PROVE  IInv'
  <1>1. f \in connections /\ ~conn[f].wantClose /\ connections \subseteq Fd
    BY CursorOpen DEF Handling, IInv, TypeOK
  <1>2. \A g \in Fd : conn'[g].id = conn[g].id /\ conn'[g].wantRead = conn[g].wantRead
                       /\ conn'[g].wantClose = conn[g].wantClose
    BY DEF KeptByOthers, Kept
  <1>3. TypeOK'
    BY DEF IInv, TypeOK
  <1>4. IdsUnique' /\ CursorCurrent' /\ EventsCurrent' /\ EventsOnce'
    <2>1. IdsUnique'
      BY <1>1, <1>2 DEF IInv, IdsUnique
    <2>2. CursorCurrent'
      BY DEF IInv, CursorCurrent, Handling
    <2>3. EventsCurrent'
      BY <1>1, <1>2 DEF IInv, EventsCurrent
    <2>4. EventsOnce'
      BY DEF IInv, EventsOnce
    <2> QED
      BY <2>1, <2>2, <2>3, <2>4
  <1>5. RegistryExact'
    BY RegistrySameNext
  <1>6. ModesApart'
    BY <1>1 DEF IInv, ModesApart, KeptByOthers
  <1>7. WritesLogged' /\ ErrorsReal'
    BY DEF IInv, ErrorsReal
  <1>8. InputDrained'
    BY <1>1 DEF IInv, InputDrained, KeptByOthers, Kept
  <1>10. ReadToTheEnd'
    BY <1>1, <1>2 DEF IInv, ReadToTheEnd
  <1>9. MarkedServed'
    <2> SUFFICES ASSUME NEW g \in connections, conn'[g].wantClose
                 PROVE  /\ pc' # "poll" /\ (\A e \in ready : e.fd # g) /\ g # cur.fd
                        /\ Served(g)'
      BY DEF MarkedServed
    <2>1. g \in Fd \ {f} /\ conn[g].wantClose
      BY <1>1, <1>2
    <2>2. (\A e \in ready : e.fd # g) /\ g # cur.fd /\ Served(g)
      BY <2>1 DEF IInv, MarkedServed
    <2>3. conn'[g].in = conn[g].in /\ conn'[g].out \in {conn[g].out, written(conn[g].out, "push")}
      BY <2>1 DEF KeptByOthers, Kept
    <2>4. conn[g].out \in Seq({"reply", "push"})
      BY <2>1 DEF IInv, TypeOK, Connection
    <2>5. Served(g)'
      BY <2>2, <2>3, <2>4, PushAddsNoReply DEF Served
    <2> QED
      BY <2>2, <2>5
  <1> QED
    BY <1>3, <1>4, <1>5, <1>6, <1>7, <1>8, <1>9, <1>10 DEF IInv

\* The connections once the next command was taken from a client's input.
LEMMA PoppedEffect ==
    ASSUME IInv, NEW f \in Fd, NEW cmd, AtCommand(f, cmd)
    PROVE  /\ popped(f) \in [Fd -> Connection]
           /\ popped(f)[f] = [conn[f] EXCEPT !.in = Tail(@)]
           /\ \A g \in Fd \ {f} : popped(f)[g] = conn[g]
           /\ cmd \in Command
  <1>1. conn[f].in \in Seq(Command) /\ conn[f].in # <<>> /\ conn \in [Fd -> Connection]
    BY DEF AtCommand, IInv, TypeOK, Connection
  <1>2. Tail(conn[f].in) \in Seq(Command) /\ Head(conn[f].in) \in Command
    BY <1>1
  <1>3. [conn[f] EXCEPT !.in = Tail(@)] \in Connection
    BY <1>1, <1>2 DEF Connection
  <1>4. popped(f) = [conn EXCEPT ![f] = [conn[f] EXCEPT !.in = Tail(@)]]
    BY DEF popped
  <1> QED
    BY <1>1, <1>2, <1>3, <1>4 DEF AtCommand

LEMMA KeptReflexive ==
    ASSUME NEW c \in Connection
    PROVE  KeptByOthers(c, c)
  BY DEF KeptByOthers, Kept

\* A reply to the client, and nothing more than its own queue changed.
LEMMA RefuseOrQueueStep ==
    ASSUME IInv, NEW f \in Fd, NEW cmd, Refuse(f, cmd) \/ Queue(f, cmd) \/ ExecBegin(f, cmd)
    PROVE  IInv'
  <1> DEFINE c == popped(f)
             r == reply(c, f)
  <1>1. AtCommand(f, cmd) /\ pc = "parse" /\ f = cur.fd
    BY DEF Refuse, Queue, ExecBegin, AtCommand
  <1>2. f \in connections /\ connections \subseteq Fd /\ conn \in [Fd -> Connection]
    BY <1>1, CursorOpen DEF Handling, IInv, TypeOK
  <1>3. /\ c \in [Fd -> Connection] /\ cmd \in Command
        /\ \A g \in Fd \ {f} : c[g] = conn[g]
        /\ c[f] = [conn[f] EXCEPT !.in = Tail(@)]
    BY <1>1, PoppedEffect
  <1>4. c[f].id = conn[f].id /\ c[f].wantRead = conn[f].wantRead
        /\ c[f].wantClose = conn[f].wantClose /\ c[f].inTxn = conn[f].inTxn
        /\ c[f].subs = conn[f].subs
    BY <1>2, <1>3 DEF Connection
  <1> HIDE DEF c
  <1>5. /\ r \in [Fd -> Connection]
        /\ \A g \in Fd \ {f} : r[g] = conn[g]
        /\ r[f].id = conn[f].id /\ r[f].wantRead = conn[f].wantRead
        /\ r[f].wantClose = conn[f].wantClose /\ r[f].inTxn = conn[f].inTxn
        /\ r[f].subs = conn[f].subs
    <2>0. c \in [Fd -> Connection]
      BY <1>3
    <2>1. /\ r \in [Fd -> Connection] /\ Kept(c[f], r[f])
          /\ \A g \in Fd \ {f} : r[g] = c[g]
          /\ r[f].inTxn = c[f].inTxn /\ r[f].subs = c[f].subs
      BY <2>0, ReplyEffect
    <2> HIDE DEF r
    <2> QED
      BY <1>3, <1>4, <2>1 DEF Kept
  <1> HIDE DEF r
  <1>6. /\ conn' \in [Fd -> Connection]
        /\ \A g \in Fd \ {f} : conn'[g] = conn[g]
        /\ conn'[f].id = conn[f].id /\ conn'[f].wantRead = conn[f].wantRead
        /\ conn'[f].wantClose = conn[f].wantClose /\ conn'[f].inTxn = conn[f].inTxn
        /\ conn'[f].subs = conn[f].subs
    <2>1. CASE conn' = r
      BY <1>5, <2>1
    <2>2. CASE Queue(f, cmd)
      <3>1. r[f].queued \in Seq(Command) /\ Append(r[f].queued, cmd) \in Seq(Command)
        BY <1>3, <1>5 DEF Connection
      <3>2. conn' = [r EXCEPT ![f].queued = Append(@, cmd)]
        BY <2>2 DEF Queue, r, c
      <3> QED
        BY <1>5, <3>1, <3>2 DEF Connection
    <2> QED
      BY <2>1, <2>2 DEF Refuse, ExecBegin, r, c
  <1>7. \A g \in Fd \ {f} : KeptByOthers(conn[g], conn'[g])
    BY <1>2, <1>6, KeptReflexive
  <1>8. ~(conn'[f].inTxn /\ conn'[f].subs # {})
    BY <1>1, <1>2, <1>6 DEF IInv, ModesApart
  <1>9. RegistryOf(connections, conn', channels)
    <2>1. \A g \in Fd : conn'[g].id = conn[g].id /\ conn'[g].subs = conn[g].subs
      BY <1>6
    <2>2. RegistryOf(connections, conn, channels)
      BY RegistrySame DEF IInv, TypeOK
    <2> QED
      BY <1>2, <2>1, <2>2 DEF RegistryOf
  <1>10. /\ UNCHANGED <<connections, interest, ready, cur, sock, backlog, accepted, sent>>
         /\ channels' = channels /\ done' \in Nat /\ UNCHANGED <<log, executed, failed>>
         /\ pc' \in {"parse", "exec"}
    BY <1>1 DEF Refuse, Queue, ExecBegin, IInv, TypeOK
  <1>11. /\ channels' \in [Channel -> SUBSET Nat] /\ WritesLogged' /\ log' \in Seq(Command)
         /\ executed' \in Seq(Command) /\ failed' \in Nat /\ RegistryOf(connections, conn', channels')
    BY <1>9, <1>10, LogKept DEF IInv, TypeOK
  <1> QED
    BY <1>1, <1>6, <1>7, <1>8, <1>10, <1>11, CommandStep

\* A command is logged as it ought to be, whether it succeeded or not.
LEMMA CommandLogged ==
    ASSUME IInv, NEW cmd \in Command, Outcome(cmd), log' = logged(cmd)
    PROVE  /\ WritesLogged' /\ log' \in Seq(Command)
           /\ executed' \in Seq(Command) /\ failed' \in Nat
  <1>1. /\ log \in Seq(Command) /\ executed \in Seq(Command) /\ failed \in Nat
        /\ subsequence(executed, log) /\ Len(log) = Len(executed) + failed
    BY DEF IInv, TypeOK, WritesLogged
  <1>2. CASE cmd.name \notin WriteCommand
    BY <1>1, <1>2, LogKept DEF IInv, Outcome, logged
  <1>3. CASE cmd.name \in WriteCommand /\ executed' = Append(executed, cmd) /\ failed' = failed
    <2>1. log' = Append(log, cmd) /\ log' \in Seq(Command) /\ executed' \in Seq(Command)
      BY <1>1, <1>3 DEF logged
    <2>2. subsequence(executed', log')
      BY <1>1, <1>3, <2>1, SubsequenceBoth
    <2>3. Len(log') = Len(executed') + failed'
      <3>1. Len(Append(log, cmd)) = Len(log) + 1 /\ Len(Append(executed, cmd)) = Len(executed) + 1
        BY <1>1
      <3>2. Len(executed) \in Nat
        BY <1>1
      <3> QED
        BY <1>1, <1>3, <2>1, <3>1, <3>2
    <2> QED
      BY <1>1, <1>3, <2>1, <2>2, <2>3 DEF WritesLogged
  <1>4. CASE cmd.name \in WriteCommand /\ executed' = executed /\ failed' = failed + 1
    <2>1. log' = Append(log, cmd) /\ log' \in Seq(Command)
      BY <1>1, <1>4 DEF logged
    <2>2. subsequence(executed', log')
      BY <1>1, <1>4, <2>1, SubsequenceLonger
    <2>3. Len(log') = Len(executed') + failed'
      BY <1>1, <1>4, <2>1
    <2> QED
      BY <1>1, <1>4, <2>1, <2>2, <2>3 DEF WritesLogged
  <1> QED
    BY <1>2, <1>3, <1>4 DEF Outcome

LEMMA DispatchStep ==
    ASSUME IInv, NEW f \in Fd, NEW cmd, Dispatch(f, cmd)
    PROVE  IInv'
  <1> DEFINE c == popped(f)
  <1>1. AtCommand(f, cmd) /\ pc = "parse" /\ f = cur.fd
    BY DEF Dispatch, AtCommand
  <1>2. f \in connections /\ connections \subseteq Fd /\ conn \in [Fd -> Connection]
    BY <1>1, CursorOpen DEF Handling, IInv, TypeOK
  <1>3. /\ c \in [Fd -> Connection] /\ cmd \in Command
        /\ \A g \in Fd \ {f} : c[g] = conn[g]
        /\ c[f] = [conn[f] EXCEPT !.in = Tail(@)]
    BY <1>1, PoppedEffect
  <1>4. c[f].id = conn[f].id /\ c[f].wantRead = conn[f].wantRead
        /\ c[f].wantClose = conn[f].wantClose /\ c[f].inTxn = conn[f].inTxn
        /\ c[f].subs = conn[f].subs
    BY <1>2, <1>3 DEF Connection
  <1>5. dispatch(c, f, cmd)
    BY DEF Dispatch
  <1>6. TypeOK /\ channels \in [Channel -> SUBSET Nat]
    BY DEF IInv, TypeOK
  <1> HIDE DEF c
  <1>7. /\ conn' \in [Fd -> Connection]
        /\ \A g \in Fd \ {f} : KeptByOthers(conn[g], conn'[g])
        /\ conn'[f].id = conn[f].id /\ conn'[f].wantRead = conn[f].wantRead
        /\ conn'[f].wantClose = conn[f].wantClose
        /\ channels' \in [Channel -> SUBSET Nat]
        /\ Outcome(cmd)
    <2>1. /\ conn' \in [Fd -> Connection] /\ Kept(c[f], conn'[f])
          /\ \A g \in Fd \ {f} : KeptByOthers(c[g], conn'[g])
          /\ channels' \in [Channel -> SUBSET Nat]
          /\ Outcome(cmd)
      BY <1>3, <1>5, <1>6, CommandEffect
    <2>2. \A g \in Fd \ {f} : KeptByOthers(conn[g], conn'[g])
      BY <1>3, <2>1
    <2> QED
      BY <1>4, <2>1, <2>2 DEF Kept
  <1>8. RegistryOf(connections, conn', channels')
    <2>1. \A g \in Fd : c[g].id = conn[g].id /\ c[g].subs = conn[g].subs
      BY <1>3, <1>4
    <2>2. RegistryOf(connections, c, channels)
      <3>1. RegistryOf(connections, conn, channels)
        BY <1>6, RegistrySame DEF IInv
      <3> QED
        BY <1>2, <2>1, <3>1 DEF RegistryOf
    <2>3. \A g, h \in connections : c[g].id = c[h].id => g = h
      BY <1>2, <2>1 DEF IInv, IdsUnique
    <2> QED
      BY <1>2, <1>3, <1>5, <1>6, <2>2, <2>3, CommandRegistry
  <1>9. ~(conn'[f].inTxn /\ conn'[f].subs # {})
    <2>1. ~(c[f].inTxn /\ c[f].subs # {})
      BY <1>1, <1>2, <1>4 DEF IInv, ModesApart
    <2>2. ~gated(c[f], cmd) /\ ~queueable(c[f], cmd)
      BY <1>4 DEF Dispatch, gated, queueable
    <2> QED
      BY <1>3, <1>5, <1>6, <2>1, <2>2, CommandModes
  <1>10. /\ WritesLogged' /\ log' \in Seq(Command)
         /\ executed' \in Seq(Command) /\ failed' \in Nat
    BY <1>3, <1>7, CommandLogged DEF Dispatch
  <1>11. /\ UNCHANGED <<connections, interest, ready, cur, sock, backlog, accepted, sent>>
         /\ done' \in Nat /\ pc' \in {"parse", "exec"}
    BY <1>1, <1>6 DEF Dispatch, TypeOK
  <1> QED
    BY <1>1, <1>7, <1>8, <1>9, <1>10, <1>11, CommandStep

LEMMA ExecStepStep ==
    ASSUME IInv, NEW f \in Fd, ExecStep(f)
    PROVE  IInv'
  <1> DEFINE cmd == conn[f].queued[done + 1]
  <1>1. pc = "exec" /\ f = cur.fd /\ done < Len(conn[f].queued)
    BY DEF ExecStep
  <1>2. f \in connections /\ connections \subseteq Fd /\ conn \in [Fd -> Connection]
        /\ TypeOK /\ done \in Nat
    BY <1>1, CursorOpen DEF Handling, IInv, TypeOK
  <1>3. cmd \in Command
    <2>1. conn[f].queued \in Seq(Command)
      BY <1>2 DEF Connection
    <2> QED
      BY <1>1, <1>2, <2>1
  <1>4. dispatch(conn, f, cmd) /\ log' = logged(cmd)
    BY DEF ExecStep
  <1> HIDE DEF cmd
  <1>5. /\ conn' \in [Fd -> Connection] /\ Kept(conn[f], conn'[f])
        /\ \A g \in Fd \ {f} : KeptByOthers(conn[g], conn'[g])
        /\ channels' \in [Channel -> SUBSET Nat]
        /\ Outcome(cmd)
    BY <1>2, <1>3, <1>4, CommandEffect
  <1>6. RegistryOf(connections, conn', channels')
    <2>1. RegistryOf(connections, conn, channels)
      BY RegistrySame DEF IInv, TypeOK
    <2>2. \A g, h \in connections : conn[g].id = conn[h].id => g = h
      BY DEF IInv, IdsUnique
    <2> QED
      BY <1>2, <1>3, <1>4, <2>1, <2>2, CommandRegistry
  <1>7. /\ WritesLogged' /\ log' \in Seq(Command)
        /\ executed' \in Seq(Command) /\ failed' \in Nat
    BY <1>3, <1>4, <1>5, CommandLogged
  <1>8. /\ UNCHANGED <<connections, interest, ready, cur, sock, backlog, accepted, sent>>
        /\ done' \in Nat /\ pc' = "exec"
    BY <1>1, <1>2 DEF ExecStep
  <1> QED
    BY <1>1, <1>5, <1>6, <1>7, <1>8, CommandStep DEF Kept

LEMMA ExecEndStep ==
    ASSUME IInv, NEW f \in Fd, ExecEnd(f)
    PROVE  IInv'
  <1> DEFINE d == [conn[f] EXCEPT !.inTxn = FALSE, !.queued = <<>>]
  <1>1. f = cur.fd /\ pc = "exec" /\ f \in connections /\ connections \subseteq Fd
        /\ conn \in [Fd -> Connection]
    BY CursorOpen DEF ExecEnd, Handling, IInv, TypeOK
  <1>2. /\ d \in Connection /\ d.id = conn[f].id /\ d.wantRead = conn[f].wantRead
        /\ d.wantClose = conn[f].wantClose /\ d.inTxn = FALSE /\ d.subs = conn[f].subs
    <2>1. <<>> \in Seq(Command)
      OBVIOUS
    <2> QED
      BY <1>1, <2>1 DEF Connection
  <1>3. conn' = [conn EXCEPT ![f] = d]
    BY <1>1 DEF ExecEnd
  <1> HIDE DEF d
  <1>4. conn' \in [Fd -> Connection] /\ conn'[f] = d /\ \A g \in Fd \ {f} : conn'[g] = conn[g]
    BY <1>1, <1>2, <1>3
  <1>5. \A g \in Fd \ {f} : KeptByOthers(conn[g], conn'[g])
    BY <1>1, <1>4, KeptReflexive
  <1>6. RegistryOf(connections, conn', channels)
    <2>1. \A g \in Fd : conn'[g].id = conn[g].id /\ conn'[g].subs = conn[g].subs
      BY <1>2, <1>4
    <2>2. RegistryOf(connections, conn, channels)
      BY RegistrySame DEF IInv, TypeOK
    <2> QED
      BY <1>1, <2>1, <2>2 DEF RegistryOf
  <1>7. /\ UNCHANGED <<connections, interest, ready, cur, sock, backlog, accepted, sent>>
        /\ done' \in Nat /\ pc' = "parse"
        /\ channels' = channels /\ WritesLogged' /\ log' \in Seq(Command)
        /\ executed' \in Seq(Command) /\ failed' \in Nat
        /\ channels' \in [Channel -> SUBSET Nat]
    BY LogKept DEF ExecEnd, IInv, TypeOK
  <1>8. RegistryOf(connections, conn', channels')
    BY <1>6, <1>7
  <1> QED
    BY <1>1, <1>2, <1>4, <1>5, <1>7, <1>8, CommandStep

\* Steps that leave addresses, modes and subscriptions alone.
LEMMA ModesKept ==
    ASSUME IInv, pc # "exec",
           UNCHANGED <<connections, channels, accepted>>,
           conn' \in [Fd -> Connection],
           \A g \in Fd : /\ conn'[g].id = conn[g].id /\ conn'[g].inTxn = conn[g].inTxn
                         /\ conn'[g].subs = conn[g].subs
    PROVE  IdsUnique' /\ RegistryExact' /\ ModesApart'
  <1>1. connections \subseteq Fd /\ channels \in [Channel -> SUBSET Nat]
    BY DEF IInv, TypeOK
  <1>2. IdsUnique'
    BY <1>1 DEF IInv, IdsUnique
  <1>3. RegistryExact'
    <2>1. RegistryOf(connections, conn, channels)
      BY <1>1, RegistrySame DEF IInv
    <2>2. RegistryOf(connections', conn', channels')
      BY <1>1, <2>1 DEF RegistryOf
    <2> QED
      BY <1>1, <2>2, RegistrySameNext
  <1>4. ModesApart'
    BY <1>1 DEF IInv, ModesApart
  <1> QED
    BY <1>2, <1>3, <1>4

LEMMA ParseDoneStep ==
    ASSUME IInv, NEW f \in Fd, ParseDone(f)
    PROVE  IInv'
  <1> DEFINE d == [conn[f] EXCEPT !.wantWrite = @ \/ conn[f].out # <<>>]
  <1>1. pc = "parse" /\ pc' = "write" /\ f = cur.fd /\ conn[f].in = <<>>
        /\ UNCHANGED <<connections, channels, interest, ready, cur, done, log, executed, failed>>
        /\ UNCHANGED <<sock, backlog, accepted, sent>>
        /\ conn' = [conn EXCEPT ![f] = d]
    BY DEF ParseDone
  <1>2. conn \in [Fd -> Connection] /\ connections \subseteq Fd
    BY DEF IInv, TypeOK
  <1>3. d \in Connection /\ Kept(conn[f], d) /\ d.out = conn[f].out
        /\ d.inTxn = conn[f].inTxn /\ d.subs = conn[f].subs
    BY <1>2 DEF Connection, Kept
  <1> HIDE DEF d
  <1>4. conn' \in [Fd -> Connection]
        /\ \A g \in Fd : /\ Kept(conn[g], conn'[g]) /\ conn'[g].out = conn[g].out
                          /\ conn'[g].inTxn = conn[g].inTxn /\ conn'[g].subs = conn[g].subs
    BY <1>1, <1>2, <1>3 DEF Kept
  <1>5. IdsUnique' /\ RegistryExact' /\ ModesApart'
    BY <1>1, <1>4, ModesKept DEF Kept
  <1>6. TypeOK' /\ CursorCurrent' /\ EventsOnce' /\ WritesLogged' /\ ErrorsReal'
    BY <1>1, <1>4, LogKept DEF IInv, TypeOK, CursorCurrent, Handling, EventsOnce, ErrorsReal
  <1>7. EventsCurrent'
    BY <1>1, <1>2, <1>4 DEF IInv, EventsCurrent, Kept
  <1>8. InputDrained'
    BY <1>1, <1>2, <1>4 DEF IInv, InputDrained, Kept
  <1>9. ReadToTheEnd'
    BY <1>1, <1>2, <1>4 DEF IInv, ReadToTheEnd, Kept
  <1>10. MarkedServed'
    BY <1>1, <1>2, <1>4 DEF IInv, MarkedServed, Served, Kept
  <1> QED
    BY <1>5, <1>6, <1>7, <1>8, <1>9, <1>10 DEF IInv

LEMMA WriteOnlyStep ==
    ASSUME IInv, NEW e \in ready, HandleWriteOnly(e)
    PROVE  IInv'
  <1>1. /\ pc = "pass" /\ pc' = "write" /\ e.fd # Listener /\ e.fd \in connections
        /\ ready' = ready \ {e} /\ cur' = e
        /\ UNCHANGED <<connections, conn, channels, interest, done, log, executed, failed>>
        /\ UNCHANGED <<sock, backlog, accepted, sent>>
    BY DEF HandleWriteOnly
  <1>2. conn \in [Fd -> Connection] /\ connections \subseteq Fd /\ e \in Event
    BY DEF IInv, TypeOK
  <1>3. IdsUnique' /\ RegistryExact' /\ ModesApart'
    BY <1>1, <1>2, ModesKept
  <1>4. TypeOK' /\ CursorCurrent' /\ WritesLogged' /\ ErrorsReal'
    BY <1>1, <1>2, LogKept DEF IInv, TypeOK, CursorCurrent, Handling, ErrorsReal
  <1>5. EventsCurrent' /\ EventsOnce'
    BY <1>1 DEF IInv, EventsCurrent, EventsOnce
  <1>6. InputDrained' /\ ReadToTheEnd'
    BY <1>1 DEF IInv, InputDrained, ReadToTheEnd
  <1>7. MarkedServed'
    BY <1>1 DEF IInv, MarkedServed, Served
  <1> QED
    BY <1>3, <1>4, <1>5, <1>6, <1>7 DEF IInv

LEMMA ErrorStep ==
    ASSUME IInv, NEW e \in ready, HandleError(e)
    PROVE  IInv'
  <1> DEFINE f == e.fd
             d == [conn[f] EXCEPT !.wantClose = TRUE]
  <1>1. /\ pc = "pass" /\ pc' = pc /\ e.fd # Listener
        /\ ready' = ready \ {e}
        /\ UNCHANGED <<connections, channels, interest, cur, done, log, executed, failed>>
        /\ UNCHANGED <<sock, backlog, accepted, sent>>
    BY DEF HandleError
  <1>2. conn \in [Fd -> Connection] /\ connections \subseteq Fd
    BY DEF IInv, TypeOK
  <1>3. f \in connections /\ f \in Fd
    BY <1>1, <1>2 DEF IInv, EventsCurrent
  <1>4. "ERR" \in e.ev /\ conn' = [conn EXCEPT ![f] = d]
    BY <1>3 DEF HandleError
  <1>5. d \in Connection /\ d = [conn[f] EXCEPT !.wantClose = TRUE] /\ d.id = conn[f].id
        /\ d.in = conn[f].in /\ d.wantRead = conn[f].wantRead
        /\ d.inTxn = conn[f].inTxn /\ d.subs = conn[f].subs
    BY <1>2, <1>3 DEF Connection
  <1> HIDE DEF d
  <1>6. /\ conn' \in [Fd -> Connection]
        /\ \A g \in Fd \ {f} : conn'[g] = conn[g]
        /\ \A g \in Fd : /\ conn'[g].id = conn[g].id /\ conn'[g].in = conn[g].in
                          /\ conn'[g].wantRead = conn[g].wantRead
                          /\ conn'[g].inTxn = conn[g].inTxn /\ conn'[g].subs = conn[g].subs
    BY <1>2, <1>4, <1>5
  <1> HIDE DEF f
  <1>7. IdsUnique' /\ RegistryExact' /\ ModesApart'
    BY <1>1, <1>6, ModesKept
  <1>8. TypeOK' /\ CursorCurrent' /\ WritesLogged' /\ ErrorsReal'
    BY <1>1, <1>6, LogKept DEF IInv, TypeOK, CursorCurrent, Handling, ErrorsReal
  <1>9. EventsCurrent' /\ EventsOnce'
    BY <1>1, <1>2, <1>6 DEF IInv, EventsCurrent, EventsOnce
  <1>10. InputDrained' /\ ReadToTheEnd'
    BY <1>1, <1>2, <1>6 DEF IInv, InputDrained, ReadToTheEnd
  <1>11. MarkedServed'
    <2> SUFFICES ASSUME NEW g \in connections, conn'[g].wantClose
                 PROVE  /\ \A x \in ready' : x.fd # g
                        /\ g # cur.fd
                        /\ Served(g)'
      BY <1>1 DEF MarkedServed
    <2>1. CASE g = f
      <3>1. sock'[f].state \in {"reset", "hup"}
        BY <1>1, <1>4 DEF IInv, ErrorsReal, f
      <3>2. Served(f)'
        BY <3>1 DEF Served
      <3>3. \A x \in ready' : x.fd # f
        BY <1>1 DEF IInv, EventsOnce, f
      <3>4. f # cur.fd
        BY <1>1 DEF IInv, EventsOnce, f
      <3> QED
        BY <2>1, <3>2, <3>3, <3>4
    <2>2. CASE g # f
      <3>1. conn'[g] = conn[g] /\ conn[g].wantClose
        BY <1>2, <1>6, <2>2
      <3> QED
        BY <1>1, <3>1 DEF IInv, MarkedServed, Served
    <2> QED
      BY <2>1, <2>2
  <1> QED
    BY <1>7, <1>8, <1>9, <1>10, <1>11 DEF IInv

Socket == [state : {"none", "open", "half", "reset", "hup"}, toServer : Seq(Command)]

\* handleRead takes a part of what has arrived, or finds the end.
LEMMA ReadEffect ==
    ASSUME IInv, NEW e \in ready, HandleRead(e)
    PROVE  LET f == e.fd IN
           /\ conn' \in [Fd -> Connection] /\ sock' \in [Fd -> Socket]
           /\ \A g \in Fd \ {f} : conn'[g] = conn[g] /\ sock'[g] = sock[g]
           /\ conn'[f].id = conn[f].id /\ conn'[f].inTxn = conn[f].inTxn
           /\ conn'[f].subs = conn[f].subs /\ conn'[f].wantClose = conn[f].wantClose
           /\ sock[f].state \in {"reset", "hup"} => sock'[f].state \in {"reset", "hup"}
           /\ ~conn'[f].wantRead =>
                 sock'[f].state # "open" /\ sock'[f].toServer = <<>>
  <1> DEFINE f == e.fd
             s == sock[f]
  <1>1. conn \in [Fd -> Connection] /\ connections \subseteq Fd /\ sock \in [Fd -> Socket]
    BY DEF IInv, TypeOK, Socket
  <1>2. f \in connections /\ f \in Fd /\ conn[f] \in Connection /\ s \in Socket
    BY <1>1 DEF HandleRead
  <1>3. s.toServer \in Seq(Command) /\ conn[f].in \in Seq(Command)
    BY <1>2 DEF Socket, Connection
  <1>4. ~conn[f].wantRead => s.state # "open" /\ s.toServer = <<>>
    BY <1>2 DEF IInv, ReadToTheEnd
  <1>5. CASE s.toServer # <<>>
    <2>1. PICK n \in 1..Len(s.toServer) :
             /\ conn' = [conn EXCEPT ![f].in = @ \o SubSeq(s.toServer, 1, n)]
             /\ sock' = [sock EXCEPT ![f].toServer = SubSeq(@, n + 1, Len(@))]
      BY <1>5 DEF HandleRead
    <2> DEFINE c == [conn[f] EXCEPT !.in = @ \o SubSeq(s.toServer, 1, n)]
               t == [s EXCEPT !.toServer = SubSeq(@, n + 1, Len(@))]
    <2>2. /\ SubSeq(s.toServer, 1, n) \in Seq(Command)
          /\ SubSeq(s.toServer, n + 1, Len(s.toServer)) \in Seq(Command)
      BY <1>3
    <2>3. conn[f].in \o SubSeq(s.toServer, 1, n) \in Seq(Command)
      BY <1>3, <2>2
    <2>4. /\ c \in Connection /\ c.id = conn[f].id /\ c.inTxn = conn[f].inTxn
          /\ c.subs = conn[f].subs /\ c.wantClose = conn[f].wantClose
          /\ c.wantRead = conn[f].wantRead
      BY <1>2, <2>3 DEF Connection
    <2>5. t \in Socket /\ t.state = s.state
      BY <1>2, <2>2 DEF Socket
    <2>6. conn' = [conn EXCEPT ![f] = c] /\ sock' = [sock EXCEPT ![f] = t]
      BY <2>1
    <2> HIDE DEF c, t
    <2>7. /\ conn' \in [Fd -> Connection] /\ sock' \in [Fd -> Socket]
          /\ conn'[f] = c /\ sock'[f] = t
          /\ \A g \in Fd \ {f} : conn'[g] = conn[g] /\ sock'[g] = sock[g]
      BY <1>1, <1>2, <2>4, <2>5, <2>6
    <2> QED
      BY <1>4, <1>5, <2>4, <2>5, <2>7
  <1>6. CASE s.toServer = <<>>
    <2> DEFINE c == [conn[f] EXCEPT !.wantRead = @ /\ s.state = "open"]
               t == [s EXCEPT !.state = IF @ = "reset" THEN "hup" ELSE @]
    <2>1. conn' = [conn EXCEPT ![f] = c] /\ sock' = [sock EXCEPT ![f] = t]
      BY <1>6 DEF HandleRead
    <2>2. /\ c \in Connection /\ c.id = conn[f].id /\ c.inTxn = conn[f].inTxn
          /\ c.subs = conn[f].subs /\ c.wantClose = conn[f].wantClose
          /\ c.wantRead = (conn[f].wantRead /\ s.state = "open")
      BY <1>2 DEF Connection
    <2>3. /\ t \in Socket /\ t.toServer = <<>>
          /\ t.state = IF s.state = "reset" THEN "hup" ELSE s.state
      BY <1>2, <1>6 DEF Socket
    <2> HIDE DEF c, t
    <2>4. /\ conn' \in [Fd -> Connection] /\ sock' \in [Fd -> Socket]
          /\ conn'[f] = c /\ sock'[f] = t
          /\ \A g \in Fd \ {f} : conn'[g] = conn[g] /\ sock'[g] = sock[g]
      BY <1>1, <1>2, <2>1, <2>2, <2>3
    <2> QED
      BY <1>4, <2>2, <2>3, <2>4
  <1> QED
    BY <1>5, <1>6

LEMMA ReadStep ==
    ASSUME IInv, NEW e \in ready, HandleRead(e)
    PROVE  IInv'
  <1> DEFINE f == e.fd
  <1>1. /\ pc = "pass" /\ pc' = "parse" /\ f # Listener /\ f \in connections
        /\ ready' = ready \ {e} /\ cur' = e
        /\ UNCHANGED <<connections, channels, interest, done, log, executed, failed>>
        /\ UNCHANGED <<backlog, accepted, sent>>
    BY DEF HandleRead
  <1>2. connections \subseteq Fd /\ f \in Fd /\ e \in Event
    BY <1>1 DEF IInv, TypeOK
  <1>3. /\ conn' \in [Fd -> Connection] /\ sock' \in [Fd -> Socket]
        /\ \A g \in Fd \ {f} : conn'[g] = conn[g] /\ sock'[g] = sock[g]
        /\ conn'[f].id = conn[f].id /\ conn'[f].inTxn = conn[f].inTxn
        /\ conn'[f].subs = conn[f].subs /\ conn'[f].wantClose = conn[f].wantClose
        /\ sock[f].state \in {"reset", "hup"} => sock'[f].state \in {"reset", "hup"}
        /\ ~conn'[f].wantRead => sock'[f].state # "open" /\ sock'[f].toServer = <<>>
    BY ReadEffect
  <1>4. IdsUnique' /\ RegistryExact' /\ ModesApart'
    BY <1>1, <1>3, ModesKept
  <1>5. TypeOK' /\ CursorCurrent' /\ WritesLogged'
    BY <1>1, <1>2, <1>3, LogKept DEF IInv, TypeOK, CursorCurrent, Handling, Socket
  <1>6. EventsCurrent' /\ EventsOnce'
    <2>1. \A g \in Fd : conn'[g].id = conn[g].id
      BY <1>3
    <2> QED
      BY <1>1, <1>2, <2>1 DEF IInv, EventsCurrent, EventsOnce
  <1>7. ErrorsReal'
    <2> SUFFICES ASSUME NEW x \in ready', x.fd # Listener, "ERR" \in x.ev
                 PROVE  sock'[x.fd].state \in {"reset", "hup"}
      BY DEF ErrorsReal
    <2>1. x \in ready /\ x.fd \in connections /\ x.fd # f
      BY <1>1 DEF IInv, EventsCurrent, EventsOnce
    <2> QED
      BY <1>2, <1>3, <2>1 DEF IInv, ErrorsReal
  <1>8. InputDrained'
    BY <1>1, <1>2, <1>3 DEF IInv, InputDrained
  <1>9. ReadToTheEnd'
    BY <1>1, <1>2, <1>3 DEF IInv, ReadToTheEnd
  <1>10. MarkedServed'
    <2> SUFFICES ASSUME NEW g \in connections, conn'[g].wantClose
                 PROVE  /\ \A x \in ready' : x.fd # g
                        /\ g # cur'.fd
                        /\ Served(g)'
      BY <1>1 DEF MarkedServed
    <2>1. conn[g].wantClose
      BY <1>2, <1>3
    <2>2. (\A x \in ready : x.fd # g) /\ Served(g)
      BY <2>1 DEF IInv, MarkedServed
    <2>3. g # f
      BY <2>2
    <2> QED
      BY <1>1, <1>2, <1>3, <2>2, <2>3 DEF Served
  <1> QED
    BY <1>4, <1>5, <1>6, <1>7, <1>8, <1>9, <1>10 DEF IInv

\* The rest of an event marks a connection only when its client is gone, or when
\* nothing is left to read or to write.
LEMMA FinishEffect ==
    ASSUME IInv, NEW f \in Fd, FinishEvent(f)
    PROVE  /\ conn' \in [Fd -> Connection]
           /\ interest' \in [Fd -> SUBSET {"IN", "OUT"}]
           /\ \A g \in Fd \ {f} : conn'[g] = conn[g]
           /\ conn'[f].id = conn[f].id /\ conn'[f].in = conn[f].in
           /\ conn'[f].wantRead = conn[f].wantRead
           /\ conn'[f].inTxn = conn[f].inTxn /\ conn'[f].subs = conn[f].subs
           /\ conn'[f].wantClose =>
                 \/ sock[f].state \in {"reset", "hup"}
                 \/ ~conn[f].wantRead /\ conn'[f].out = <<>>
  <1> DEFINE c == conn[f]
             try == "OUT" \in cur.ev /\ ~c.wantClose /\ c.out # <<>>
             fails == try /\ sock[f].state \in {"reset", "hup"}
             mid(n) == IF fails THEN [c EXCEPT !.wantClose = TRUE]
                       ELSE IF "OUT" \in cur.ev THEN handleWrite(c, n) ELSE c
             after(n) == closeIfDone(mid(n))
  <1>1. PICK n \in 0..Len(c.out) :
           /\ conn' = [conn EXCEPT ![f] = after(n)]
           /\ interest' = IF after(n).wantClose THEN interest
                          ELSE [interest EXCEPT ![f] = desired(after(n))]
    BY DEF FinishEvent
  <1>2. conn \in [Fd -> Connection] /\ interest \in [Fd -> SUBSET {"IN", "OUT"}]
        /\ c \in Connection /\ c.out \in Seq({"reply", "push"})
    BY DEF IInv, TypeOK, Connection
  <1>3. ~c.wantClose
    BY CursorOpen DEF FinishEvent, Handling
  <1>4. SubSeq(c.out, n + 1, Len(c.out)) \in Seq({"reply", "push"})
    BY <1>2
  <1>5. /\ mid(n) \in Connection /\ mid(n).id = c.id /\ mid(n).in = c.in
        /\ mid(n).wantRead = c.wantRead /\ mid(n).inTxn = c.inTxn /\ mid(n).subs = c.subs
        /\ mid(n).wantClose => sock[f].state \in {"reset", "hup"}
    <2>1. CASE fails
      BY <1>2, <2>1 DEF Connection
    <2>2. CASE ~fails /\ "OUT" \in cur.ev
      <3>1. mid(n) = handleWrite(c, n)
        BY <2>2
      <3> HIDE DEF mid
      <3> QED
        BY <1>2, <1>3, <1>4, <3>1 DEF Connection, handleWrite
    <2>3. CASE ~fails /\ "OUT" \notin cur.ev
      BY <1>2, <1>3, <2>3
    <2> QED
      BY <2>1, <2>2, <2>3
  <1> HIDE DEF mid
  <1>6. /\ after(n) \in Connection /\ after(n).id = c.id /\ after(n).in = c.in
        /\ after(n).wantRead = c.wantRead /\ after(n).inTxn = c.inTxn
        /\ after(n).subs = c.subs
        /\ after(n).wantClose =>
              \/ sock[f].state \in {"reset", "hup"}
              \/ ~c.wantRead /\ after(n).out = <<>>
    BY <1>5 DEF closeIfDone, Connection
  <1> HIDE DEF after
  <1>7. desired(after(n)) \in SUBSET {"IN", "OUT"}
    BY DEF desired
  <1>8. interest' \in [Fd -> SUBSET {"IN", "OUT"}]
    BY <1>1, <1>2, <1>7
  <1> QED
    BY <1>1, <1>2, <1>6, <1>8

LEMMA FinishStep ==
    ASSUME IInv, NEW f \in Fd, FinishEvent(f)
    PROVE  IInv'
  <1>1. /\ pc = "write" /\ f = cur.fd /\ pc' = "pass" /\ cur' = NoEvent
        /\ UNCHANGED <<connections, channels, ready, done, log, executed, failed>>
        /\ UNCHANGED <<sock, backlog, accepted, sent>>
    BY DEF FinishEvent
  <1>2. connections \subseteq Fd /\ f \in connections /\ f # Listener
    BY <1>1, CursorOpen, FdAssumption DEF Handling, IInv, TypeOK, Listener
  <1>3. /\ conn' \in [Fd -> Connection]
        /\ interest' \in [Fd -> SUBSET {"IN", "OUT"}]
        /\ \A g \in Fd \ {f} : conn'[g] = conn[g]
        /\ conn'[f].id = conn[f].id /\ conn'[f].in = conn[f].in
        /\ conn'[f].wantRead = conn[f].wantRead
        /\ conn'[f].inTxn = conn[f].inTxn /\ conn'[f].subs = conn[f].subs
        /\ conn'[f].wantClose =>
              \/ sock[f].state \in {"reset", "hup"}
              \/ ~conn[f].wantRead /\ conn'[f].out = <<>>
    BY FinishEffect
  <1>4. IdsUnique' /\ RegistryExact' /\ ModesApart'
    BY <1>1, <1>3, ModesKept
  <1>5. cur' \in Event /\ cur'.fd = Listener
    BY <1>1 DEF NoEvent, Event
  <1>6. TypeOK' /\ CursorCurrent' /\ WritesLogged' /\ ErrorsReal'
    BY <1>1, <1>3, <1>5, LogKept DEF IInv, TypeOK, CursorCurrent, Handling, ErrorsReal
  <1>7. EventsCurrent' /\ EventsOnce'
    <2>1. \A g \in Fd : conn'[g].id = conn[g].id
      BY <1>3
    <2>2. EventsCurrent'
      BY <1>1, <1>2, <1>5, <2>1 DEF IInv, EventsCurrent
    <2>3. EventsOnce'
      BY <1>1, <1>5 DEF IInv, EventsOnce
    <2> QED
      BY <2>2, <2>3
  <1>8. InputDrained' /\ ReadToTheEnd'
    BY <1>1, <1>2, <1>3 DEF IInv, InputDrained, ReadToTheEnd
  <1>9. MarkedServed'
    <2> SUFFICES ASSUME NEW g \in connections, conn'[g].wantClose
                 PROVE  (\A e \in ready : e.fd # g) /\ g # cur'.fd /\ Served(g)'
      BY <1>1 DEF MarkedServed
    <2>1. g # cur'.fd
      BY <1>2, <1>5, FdAssumption DEF Listener
    <2>2. CASE g = f
      <3>1. \A e \in ready : e.fd # f
        BY <1>1, <1>2 DEF IInv, EventsOnce
      <3>2. conn'[f].in = <<>>
        BY <1>1, <1>2, <1>3 DEF IInv, InputDrained
      <3>3. ~conn[f].wantRead => sock[f].toServer = <<>>
        BY <1>2 DEF IInv, ReadToTheEnd
      <3>4. Served(f)'
        BY <1>1, <1>3, <2>2, <3>2, <3>3 DEF Served
      <3> QED
        BY <2>1, <2>2, <3>1, <3>4
    <2>3. CASE g # f
      <3>1. conn'[g] = conn[g]
        BY <1>2, <1>3, <2>3
      <3> QED
        BY <1>1, <2>1, <3>1 DEF IInv, MarkedServed, Served
    <2> QED
      BY <2>2, <2>3
  <1> QED
    BY <1>4, <1>6, <1>7, <1>8, <1>9 DEF IInv

LEMMA PollStep ==
    ASSUME IInv, NEW full, Poll(full)
    PROVE  IInv'
  <1> DEFINE event(f) == [fd |-> f, id |-> conn[f].id, ev |-> eventsAt(f, f \in full)]
             listen == [NoEvent EXCEPT !.ev = {"IN"}]
  <1>1. /\ pc = "poll" /\ pc' = "pass"
        /\ UNCHANGED <<connections, conn, channels, interest, cur, done, log, executed, failed>>
        /\ UNCHANGED <<sock, backlog, accepted, sent>>
    BY DEF Poll
  <1>2. conn \in [Fd -> Connection] /\ connections \subseteq Fd
    BY DEF IInv, TypeOK
  <1>3. \A e \in ready' : \/ e = listen
                           \/ \E f \in connections : e = event(f)
    BY DEF Poll
  <1>4. cur.fd = Listener
    BY <1>1 DEF IInv, CursorCurrent, Handling
  <1>5. ASSUME NEW f \in connections
        PROVE  /\ event(f) \in Event /\ event(f).fd = f /\ f # Listener
               /\ event(f).id = conn[f].id
               /\ "ERR" \in event(f).ev => sock[f].state = "reset"
    <2>1. eventsAt(f, f \in full) \subseteq {"IN", "OUT", "ERR", "HUP"}
      BY DEF eventsAt
    <2>2. "ERR" \in eventsAt(f, f \in full) => sock[f].state = "reset"
      BY DEF eventsAt
    <2>3. f \in Fd /\ conn[f].id \in Nat /\ f # Listener
      BY <1>2, FdAssumption DEF Connection, Listener
    <2> QED
      BY <2>1, <2>2, <2>3 DEF Event
  <1>6. listen \in Event /\ listen.fd = Listener
    BY DEF NoEvent, Event
  <1> HIDE DEF event, listen
  <1>7. ready' \subseteq Event
    BY <1>3, <1>5, <1>6
  <1>8. IdsUnique' /\ RegistryExact' /\ ModesApart'
    BY <1>1, <1>2, ModesKept
  <1>9. TypeOK' /\ CursorCurrent' /\ WritesLogged'
    BY <1>1, <1>7, LogKept DEF IInv, TypeOK, CursorCurrent, Handling
  <1>10. EventsCurrent' /\ EventsOnce'
    <2>1. EventsCurrent'
      BY <1>1, <1>3, <1>4, <1>5, <1>6 DEF EventsCurrent
    <2>2. EventsOnce'
      BY <1>1, <1>3, <1>4, <1>5, <1>6 DEF EventsOnce
    <2> QED
      BY <2>1, <2>2
  <1>11. ErrorsReal'
    BY <1>1, <1>3, <1>5, <1>6 DEF ErrorsReal
  <1>12. InputDrained' /\ ReadToTheEnd'
    BY <1>1 DEF IInv, InputDrained, ReadToTheEnd
  <1>13. MarkedServed'
    BY <1>1 DEF IInv, MarkedServed
  <1> QED
    BY <1>8, <1>9, <1>10, <1>11, <1>12, <1>13 DEF IInv

LEMMA NewConnectionType ==
    ASSUME NEW id \in Nat
    PROVE  /\ NewConnection(id) \in Connection /\ NewConnection(id).id = id
           /\ NewConnection(id).in = <<>> /\ NewConnection(id).wantRead = TRUE
           /\ NewConnection(id).wantClose = FALSE /\ NewConnection(id).inTxn = FALSE
           /\ NewConnection(id).subs = {}
  <1>1. <<>> \in Seq(Command) /\ <<>> \in Seq({"reply", "push"})
    OBVIOUS
  <1> QED
    BY <1>1 DEF NewConnection, Connection

LEMMA AcceptStep ==
    ASSUME IInv, AcceptClient
    PROVE  IInv'
  <1> DEFINE c == NewConnection(accepted + 1)
  <1>1. /\ pc = "pass" /\ backlog > 0
        /\ backlog' = backlog - 1 /\ accepted' = accepted + 1
        /\ UNCHANGED <<channels, pc, ready, cur, done, log, executed, failed, sent>>
    BY DEF AcceptClient
  <1>2. PICK f \in Fd \ connections :
           /\ connections' = connections \cup {f}
           /\ conn' = [conn EXCEPT ![f] = c]
           /\ interest' = [interest EXCEPT ![f] = {"IN"}]
           /\ sock' = [sock EXCEPT ![f].state = "open"]
    BY DEF AcceptClient
  <1>3. /\ conn \in [Fd -> Connection] /\ connections \subseteq Fd /\ accepted \in Nat
        /\ backlog \in Nat /\ sock \in [Fd -> Socket] /\ channels \in [Channel -> SUBSET Nat]
    BY DEF IInv, TypeOK, Socket
  <1>4. /\ c \in Connection /\ c.id = accepted + 1 /\ c.in = <<>> /\ c.wantRead = TRUE
        /\ c.wantClose = FALSE /\ c.inTxn = FALSE /\ c.subs = {}
    <2>1. accepted + 1 \in Nat
      BY <1>3
    <2> QED
      BY <2>1, NewConnectionType
  <1> HIDE DEF c
  <1>5. /\ conn' \in [Fd -> Connection] /\ conn'[f] = c
        /\ \A g \in connections : conn'[g] = conn[g] /\ g # f
    BY <1>2, <1>3, <1>4
  <1>6. sock' \in [Fd -> Socket] /\ \A g \in connections : sock'[g] = sock[g]
    <2>1. [sock[f] EXCEPT !.state = "open"] \in Socket
      BY <1>3 DEF Socket
    <2> QED
      BY <1>2, <1>3, <2>1
  <1>7. TypeOK'
    <2>1. backlog' \in Nat /\ accepted' \in Nat
      BY <1>1, <1>3
    <2>2. interest' \in [Fd -> SUBSET {"IN", "OUT"}]
      BY <1>2 DEF IInv, TypeOK
    <2> QED
      BY <1>1, <1>2, <1>3, <1>5, <1>6, <2>1, <2>2 DEF IInv, TypeOK, Socket
  <1>8. IdsUnique'
    <2>1. \A g \in connections : conn'[g].id \in 1..accepted
      BY <1>5 DEF IInv, IdsUnique
    <2>2. conn'[f].id = accepted + 1
      BY <1>4, <1>5
    <2>3. \A g, h \in connections : conn'[g].id = conn'[h].id => g = h
      BY <1>5 DEF IInv, IdsUnique
    <2>4. \A g \in connections' : conn'[g].id \in 1..accepted'
      BY <1>1, <1>2, <1>3, <2>1, <2>2
    <2>5. \A g, h \in connections' : conn'[g].id = conn'[h].id => g = h
      BY <1>2, <1>3, <2>1, <2>2, <2>3
    <2> QED
      BY <2>4, <2>5 DEF IdsUnique
  <1>9. CursorCurrent' /\ WritesLogged' /\ EventsOnce'
    BY <1>1, LogKept DEF IInv, CursorCurrent, Handling, EventsOnce
  <1>10. EventsCurrent'
    BY <1>1, <1>2, <1>5 DEF IInv, EventsCurrent
  <1>11. RegistryExact'
    <2>1. RegistryOf(connections, conn, channels)
      BY <1>3, RegistrySame DEF IInv
    <2>2. RegistryOf(connections', conn', channels')
      BY <1>1, <1>2, <1>4, <1>5, <2>1 DEF RegistryOf
    <2> QED
      BY <1>1, <1>3, <2>2, RegistrySameNext
  <1>12. ModesApart'
    BY <1>1, <1>2, <1>4, <1>5 DEF IInv, ModesApart
  <1>13. ErrorsReal'
    BY <1>1, <1>6 DEF IInv, ErrorsReal, EventsCurrent
  <1>14. InputDrained' /\ ReadToTheEnd'
    BY <1>1, <1>2, <1>4, <1>5, <1>6 DEF IInv, InputDrained, ReadToTheEnd
  <1>15. MarkedServed'
    BY <1>1, <1>2, <1>4, <1>5, <1>6 DEF IInv, MarkedServed, Served
  <1> QED
    BY <1>7, <1>8, <1>9, <1>10, <1>11, <1>12, <1>13, <1>14, <1>15 DEF IInv

LEMMA AcceptDoneStep ==
    ASSUME IInv, AcceptDone
    PROVE  IInv'
  <1>1. /\ pc = "pass" /\ ready' \subseteq ready
        /\ UNCHANGED <<connections, conn, channels, interest, pc, cur, done, log, executed, failed>>
        /\ UNCHANGED <<sock, backlog, accepted, sent>>
    BY DEF AcceptDone
  <1>2. conn \in [Fd -> Connection]
    BY DEF IInv, TypeOK
  <1>3. IdsUnique' /\ RegistryExact' /\ ModesApart'
    BY <1>1, <1>2, ModesKept
  <1>4. TypeOK'
    BY <1>1 DEF IInv, TypeOK
  <1>5. CursorCurrent' /\ EventsCurrent' /\ EventsOnce' /\ WritesLogged' /\ ErrorsReal'
    BY <1>1, LogKept DEF IInv, CursorCurrent, Handling, EventsCurrent, EventsOnce,
                ErrorsReal
  <1>6. InputDrained' /\ ReadToTheEnd' /\ MarkedServed'
    BY <1>1 DEF IInv, InputDrained, ReadToTheEnd, MarkedServed, Served
  <1> QED
    BY <1>3, <1>4, <1>5, <1>6 DEF IInv

\* The marked connections go, and nothing else does.
LEMMA EndPassStep ==
    ASSUME IInv, EndPass
    PROVE  /\ IInv'
           /\ \A f \in connections \ connections' : Served(f)
  <1> DEFINE closed == {f \in connections : conn[f].wantClose}
  <1>1. /\ pc = "pass" /\ ready = {} /\ pc' = "poll"
        /\ UNCHANGED <<ready, cur, done, log, executed, failed, backlog, accepted, sent>>
        /\ connections' = connections \ closed
        /\ channels' = [ch \in Channel |->
             channels[ch] \ {conn[f].id : f \in {g \in closed : ch \in conn[g].subs}}]
        /\ conn' = [f \in Fd |-> IF f \in closed THEN NoConnection
                                 ELSE IF f \in connections THEN swept(conn[f]) ELSE conn[f]]
        /\ interest' = [f \in Fd |-> IF f \in closed THEN {}
                                     ELSE IF f \in connections THEN sweptInterest(f)
                                     ELSE interest[f]]
        /\ sock' = [f \in Fd |-> IF f \in closed THEN NoSocket ELSE sock[f]]
    BY DEF EndPass
  <1>2. /\ conn \in [Fd -> Connection] /\ connections \subseteq Fd
        /\ interest \in [Fd -> SUBSET {"IN", "OUT"}]
        /\ sock \in [Fd -> Socket] /\ channels \in [Channel -> SUBSET Nat]
    BY DEF IInv, TypeOK, Socket
  <1>3. closed \subseteq connections /\ \A f \in closed : Served(f)
    BY DEF IInv, MarkedServed
  <1>4. cur.fd = Listener
    BY <1>1 DEF IInv, CursorCurrent, Handling
  <1>5. ASSUME NEW f \in Fd
        PROVE  /\ swept(conn[f]) \in Connection /\ Kept(conn[f], swept(conn[f]))
               /\ swept(conn[f]).inTxn = conn[f].inTxn /\ swept(conn[f]).subs = conn[f].subs
               /\ sweptInterest(f) \in SUBSET {"IN", "OUT"}
    <2>1. /\ swept(conn[f]) \in Connection /\ Kept(conn[f], swept(conn[f]))
          /\ swept(conn[f]).inTxn = conn[f].inTxn /\ swept(conn[f]).subs = conn[f].subs
      BY <1>2 DEF swept, Connection, Kept
    <2>2. sweptInterest(f) \in SUBSET {"IN", "OUT"}
      BY <1>2 DEF sweptInterest, desired
    <2> QED
      BY <2>1, <2>2
  <1>6. NoConnection \in Connection /\ NoSocket \in Socket
    <2>1. <<>> \in Seq(Command)
      OBVIOUS
    <2> QED
      BY <2>1, NewConnectionType DEF NoConnection, NoSocket, Socket
  <1> HIDE DEF closed
  <1>7. /\ conn' \in [Fd -> Connection] /\ sock' \in [Fd -> Socket]
        /\ interest' \in [Fd -> SUBSET {"IN", "OUT"}]
    BY <1>1, <1>2, <1>5, <1>6
  <1>8. channels' \in [Channel -> SUBSET Nat]
    BY <1>1, <1>2
  <1>9. ASSUME NEW g \in connections'
        PROVE  /\ g \in connections /\ g \in Fd /\ ~conn[g].wantClose
               /\ sock'[g] = sock[g] /\ Kept(conn[g], conn'[g])
               /\ conn'[g].inTxn = conn[g].inTxn /\ conn'[g].subs = conn[g].subs
    <2>1. g \in connections /\ g \in Fd /\ g \notin closed /\ ~conn[g].wantClose
      BY <1>1, <1>2 DEF closed
    <2>2. conn'[g] = swept(conn[g]) /\ sock'[g] = sock[g]
      BY <1>1, <2>1
    <2> QED
      BY <1>5, <2>1, <2>2
  <1>10. TypeOK'
    BY <1>1, <1>2, <1>7, <1>8 DEF IInv, TypeOK, Socket
  <1>11. IdsUnique'
    <2>1. accepted' = accepted
      BY <1>1
    <2>2. \A g \in connections' : g \in connections /\ conn'[g].id = conn[g].id
      BY <1>9 DEF Kept
    <2> QED
      BY <2>1, <2>2 DEF IInv, IdsUnique
  <1>12. CursorCurrent' /\ WritesLogged' /\ EventsOnce' /\ ErrorsReal'
    BY <1>1, <1>4, LogKept DEF IInv, CursorCurrent, Handling, EventsOnce, ErrorsReal
  <1>13. EventsCurrent'
    BY <1>1, <1>4 DEF EventsCurrent
  <1>14. RegistryExact'
    <2>1. RegistryOf(connections, conn, channels)
      BY <1>2, RegistrySame DEF IInv
    <2>2. \A f, g \in connections : conn[f].id = conn[g].id => f = g
      BY DEF IInv, IdsUnique
    <2>3. ASSUME NEW ch \in Channel, NEW i
          PROVE  i \in channels'[ch] <=>
                   \E g \in connections' : ch \in conn'[g].subs /\ conn'[g].id = i
      <3>1. i \in channels[ch] <=> \E g \in connections : ch \in conn[g].subs /\ conn[g].id = i
        BY <2>1 DEF RegistryOf
      <3>2. i \in channels'[ch] <=>
               i \in channels[ch] /\ ~ \E f \in closed : ch \in conn[f].subs /\ conn[f].id = i
        BY <1>1
      <3>3. \A g \in connections' : conn'[g].subs = conn[g].subs /\ conn'[g].id = conn[g].id
        BY <1>9 DEF Kept
      <3>4. connections' = connections \ closed
        BY <1>1
      <3> QED
        BY <1>3, <2>2, <3>1, <3>2, <3>3, <3>4
    <2> QED
      BY <1>8, <2>3, RegistrySameNext DEF RegistryOf
  <1>15. ModesApart'
    BY <1>1, <1>9 DEF IInv, ModesApart
  <1>16. InputDrained' /\ ReadToTheEnd'
    BY <1>1, <1>9 DEF IInv, InputDrained, ReadToTheEnd, Kept
  <1>17. MarkedServed'
    BY <1>9 DEF MarkedServed, Kept
  <1>18. \A f \in connections \ connections' : Served(f)
    BY <1>1, <1>3
  <1> QED
    BY <1>10, <1>11, <1>12, <1>13, <1>14, <1>15, <1>16, <1>17, <1>18 DEF IInv

\* What clients do reaches the server's state only through the sockets.
LEMMA ClientsStep ==
    ASSUME IInv, ClientStep
    PROVE  IInv' /\ connections' = connections
  <1>1. UNCHANGED server /\ pc # "exec" /\ accepted' = accepted
    <2>1. CASE Connect
      BY <2>1 DEF Connect, ClientsMove
    <2>2. ASSUME NEW f \in Fd, NEW cmds, Send(f, cmds) \/ HalfClose(f) \/ Reset(f)
          PROVE  UNCHANGED server /\ pc # "exec" /\ accepted' = accepted
      BY <2>2 DEF Send, HalfClose, Reset, ClientsMove
    <2> QED
      BY <2>1, <2>2 DEF ClientStep
  <1>2. /\ UNCHANGED <<connections, conn, channels, interest, pc, ready, cur, done, log, executed, failed>>
        /\ conn \in [Fd -> Connection] /\ connections \subseteq Fd /\ sock \in [Fd -> Socket]
    BY <1>1 DEF server, IInv, TypeOK, Socket
  <1>3. backlog' \in Nat /\ sent' \in Nat
    BY DEF ClientStep, Connect, Send, HalfClose, Reset, IInv, TypeOK
  <1> DEFINE Moved(s, t) ==
               \/ s.state = "open" /\ t.state = "open" /\ pc = "poll"
               \/ /\ s.state = "open" /\ t.state = "half" /\ pc = "poll"
                  /\ t.toServer = s.toServer
               \/ t.state = "reset" /\ t.toServer = <<>>
             SocketsMove ==
               /\ sock' \in [Fd -> Socket]
               /\ \A g \in Fd : sock'[g] = sock[g] \/ Moved(sock[g], sock'[g])
  <1>4. SocketsMove
    <2>1. ASSUME NEW f \in Fd, NEW t \in Socket,
                 sock' = [sock EXCEPT ![f] = t], Moved(sock[f], t)
          PROVE  SocketsMove
      BY <1>2, <2>1
    <2>2. CASE Connect
      BY <1>2, <2>2 DEF Connect
    <2>3. ASSUME NEW f \in Fd, NEW cmds \in Pipeline, Send(f, cmds)
          PROVE  SocketsMove
      <3>0. sock[f] \in Socket /\ sock[f].toServer \in Seq(Command) /\ cmds \in Seq(Command)
        BY <1>2, PipelineAssumption DEF Socket
      <3>1. sock[f] \in Socket /\ sock[f].toServer \o cmds \in Seq(Command)
        BY <3>0
      <3>2. [sock[f] EXCEPT !.toServer = @ \o cmds] \in Socket
        BY <3>1 DEF Socket
      <3>3. [sock[f] EXCEPT !.toServer = @ \o cmds].state = sock[f].state
        BY <3>1 DEF Socket
      <3> QED
        BY <2>1, <2>3, <3>2, <3>3 DEF Send, ClientsMove
    <2>4. ASSUME NEW f \in Fd, HalfClose(f)
          PROVE  SocketsMove
      <3>1. sock[f] \in Socket
        BY <1>2
      <3>2. /\ [sock[f] EXCEPT !.state = "half"] \in Socket
            /\ [sock[f] EXCEPT !.state = "half"].state = "half"
            /\ [sock[f] EXCEPT !.state = "half"].toServer = sock[f].toServer
        BY <3>1 DEF Socket
      <3> QED
        BY <2>1, <2>4, <3>2 DEF HalfClose, ClientsMove
    <2>5. ASSUME NEW f \in Fd, Reset(f)
          PROVE  SocketsMove
      <3>1. [state |-> "reset", toServer |-> <<>>] \in Socket
        <4>1. <<>> \in Seq(Command)
          OBVIOUS
        <4> QED
          BY <4>1 DEF Socket
      <3> QED
        BY <2>1, <2>5, <3>1 DEF Reset
    <2> QED
      BY <2>2, <2>3, <2>4, <2>5 DEF ClientStep
  <1>5. IdsUnique' /\ RegistryExact' /\ ModesApart'
    BY <1>1, <1>2, ModesKept
  <1>6. TypeOK'
    BY <1>1, <1>2, <1>3, <1>4 DEF IInv, TypeOK, Socket
  <1>7. CursorCurrent' /\ EventsCurrent' /\ EventsOnce' /\ WritesLogged' /\ InputDrained'
    BY <1>2, LogKept DEF IInv, CursorCurrent, Handling, EventsCurrent, EventsOnce,
                InputDrained
  <1>8. ErrorsReal'
    BY <1>2, <1>4 DEF IInv, ErrorsReal, EventsCurrent
  <1>9. ReadToTheEnd'
    BY <1>2, <1>4 DEF IInv, ReadToTheEnd
  <1>10. MarkedServed'
    BY <1>2, <1>4 DEF IInv, MarkedServed, Served
  <1> QED
    BY <1>2, <1>5, <1>6, <1>7, <1>8, <1>9, <1>10 DEF IInv

\* Every step keeps the invariant; only the end of a pass closes connections.
LEMMA NextStep ==
    ASSUME IInv, [Next]_vars
    PROVE  /\ IInv'
           /\ \A f \in connections \ connections' : Served(f)
  <1> DEFINE Goal == IInv' /\ \A f \in connections \ connections' : Served(f)
  <1>1. ASSUME NEW full, Poll(full) PROVE Goal
    BY <1>1, PollStep DEF Poll
  <1>2. CASE AcceptClient
    <2>1. connections \subseteq connections'
      BY <1>2 DEF AcceptClient
    <2> QED
      BY <1>2, <2>1, AcceptStep
  <1>3. CASE AcceptDone
    BY <1>3, AcceptDoneStep DEF AcceptDone
  <1>4. ASSUME NEW e \in ready, HandleError(e) \/ HandleRead(e) \/ HandleWriteOnly(e)
        PROVE  Goal
    <2>1. connections' = connections
      BY <1>4 DEF HandleError, HandleRead, HandleWriteOnly
    <2> QED
      BY <1>4, <2>1, ErrorStep, ReadStep, WriteOnlyStep
  <1>5. ASSUME NEW f \in Fd, HandleCommand(f) PROVE Goal
    <2>1. PICK cmd \in Command :
             Refuse(f, cmd) \/ Queue(f, cmd) \/ Dispatch(f, cmd) \/ ExecBegin(f, cmd)
      BY <1>5 DEF HandleCommand
    <2>2. connections' = connections
      BY <2>1 DEF Refuse, Queue, Dispatch, ExecBegin
    <2> QED
      BY <2>1, <2>2, RefuseOrQueueStep, DispatchStep
  <1>6. ASSUME NEW f \in Fd, ExecStep(f) \/ ExecEnd(f) \/ ParseDone(f) \/ FinishEvent(f)
        PROVE  Goal
    <2>1. connections' = connections
      BY <1>6 DEF ExecStep, ExecEnd, ParseDone, FinishEvent
    <2> QED
      BY <1>6, <2>1, ExecStepStep, ExecEndStep, ParseDoneStep, FinishStep
  <1>7. CASE EndPass
    BY <1>7, EndPassStep
  <1>8. CASE ClientStep
    BY <1>8, ClientsStep
  <1>9. CASE UNCHANGED vars
    <2>1. UNCHANGED <<connections, conn, channels, interest, pc, ready, cur, done, log, executed,
                      failed, sock, backlog, accepted, sent>>
      BY <1>9 DEF vars, server
    <2> QED
      BY <2>1 DEF IInv, TypeOK, IdsUnique, CursorCurrent, Handling, EventsCurrent, EventsOnce,
                  RegistryExact, ModesApart, WritesLogged, ErrorsReal, InputDrained,
                  ReadToTheEnd, MarkedServed, Served
  <1> QED
    BY <1>1, <1>2, <1>3, <1>4, <1>5, <1>6, <1>7, <1>8, <1>9 DEF Next, ServerStep

LEMMA InitInv == Init => IInv
  <1> SUFFICES ASSUME Init PROVE IInv
    OBVIOUS
  <1>1. NoConnection \in Connection /\ NoSocket \in Socket /\ NoEvent \in Event
    <2>1. <<>> \in Seq(Command)
      OBVIOUS
    <2> QED
      BY <2>1, NewConnectionType DEF NoConnection, NoSocket, Socket, NoEvent, Event
  <1>2. TypeOK
    BY <1>1 DEF Init, TypeOK, Socket
  <1>3. NoEvent.fd = Listener
    BY DEF NoEvent
  <1>4. WritesLogged
    <2>1. executed = <<>> /\ log = <<>> /\ failed = 0
      BY DEF Init
    <2>2. subsequence(<<>>, <<>>)
      <3>1. [i \in 1..0 |-> i] \in [1..Len(<<>>) -> 1..Len(<<>>)]
        OBVIOUS
      <3> QED
        BY <3>1 DEF subsequence
    <2> QED
      BY <2>1, <2>2 DEF WritesLogged
  <1> QED
    BY <1>2, <1>3, <1>4 DEF Init, IInv, IdsUnique, CursorCurrent, Handling, EventsCurrent,
         EventsOnce, RegistryExact, ModesApart, ErrorsReal, InputDrained, ReadToTheEnd,
         MarkedServed

-----------------------------------------------------------------------------
(* Theorems. *)

\* The main loop keeps its invariant whatever clients send, in whatever order they
\* come, go and are reset, and however few descriptors there are.
THEOREM Invariance == Spec => []IInv
  <1>1. IInv /\ [Next]_vars => IInv'
    BY NextStep
  <1> QED
    BY <1>1, InitInv, PTL DEF Spec

\* The state of main.cpp's loop, the connections and the registry stays well typed.
THEOREM TypeCorrect == Spec => []TypeOK
  <1>1. IInv => TypeOK
    BY DEF IInv
  <1> QED
    BY <1>1, Invariance, PTL

\* PubSubRegistry never holds a Connection that main.cpp has destroyed, and never
\* misses a subscriber.
THEOREM RegistryCorrect == Spec => []RegistryExact
  <1>1. IInv => RegistryExact
    BY DEF IInv
  <1> QED
    BY <1>1, Invariance, PTL

\* No client is a subscriber with an open transaction, but for the moment in which
\* EXEC runs a queued SUBSCRIBE.
THEOREM ModesCorrect == Spec => []ModesApart
  <1>1. IInv => ModesApart
    BY DEF IInv
  <1> QED
    BY <1>1, Invariance, PTL

\* No event of a pass reaches another connection than the one it was reported for.
THEOREM EventsCorrect == Spec => []EventsCurrent
  <1>1. IInv => EventsCurrent
    BY DEF IInv
  <1> QED
    BY <1>1, Invariance, PTL

\* AOFWriter::log is given every write command that succeeded, once and in order, those
\* of EXEC included, and one entry more for each that failed.
THEOREM LogCorrect == Spec => []WritesLogged
  <1>1. IInv => WritesLogged
    BY DEF IInv
  <1> QED
    BY <1>1, Invariance, PTL

\* No connection is closed on a client that still listens before all it sent was
\* executed and answered.
THEOREM CloseCorrect == Spec => GracefulClose
  <1>1. IInv /\ [Next]_vars =>
          [\A f \in connections \ connections' :
              sock[f].state \in {"open", "half"} =>
                  /\ sock[f].toServer = <<>> /\ conn[f].in = <<>>
                  /\ \A i \in 1..Len(conn[f].out) : conn[f].out[i] # "reply"]_vars
    BY NextStep DEF Served
  <1> QED
    BY <1>1, Invariance, PTL DEF Spec, GracefulClose
=============================================================================
