------------------------------- MODULE Server -------------------------------
(***************************************************************************)
(* The main loop of main.cpp with net/Connection, net/EventLoop,           *)
(* net/Listener, cmd/PubSubRegistry and the transaction commands, between  *)
(* clients that connect, send, stop sending, disappear and read slowly.    *)
(* One thread serves everyone, but a pass of the loop works off events     *)
(* that were collected before it began, on connections that refer to each  *)
(* other through the registry.                                             *)
(***************************************************************************)
EXTENDS Integers, Sequences, FiniteSets

CONSTANTS
    Fd,             \* the descriptors accept4 can return
    Channel,
    Command,        \* what clients send: [name, args], the args being channels
    Pipeline,       \* the sequences of commands a client sends in one go
    WriteCommand,   \* the names isWriteCommand knows
    MaxClients,     \* bound: clients that ever connect
    MaxSent         \* bound: pipelines they send in all

ASSUME FdAssumption == Fd \subseteq Nat \ {0}
ASSUME BoundAssumption == MaxClients \in Nat /\ MaxSent \in Nat
ASSUME CommandAssumption ==
    \A cmd \in Command : cmd.name \in STRING /\ cmd.args \in Seq(Channel)
ASSUME PipelineAssumption == Pipeline \subseteq Seq(Command)
ASSUME WriteAssumption ==
    {"MULTI", "EXEC", "DISCARD", "SUBSCRIBE", "UNSUBSCRIBE", "PUBLISH"}
        \cap WriteCommand = {}

VARIABLES
    connections,    \* the keys of main.cpp's map
    conn,           \* the Connection of each descriptor
    channels,       \* PubSubRegistry::channels_
    interest,       \* what epoll watches for
    sock,           \* the kernel's end and the client's
    backlog,        \* clients waiting to be accepted
    accepted,       \* clients accepted so far
    sent,           \* pipelines sent so far
    pc,             \* where the loop is
    ready,          \* the events of this pass still to be handled
    cur,            \* the event being handled
    done,           \* EXEC: the queued commands executed so far
    log,            \* what AOFWriter::log was given
    executed,       \* the write commands that succeeded
    failed          \* how many others were answered with an error

server == <<connections, conn, channels, interest, pc, ready, cur, done, log, executed, failed>>
vars == <<server, sock, backlog, accepted, sent>>

Listener == 0       \* listener.fd()

\* A Connection; id stands for its address, and no two are alike.
NewConnection(id) ==
    [id |-> id, in |-> <<>>, out |-> <<>>,
     wantRead |-> TRUE, wantWrite |-> FALSE, wantClose |-> FALSE,
     inTxn |-> FALSE, queued |-> <<>>, subs |-> {}]

\* No connection at this descriptor.
NoConnection == NewConnection(0)
NoSocket == [state |-> "none", toServer |-> <<>>]
NoEvent == [fd |-> Listener, id |-> 0, ev |-> {}]

Init ==
    /\ connections = {} /\ conn = [f \in Fd |-> NoConnection]
    /\ channels = [ch \in Channel |-> {}]
    /\ interest = [f \in Fd |-> {}]
    /\ sock = [f \in Fd |-> NoSocket]
    /\ backlog = 0 /\ accepted = 0 /\ sent = 0
    /\ pc = "poll" /\ ready = {} /\ cur = NoEvent
    /\ done = 0
    /\ log = <<>> /\ executed = <<>> /\ failed = 0

-----------------------------------------------------------------------------
(* Clients and the kernel.  epoll is level-triggered, so what a client     *)
(* does during a pass cannot be told from the same thing done before it or *)
(* after it, and clients move while the server waits in epoll_wait.  The   *)
(* exception is a reset: it turns calls that were announced as possible    *)
(* into errors.                                                            *)

ClientsMove == pc = "poll" /\ UNCHANGED server

Connect ==
    /\ ClientsMove
    /\ accepted + backlog < MaxClients
    /\ backlog' = backlog + 1
    /\ UNCHANGED <<sock, accepted, sent>>

Send(f, cmds) ==
    /\ ClientsMove
    /\ sock[f].state = "open" /\ sent < MaxSent
    /\ sock' = [sock EXCEPT ![f].toServer = @ \o cmds]
    /\ sent' = sent + 1
    /\ UNCHANGED <<backlog, accepted>>

\* The client sends no more; it may still read, or not.
HalfClose(f) ==
    /\ ClientsMove
    /\ sock[f].state = "open"
    /\ sock' = [sock EXCEPT ![f].state = "half"]
    /\ UNCHANGED <<backlog, accepted, sent>>

\* The client is gone and its kernel, or the network, says so.
Reset(f) ==
    /\ pc \notin {"parse", "exec"} /\ UNCHANGED server
    /\ sock[f].state \in {"open", "half"}
    /\ sock' = [sock EXCEPT ![f] = [state |-> "reset", toServer |-> <<>>]]
    /\ UNCHANGED <<backlog, accepted, sent>>

\* What epoll_wait reports for a descriptor; full says that the client has not read
\* for so long that the kernel takes no more for it.  ERR and HUP need no registration.
eventsAt(f, full) ==
    LET s        == sock[f]
        dead     == s.state \in {"reset", "hup"}
        readable == dead \/ s.state = "half" \/ s.toServer # <<>>
        writable == dead \/ ~full
    IN  {x \in {"IN", "OUT", "ERR", "HUP"} :
            CASE x = "IN"  -> x \in interest[f] /\ readable
              [] x = "OUT" -> x \in interest[f] /\ writable
              [] x = "ERR" -> s.state = "reset"
              [] x = "HUP" -> dead}

-----------------------------------------------------------------------------
(* The registry and the commands that touch connections.  c is conn as the *)
(* command finds it, f the descriptor of the client that sent it.          *)

\* A buffer is the order of what is in it, its own client's replies and other
\* clients' messages; how many of the same kind follow each other makes no difference.
written(out, x) == IF out # <<>> /\ out[Len(out)] = x THEN out ELSE Append(out, x)

reply(c, f) == [c EXCEPT ![f].out = written(@, "reply")]

Range1(s) == {s[i] : i \in 1..Len(s)}

cmdMulti(c, f) ==
    /\ conn' = [reply(c, f) EXCEPT ![f].inTxn = TRUE]     \* or an error, when it is
    /\ UNCHANGED <<channels, executed, failed>>

cmdDiscard(c, f) ==
    /\ conn' = [reply(c, f) EXCEPT ![f].inTxn = FALSE, ![f].queued = <<>>]
    /\ UNCHANGED <<channels, executed, failed>>

\* The reply says, once per channel, how many channels it now is.
cmdSubscribe(c, f, chs) ==
    /\ conn' = [reply(c, f) EXCEPT ![f].subs = @ \cup Range1(chs)]
    /\ channels' = [ch \in Channel |->
                       IF ch \in Range1(chs) THEN channels[ch] \cup {c[f].id}
                       ELSE channels[ch]]
    /\ UNCHANGED <<executed, failed>>

\* UNSUBSCRIBE without a channel is for all of them.
cmdUnsubscribe(c, f, chs) ==
    LET leaving == IF chs = <<>> THEN c[f].subs ELSE Range1(chs) IN
        /\ conn' = [reply(c, f) EXCEPT ![f].subs = @ \ leaving]
        /\ channels' = [ch \in Channel |->
                           IF ch \in leaving THEN channels[ch] \ {c[f].id}
                           ELSE channels[ch]]
        /\ UNCHANGED <<executed, failed>>

\* publish writes into the subscribers' buffers, then the sender gets its answer.
cmdPublish(c, f, ch) ==
    LET push(g) == IF g \in connections /\ c[g].id \in channels[ch]
                   THEN [c[g] EXCEPT !.out = written(@, "push"), !.wantWrite = TRUE]
                   ELSE c[g]
    IN  /\ conn' = reply([g \in Fd |-> push(g)], f)
        /\ UNCHANGED <<channels, executed, failed>>

\* A command on the keyspace, or one that dispatch refuses: one reply.  Whether it
\* succeeds depends on its arity, its arguments and the keys, which are not modelled
\* here; of those that do only the write commands matter.
cmdOther(c, f, cmd) ==
    /\ conn' = reply(c, f)
    /\ IF cmd.name \in WriteCommand
       THEN \/ executed' = Append(executed, cmd) /\ failed' = failed
            \/ executed' = executed /\ failed' = failed + 1
       ELSE UNCHANGED <<executed, failed>>
    /\ UNCHANGED channels

\* The arity check, for the commands of this module.
arityOk(cmd) ==
    CASE cmd.name \in {"MULTI", "EXEC", "DISCARD"} -> cmd.args = <<>>
      [] cmd.name = "SUBSCRIBE" -> Len(cmd.args) >= 1
      [] cmd.name = "PUBLISH" -> Len(cmd.args) = 1
      [] OTHER -> TRUE

handled(cmd) ==
    /\ cmd.name \in {"MULTI", "DISCARD", "SUBSCRIBE", "UNSUBSCRIBE", "PUBLISH"}
    /\ arityOk(cmd)

\* CommandTable::dispatch, for everything but an EXEC that has a transaction.
dispatch(c, f, cmd) ==
    \/ handled(cmd) /\ cmd.name = "MULTI" /\ cmdMulti(c, f)
    \/ handled(cmd) /\ cmd.name = "DISCARD" /\ cmdDiscard(c, f)
    \/ handled(cmd) /\ cmd.name = "SUBSCRIBE" /\ cmdSubscribe(c, f, cmd.args)
    \/ handled(cmd) /\ cmd.name = "UNSUBSCRIBE" /\ cmdUnsubscribe(c, f, cmd.args)
    \/ handled(cmd) /\ cmd.name = "PUBLISH" /\ cmdPublish(c, f, cmd.args[1])
    \/ ~handled(cmd) /\ cmdOther(c, f, cmd)

\* EXEC with its arity and a transaction.
startsExec(c, cmd) == cmd.name = "EXEC" /\ arityOk(cmd) /\ c.inTxn

logged(cmd) == IF cmd.name \in WriteCommand THEN Append(log, cmd) ELSE log

-----------------------------------------------------------------------------
(* The loop. *)

\* full: the descriptors whose client does not read.
Poll(full) ==
    /\ pc = "poll"
    /\ ready' = {[fd |-> f, id |-> conn[f].id, ev |-> eventsAt(f, f \in full)] :
                    f \in {g \in connections : eventsAt(g, g \in full) # {}}}
                \cup IF backlog > 0 THEN {[NoEvent EXCEPT !.ev = {"IN"}]} ELSE {}
    /\ pc' = "pass"
    /\ UNCHANGED <<connections, conn, channels, interest, cur, done, log, executed, failed>>
    /\ UNCHANGED <<sock, backlog, accepted, sent>>

\* Mutant: the result of accept4 is not checked.
AcceptUnchecked ==
    /\ pc = "pass" /\ \E e \in ready : e.fd = Listener
    /\ \E f \in Fd \ connections :
        /\ \A g \in Fd \ connections : f <= g
        /\ connections' = connections \cup {f}
        /\ conn' = [conn EXCEPT ![f] = NewConnection(accepted + 1)]
        /\ interest' = [interest EXCEPT ![f] = {"IN"}]
        /\ sock' = [sock EXCEPT ![f].state = "open"]
    /\ backlog' = backlog - 1 /\ accepted' = accepted + 1
    /\ UNCHANGED <<channels, pc, ready, cur, done, log, executed, failed, sent>>

\* One turn of the accept loop; the kernel gives out the lowest free descriptor.
AcceptClient ==
    /\ pc = "pass" /\ \E e \in ready : e.fd = Listener
    /\ backlog > 0
    /\ \E f \in Fd \ connections :
        /\ \A g \in Fd \ connections : f <= g
        /\ connections' = connections \cup {f}
        /\ conn' = [conn EXCEPT ![f] = NewConnection(accepted + 1)]
        /\ interest' = [interest EXCEPT ![f] = {"IN"}]
        /\ sock' = [sock EXCEPT ![f].state = "open"]
    /\ backlog' = backlog - 1 /\ accepted' = accepted + 1
    /\ UNCHANGED <<channels, pc, ready, cur, done, log, executed, failed, sent>>

\* Nobody is waiting, or no descriptor is left.
AcceptDone ==
    /\ pc = "pass" /\ (backlog = 0 \/ connections = Fd)
    /\ \E e \in ready : e.fd = Listener /\ ready' = ready \ {e}
    /\ UNCHANGED <<connections, conn, channels, interest, pc, cur, done, log, executed, failed>>
    /\ UNCHANGED <<sock, backlog, accepted, sent>>

\* A stale event is skipped, an error marks the connection.
HandleError(e) ==
    /\ pc = "pass" /\ e.fd # Listener
    /\ e.fd \notin connections \/ "ERR" \in e.ev
    /\ ready' = ready \ {e}
    /\ conn' = IF e.fd \in connections THEN [conn EXCEPT ![e.fd].wantClose = TRUE] ELSE conn
    /\ UNCHANGED <<connections, channels, interest, pc, cur, done, log, executed, failed>>
    /\ UNCHANGED <<sock, backlog, accepted, sent>>

\* Mutant: the connection is destroyed as soon as its client stops sending.
HandleReadErases(e) ==
    /\ pc = "pass" /\ e.fd # Listener
    /\ e.fd \in connections /\ "ERR" \notin e.ev /\ e.ev \cap {"IN", "HUP"} # {}
    /\ LET f == e.fd
           s == sock[f]
       IN  IF s.toServer # <<>>
           THEN \E n \in 1..Len(s.toServer) :
                   /\ conn' = [conn EXCEPT ![f].in = @ \o SubSeq(s.toServer, 1, n)]
                   /\ sock' = [sock EXCEPT
                                 ![f].toServer = SubSeq(@, n + 1, Len(@))]
           ELSE /\ conn' = [conn EXCEPT ![f].wantRead = @ /\ s.state = "open"]
                /\ sock' = [sock EXCEPT
                              ![f].state = IF @ = "reset" THEN "hup" ELSE @]
    /\ connections' = IF sock[e.fd].toServer = <<>> THEN connections \ {e.fd} ELSE connections
    /\ ready' = ready \ {e} /\ cur' = e /\ pc' = "parse"
    /\ UNCHANGED <<channels, interest, done, log, executed, failed>>
    /\ UNCHANGED <<backlog, accepted, sent>>

\* Mutant: the end of the input closes the connection, whatever is left to write.
HandleReadCloses(e) ==
    /\ pc = "pass" /\ e.fd # Listener
    /\ e.fd \in connections /\ "ERR" \notin e.ev /\ e.ev \cap {"IN", "HUP"} # {}
    /\ LET f == e.fd
           s == sock[f]
       IN  IF s.toServer # <<>>
           THEN \E n \in 1..Len(s.toServer) :
                   /\ conn' = [conn EXCEPT ![f].in = @ \o SubSeq(s.toServer, 1, n)]
                   /\ sock' = [sock EXCEPT
                                 ![f].toServer = SubSeq(@, n + 1, Len(@))]
           ELSE /\ conn' = [conn EXCEPT ![f].wantClose = @ \/ s.state # "open"]
                /\ sock' = [sock EXCEPT
                              ![f].state = IF @ = "reset" THEN "hup" ELSE @]
    /\ ready' = ready \ {e} /\ cur' = e /\ pc' = "parse"
    /\ UNCHANGED <<connections, channels, interest, done, log, executed, failed>>
    /\ UNCHANGED <<backlog, accepted, sent>>

\* handleRead: some of what has arrived; or the end, whether the client stopped
\* sending or is gone, and then the loop no longer wants to read.
HandleRead(e) ==
    /\ pc = "pass" /\ e.fd # Listener
    /\ e.fd \in connections /\ "ERR" \notin e.ev /\ e.ev \cap {"IN", "HUP"} # {}
    /\ LET f == e.fd
           s == sock[f]
       IN  IF s.toServer # <<>>
           THEN \E n \in 1..Len(s.toServer) :
                   /\ conn' = [conn EXCEPT ![f].in = @ \o SubSeq(s.toServer, 1, n)]
                   /\ sock' = [sock EXCEPT
                                 ![f].toServer = SubSeq(@, n + 1, Len(@))]
           ELSE /\ conn' = [conn EXCEPT ![f].wantRead = @ /\ s.state = "open"]
                /\ sock' = [sock EXCEPT
                              ![f].state = IF @ = "reset" THEN "hup" ELSE @]
    /\ ready' = ready \ {e} /\ cur' = e /\ pc' = "parse"
    /\ UNCHANGED <<connections, channels, interest, done, log, executed, failed>>
    /\ UNCHANGED <<backlog, accepted, sent>>

\* The event is for writing only.
HandleWriteOnly(e) ==
    /\ pc = "pass" /\ e.fd # Listener
    /\ e.fd \in connections /\ e.ev = {"OUT"}
    /\ ready' = ready \ {e} /\ cur' = e /\ pc' = "write"
    /\ UNCHANGED <<connections, conn, channels, interest, done, log, executed, failed>>
    /\ UNCHANGED <<sock, backlog, accepted, sent>>

\* The parse loop is at a command of its client.
AtCommand(f, cmd) ==
    /\ pc = "parse" /\ f = cur.fd
    /\ conn[f].in # <<>> /\ cmd = Head(conn[f].in)

popped(f) == [conn EXCEPT ![f].in = Tail(@)]

\* Mutant: MULTI is not gated.
gatedButMulti(c, cmd) ==
    /\ c.subs # {}
    /\ cmd.name \notin {"SUBSCRIBE", "UNSUBSCRIBE", "PING", "QUIT", "MULTI"}

\* In subscriber mode little is allowed, and EXEC and DISCARD are not.
gated(c, cmd) ==
    c.subs # {} /\ cmd.name \notin {"SUBSCRIBE", "UNSUBSCRIBE", "PING", "QUIT"}

queueable(c, cmd) == c.inTxn /\ cmd.name \notin {"EXEC", "DISCARD", "MULTI"}

Refuse(f, cmd) ==
    /\ AtCommand(f, cmd) /\ gated(conn[f], cmd)
    /\ conn' = reply(popped(f), f)
    /\ UNCHANGED <<connections, channels, interest, pc, ready, cur, done, log, executed, failed>>
    /\ UNCHANGED <<sock, backlog, accepted, sent>>

Queue(f, cmd) ==
    /\ AtCommand(f, cmd) /\ ~gated(conn[f], cmd) /\ queueable(conn[f], cmd)
    /\ conn' = [reply(popped(f), f) EXCEPT ![f].queued = Append(@, cmd)]
    /\ UNCHANGED <<connections, channels, interest, pc, ready, cur, done, log, executed, failed>>
    /\ UNCHANGED <<sock, backlog, accepted, sent>>

Dispatch(f, cmd) ==
    /\ AtCommand(f, cmd) /\ ~gated(conn[f], cmd) /\ ~queueable(conn[f], cmd)
    /\ ~startsExec(conn[f], cmd)
    /\ dispatch(popped(f), f, cmd)
    /\ log' = logged(cmd)
    /\ UNCHANGED <<connections, interest, pc, ready, cur, done>>
    /\ UNCHANGED <<sock, backlog, accepted, sent>>

\* EXEC: the header with the number of queued commands, then one after the other.
ExecBegin(f, cmd) ==
    /\ AtCommand(f, cmd) /\ ~gated(conn[f], cmd)
    /\ startsExec(conn[f], cmd)
    /\ conn' = reply(popped(f), f)
    /\ done' = 0
    /\ pc' = "exec"
    /\ UNCHANGED <<connections, channels, interest, ready, cur, log, executed, failed>>
    /\ UNCHANGED <<sock, backlog, accepted, sent>>

\* Mutant: what EXEC executes is not logged.
ExecStepUnlogged(f) ==
    /\ pc = "exec" /\ f = cur.fd
    /\ done < Len(conn[f].queued)
    /\ LET cmd == conn[f].queued[done + 1] IN
        /\ dispatch(conn, f, cmd)
        /\ log' = log
    /\ done' = done + 1
    /\ UNCHANGED <<connections, interest, pc, ready, cur>>
    /\ UNCHANGED <<sock, backlog, accepted, sent>>

ExecStep(f) ==
    /\ pc = "exec" /\ f = cur.fd
    /\ done < Len(conn[f].queued)
    /\ LET cmd == conn[f].queued[done + 1] IN
        /\ dispatch(conn, f, cmd)
        /\ log' = logged(cmd)
    /\ done' = done + 1
    /\ UNCHANGED <<connections, interest, pc, ready, cur>>
    /\ UNCHANGED <<sock, backlog, accepted, sent>>

ExecEnd(f) ==
    /\ pc = "exec" /\ f = cur.fd
    /\ done >= Len(conn[f].queued)
    /\ conn' = [conn EXCEPT ![f].inTxn = FALSE, ![f].queued = <<>>]
    /\ done' = 0
    /\ pc' = "parse"
    /\ UNCHANGED <<connections, channels, interest, ready, cur, log, executed, failed>>
    /\ UNCHANGED <<sock, backlog, accepted, sent>>

ParseDone(f) ==
    /\ pc = "parse" /\ f = cur.fd /\ conn[f].in = <<>>
    /\ conn' = [conn EXCEPT ![f].wantWrite = @ \/ conn[f].out # <<>>]
    /\ pc' = "write"
    /\ UNCHANGED <<connections, channels, interest, ready, cur, done, log, executed, failed>>
    /\ UNCHANGED <<sock, backlog, accepted, sent>>

desired(c) == {x \in {"IN", "OUT"} : IF x = "IN" THEN c.wantRead ELSE c.wantWrite}

\* handleWrite: the connection after n of its replies were taken by the kernel.
handleWrite(c, n) ==
    LET left == SubSeq(c.out, n + 1, Len(c.out)) IN
    [c EXCEPT !.out = left, !.wantWrite = @ /\ left # <<>>]

\* Close if the read side is done and nothing is left to write.
closeIfDone(c) == [c EXCEPT !.wantClose = @ \/ (~c.wantRead /\ c.out = <<>>)]

\* The rest of an event: write if the event says so (the kernel takes a part, or
\* the client is gone and it refuses), close or register again.
FinishEvent(f) ==
    /\ pc = "write" /\ f = cur.fd
    /\ \E n \in 0..Len(conn[f].out) :
        LET c     == conn[f]
            try   == "OUT" \in cur.ev /\ ~c.wantClose /\ c.out # <<>>
            fails == try /\ sock[f].state \in {"reset", "hup"}
            after == closeIfDone(IF fails THEN [c EXCEPT !.wantClose = TRUE]
                                 ELSE IF "OUT" \in cur.ev THEN handleWrite(c, n) ELSE c)
        IN  /\ n > 0 <=> try /\ ~fails
            /\ conn' = [conn EXCEPT ![f] = after]
            /\ interest' = IF after.wantClose THEN interest
                           ELSE [interest EXCEPT ![f] = desired(after)]
    /\ pc' = "pass"
    /\ cur' = NoEvent
    /\ UNCHANGED <<connections, channels, ready, done, log, executed, failed>>
    /\ UNCHANGED <<sock, backlog, accepted, sent>>

\* Sweep: output that another client's command left in a connection.
swept(c) == IF ~c.wantClose /\ c.out # <<>> THEN [c EXCEPT !.wantWrite = TRUE] ELSE c

\* Mutant: the sweep does not tell epoll.
sweptNotRegistered(f) == interest[f]

sweptInterest(f) ==
    IF ~conn[f].wantClose /\ conn[f].out # <<>> THEN desired(swept(conn[f]))
    ELSE interest[f]

\* Mutant: a connection is destroyed without leaving the registry.
EndPassKeepsRegistry ==
    /\ pc = "pass" /\ ready = {}
    /\ LET closed == {f \in connections : conn[f].wantClose} IN
        /\ channels' = channels
        /\ connections' = connections \ closed
        /\ conn' = [f \in Fd |-> IF f \in closed THEN NoConnection
                                 ELSE IF f \in connections THEN swept(conn[f]) ELSE conn[f]]
        /\ interest' = [f \in Fd |-> IF f \in closed THEN {}
                                     ELSE IF f \in connections THEN sweptInterest(f)
                                     ELSE interest[f]]
        /\ sock' = [f \in Fd |-> IF f \in closed THEN NoSocket ELSE sock[f]]
    /\ pc' = "poll"
    /\ UNCHANGED <<ready, cur, done, log, executed, failed, backlog, accepted, sent>>

\* The end of a pass: sweep, then the marked connections leave the registry, epoll
\* and the map, and their sockets are closed.
EndPass ==
    /\ pc = "pass" /\ ready = {}
    /\ LET closed == {f \in connections : conn[f].wantClose} IN
        /\ channels' = [ch \in Channel |->
                           channels[ch] \ {conn[f].id : f \in {g \in closed : ch \in conn[g].subs}}]
        /\ connections' = connections \ closed
        /\ conn' = [f \in Fd |-> IF f \in closed THEN NoConnection
                                 ELSE IF f \in connections THEN swept(conn[f]) ELSE conn[f]]
        /\ interest' = [f \in Fd |-> IF f \in closed THEN {}
                                     ELSE IF f \in connections THEN sweptInterest(f)
                                     ELSE interest[f]]
        /\ sock' = [f \in Fd |-> IF f \in closed THEN NoSocket ELSE sock[f]]
    /\ pc' = "poll"
    /\ UNCHANGED <<ready, cur, done, log, executed, failed, backlog, accepted, sent>>

-----------------------------------------------------------------------------

HandleCommand(f) ==
    \E cmd \in Command : Refuse(f, cmd) \/ Queue(f, cmd) \/ Dispatch(f, cmd) \/ ExecBegin(f, cmd)

ServerStep ==
    \/ \E full \in SUBSET {f \in Fd : "OUT" \in interest[f]} : Poll(full)
    \/ AcceptClient \/ AcceptDone
    \/ \E e \in ready : HandleError(e) \/ HandleRead(e) \/ HandleWriteOnly(e)
    \/ \E f \in Fd : \/ HandleCommand(f)
                     \/ ExecStep(f) \/ ExecEnd(f)
                     \/ ParseDone(f) \/ FinishEvent(f)
    \/ EndPass

ClientStep ==
    \/ Connect
    \/ \E f \in Fd : \/ \E cmds \in Pipeline : Send(f, cmds)
                     \/ HalfClose(f) \/ Reset(f)

Next == ServerStep \/ ClientStep

Spec == Init /\ [][Next]_vars

\* The thread runs, and a client that is still there reads now and then what it was
\* sent, so that the kernel takes more.
FairSpec ==
    /\ Spec
    /\ WF_vars(ServerStep)
    /\ \A f \in Fd :
          SF_vars(\E full \in SUBSET (Fd \ {f}) : "OUT" \in interest[f] /\ Poll(full))

-----------------------------------------------------------------------------
(* Properties. *)

Event == [fd : Fd \cup {Listener}, id : Nat, ev : SUBSET {"IN", "OUT", "ERR", "HUP"}]

Connection ==
    [id : Nat, in : Seq(Command), out : Seq({"reply", "push"}),
     wantRead : BOOLEAN, wantWrite : BOOLEAN, wantClose : BOOLEAN,
     inTxn : BOOLEAN, queued : Seq(Command), subs : SUBSET Channel]

\* Type correctness.
TypeOK ==
    /\ connections \subseteq Fd
    /\ conn \in [Fd -> Connection]
    /\ channels \in [Channel -> SUBSET Nat]
    /\ interest \in [Fd -> SUBSET {"IN", "OUT"}]
    /\ sock \in [Fd -> [state : {"none", "open", "half", "reset", "hup"},
                        toServer : Seq(Command)]]
    /\ backlog \in Nat /\ accepted \in Nat /\ sent \in Nat
    /\ pc \in {"poll", "pass", "parse", "exec", "write"}
    /\ ready \subseteq Event /\ cur \in Event
    /\ done \in Nat
    /\ log \in Seq(Command) /\ executed \in Seq(Command) /\ failed \in Nat

\* The registry holds the address of a connection under a channel exactly as long as
\* the connection exists and knows of the subscription: publish never writes to a
\* Connection that was destroyed, whichever way the client left.
RegistryExact ==
    \A ch \in Channel :
        channels[ch] = {conn[f].id : f \in {g \in connections : ch \in conn[g].subs}}

\* Subscriber mode and an open transaction exclude each other, except while EXEC
\* runs a queued SUBSCRIBE: the gate would refuse EXEC and DISCARD, and the client
\* could never leave the transaction.
ModesApart ==
    \A f \in connections :
        conn[f].inTxn /\ conn[f].subs # {} => pc = "exec" /\ f = cur.fd

\* An event that waits to be handled belongs to the connection for which it was
\* reported, even when descriptors are closed and given out again.
EventsCurrent ==
    \A e \in ready \cup {cur} :
        e.fd # Listener => e.fd \in connections /\ conn[e.fd].id = e.id

\* s is t without some of its elements.
subsequence(s, t) ==
    \E at \in [1..Len(s) -> 1..Len(t)] :
        /\ \A i, j \in 1..Len(s) : i < j => at[i] < at[j]
        /\ \A i \in 1..Len(s) : t[at[i]] = s[i]

\* No write command that succeeded is missing in the log, there twice or out of order,
\* whether it ran by itself or in a transaction; besides them the log holds one entry
\* for each that failed, and none for a command only queued, discarded or refused.
WritesLogged == subsequence(executed, log) /\ Len(log) = Len(executed) + failed

\* The log holds the write commands that succeeded and nothing else, as main.cpp
\* ("only AFTER successful dispatch") and AOFWriter.cpp ("Only called after successful
\* command execution") have it.  It does not: dispatch does not tell its callers
\* how it went, and they look at the command's name only.
LogMatchesExecution == log = executed

\* A connection is closed on a client that still listens only after all it had sent
\* was executed and all replies went out.
GracefulClose ==
    [][\A f \in connections \ connections' :
          sock[f].state \in {"open", "half"} =>
              /\ sock[f].toServer = <<>> /\ conn[f].in = <<>>
              /\ \A i \in 1..Len(conn[f].out) : conn[f].out[i] # "reply"]_vars

\* There is something left to do for a client: commands to read or to execute, output
\* to send, or a connection to close since the client stopped sending or is gone.
Busy(f) ==
    \/ sock[f].toServer # <<>> \/ conn[f].in # <<>> \/ conn[f].out # <<>>
    \/ sock[f].state \in {"half", "reset", "hup"}

\* Every client is served to the end: its commands are taken up, their replies and
\* the messages others published to it go out although no event of its own says
\* so, and when it leaves the connection is closed.
EveryoneServed == \A f \in Fd : Busy(f) ~> ~Busy(f)
=============================================================================
