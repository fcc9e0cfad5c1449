-------------------------------- MODULE Aof --------------------------------
(***************************************************************************)
(* persistence/AOFWriter and persistence/AOFLoader: the append-only file,  *)
(* its rewrite by a forked child, crashes and restarts.                    *)
(*                                                                         *)
(* A file is a sequence of frames, each a command or Torn: a frame cut     *)
(* off where the parser gives up on it whatever comes behind (cut inside a *)
(* bulk string it can instead swallow the next frame).  A value is a       *)
(* string of one element or a list; the list stands for all containers,    *)
(* being the one in which order counts and adding twice differs from       *)
(* adding once.  Deadlines are reduced to whether a key has one.           *)
(***************************************************************************)
EXTENDS Integers, Sequences, SequencesExt

CONSTANTS
    Key,
    Elem,           \* list elements and string values
    Cmd,            \* bound: the write commands the clients send
    Policies,       \* the values of kAOFPolicy considered
    MaxHist,        \* bound: states remembered since the last power loss
    MaxFile,        \* bound: frames in the file, and in the buffer
    MaxItems,       \* bound: elements of a list
    Faults          \* what the environment does to the server, see AllFaults

\* The child is killed or cannot open its file; the swap fails at open or at
\* rename; a power loss leaves half a frame; a write fails half way; the file
\* cannot be opened again after the swap; a deadline passes.
AllFaults == {"child", "swap", "torn", "write", "reopen", "expire"}

ASSUME PolicyAssumption == Policies \subseteq {"ALWAYS", "EVERYSEC", "NO"}
ASSUME FaultsAssumption == Faults \subseteq AllFaults
ASSUME BoundAssumption == {MaxHist, MaxFile, MaxItems} \subseteq Nat \ {0}

VARIABLES
    policy,     \* policy_: fixed when the server is built
    db,         \* the keyspace
    hist,       \* history variable: the keyspaces since the last power loss, oldest first
    aof,        \* the file: its frames, how many of them are surely on disk,
                \* and the place in hist that the last fsync covers
    enabled,    \* isEnabled(): fd_ is open
    buffer,     \* rewriteBuffer_
    child,      \* the rewrite child: its state, its copy of db, the keys it has to write
    temp        \* the frames of rewriteTempFile_

vars == <<policy, db, hist, aof, enabled, buffer, child, temp>>

-----------------------------------------------------------------------------
(* The keyspace and the commands that are logged. *)

Torn == [op |-> "torn"]

Missing == [type |-> "none", items |-> <<>>, ttl |-> FALSE]

EmptyDb == [k \in Key |-> Missing]

keysOf(d) == {k \in Key : d[k] # Missing}

WriteCommand ==
    [op : {"SET", "RPUSH", "LPUSH"}, key : Key, args : {<<x>> : x \in Elem}]
      \cup [op : {"DEL", "PEXPIRE"}, key : Key]
      \cup {[op |-> "FLUSHDB"]}

ASSUME CmdAssumption == Cmd \subseteq WriteCommand

\* The command replies with an error and does nothing.
wrongType(d, c) == c.op \in {"RPUSH", "LPUSH"} /\ d[c.key].type = "STRING"

cmdSet(d, c) == [d EXCEPT ![c.key] = [type |-> "STRING", items |-> c.args, ttl |-> FALSE]]

cmdRPush(d, c) ==
    IF wrongType(d, c) THEN d
    ELSE [d EXCEPT ![c.key] = [type |-> "LIST", items |-> @.items \o c.args, ttl |-> @.ttl]]

cmdLPush(d, c) ==
    IF wrongType(d, c) THEN d
    ELSE [d EXCEPT ![c.key] =
             [type |-> "LIST", items |-> Reverse(c.args) \o @.items, ttl |-> @.ttl]]

cmdDel(d, c) == [d EXCEPT ![c.key] = Missing]

cmdPexpire(d, c) ==
    [d EXCEPT ![c.key] =
        [type |-> @.type, items |-> @.items, ttl |-> @.ttl \/ @ # Missing]]

\* dispatch of a write command.
apply(d, c) ==
    CASE c.op = "SET"     -> cmdSet(d, c)
      [] c.op = "RPUSH"   -> cmdRPush(d, c)
      [] c.op = "LPUSH"   -> cmdLPush(d, c)
      [] c.op = "DEL"     -> cmdDel(d, c)
      [] c.op = "PEXPIRE" -> cmdPexpire(d, c)
      [] c.op = "FLUSHDB" -> EmptyDb

\* The keyspaces load goes through: it dispatches one command after the other, up to
\* the first frame that the parser rejects.
loaded(frames) ==
    LET d[n \in 0..Len(frames)] ==
            IF n = 0 THEN EmptyDb
            ELSE IF \E i \in 1..n : frames[i] = Torn THEN d[n - 1]
            ELSE apply(d[n - 1], frames[n])
    IN  d

\* load: what it has built up in the end.
replay(frames) == loaded(frames)[Len(frames)]

-----------------------------------------------------------------------------
(* The writer. *)

May(fault) == fault \in Faults

\* writeAll: what a file may hold after a frame was written to it.  An error is
\* only reported on stderr.
written(frames, f) ==
    {Append(frames, f)} \cup IF May("write") THEN {frames, Append(frames, Torn)} ELSE {}

\* The same when the file held one of a set of contents.
writtenAny(files, f) == UNION {written(g, f) : g \in files}

\* What it may hold after one call of writeAll for each of the frames.
allWritten(frames, more) ==
    LET files[n \in 0..Len(more)] ==
            IF n = 0 THEN {frames} ELSE writtenAny(files[n - 1], more[n])
    IN  files[Len(more)]

\* The history with d as its last keyspace.
extended(h, d) == IF d = Last(h) THEN h ELSE Append(h, d)

\* fsync: everything written so far is on disk.
fsync(a, h) == [frames |-> a.frames, durable |-> Len(a.frames), safe |-> Len(h)]

NoChild == [state |-> "none", snapshot |-> EmptyDb, todo |-> {}]

\* The constructor and load at start-up: a file that is not there is as good as empty.
Init ==
    /\ policy \in Policies
    /\ db = EmptyDb
    /\ hist = <<EmptyDb>>
    /\ aof = [frames |-> <<>>, durable |-> 0, safe |-> 1]
    /\ enabled = TRUE
    /\ buffer = <<>>
    /\ child = NoChild
    /\ temp = <<>>

\* Mutant: PEXPIRE is not registered as a write command.
logSkipsExpire(c, h) ==
    IF c.op = "PEXPIRE" THEN UNCHANGED <<aof, buffer>>
    ELSE /\ LET a == [aof EXCEPT !.frames = Append(@, c)] IN
            aof' = IF policy = "ALWAYS" THEN fsync(a, h) ELSE a
         /\ buffer' = IF child.state = "none" THEN buffer ELSE Append(buffer, c)

\* Mutant: ALWAYS leaves the fsync to the timer.
logNoFsync(c, h) ==
    /\ aof' = [aof EXCEPT !.frames = Append(@, c)]
    /\ buffer' = IF child.state = "none" THEN buffer ELSE Append(buffer, c)

\* log: to the file, and while a rewrite is under way to the buffer.
log(c, h) ==
    /\ \E frames \in written(aof.frames, c) :
          LET a == [aof EXCEPT !.frames = frames] IN
          aof' = IF policy = "ALWAYS" THEN fsync(a, h) ELSE a
    /\ buffer' = IF child.state = "none" THEN buffer ELSE Append(buffer, c)

\* A write command: dispatch, then log whatever the reply was.
Execute(c) ==
    /\ Len(hist) < MaxHist /\ Len(aof.frames) < MaxFile /\ Len(buffer) < MaxFile
    /\ db' = apply(db, c)
    /\ \A k \in Key : Len(db'[k].items) <= MaxItems
    /\ hist' = extended(hist, db')
    /\ IF enabled THEN log(c, hist') ELSE UNCHANGED <<aof, buffer>>
    /\ UNCHANGED <<policy, enabled, child, temp>>

\* triggerRewrite in the parent; a fork that fails leaves everything as it was.
triggerRewrite ==
    /\ child.state = "none"
    /\ child' = [state |-> "running", snapshot |-> db, todo |-> keysOf(db)]
    /\ buffer' = <<>>
    /\ temp' = <<>>
    /\ UNCHANGED <<policy, db, hist, aof, enabled>>

\* The commands that build up key k with value v; ttl() can find the deadline
\* passed, and then no PEXPIRE is written.
rebuild(k, v) ==
    LET value  == [op |-> IF v.type = "STRING" THEN "SET" ELSE "RPUSH",
                   key |-> k, args |-> v.items]
        expire == [op |-> "PEXPIRE", key |-> k]
    IN  {IF v.ttl THEN <<value, expire>> ELSE <<value>>}
          \cup IF v.ttl /\ May("expire") THEN {<<value>>, <<>>} ELSE {}

\* One turn of the child's loop; findEntry skips a key that has expired.
ChildWrite(k) ==
    /\ child.state = "running" /\ k \in child.todo
    /\ child' = [child EXCEPT !.todo = @ \ {k}]
    /\ \E cmds \in rebuild(k, child.snapshot[k]) : temp' \in allWritten(temp, cmds)
    /\ UNCHANGED <<policy, db, hist, aof, enabled, buffer>>

\* The loop is done: exit code 0, whatever happened to the writes.
ChildExit ==
    /\ child.state = "running" /\ child.todo = {}
    /\ child' = [child EXCEPT !.state = "done"]
    /\ UNCHANGED <<policy, db, hist, aof, enabled, buffer, temp>>

\* The child cannot open its file, or is killed.
ChildFail ==
    /\ May("child") /\ child.state = "running"
    /\ child' = [child EXCEPT !.state = "failed"]
    /\ UNCHANGED <<policy, db, hist, aof, enabled, buffer, temp>>

\* Mutant: the buffer is forgotten.
withoutBuffer == {temp}

\* The frames of the temporary file once the buffer was appended to it.
withBuffer == allWritten(temp, buffer)

\* checkRewriteComplete, first case: the child exited with 0, the buffer goes
\* behind the snapshot and the new file takes the old one's place.
swap(h) ==
    /\ child.state = "done"
    /\ \E frames \in withBuffer :
          aof' = fsync([frames |-> frames, durable |-> 0, safe |-> 0], h)
    /\ enabled' \in {TRUE} \cup IF May("reopen") THEN {FALSE} ELSE {}
    /\ buffer' = <<>> /\ child' = NoChild /\ temp' = <<>>

\* Mutant: a failed rewrite leaves its commands in the buffer.
abandonKeepsBuffer(a) ==
    /\ child.state = "failed" \/ (child.state = "done" /\ May("swap"))
    /\ aof' = a
    /\ child' = NoChild /\ temp' = <<>>
    /\ UNCHANGED <<enabled, buffer>>

\* Mutant: isRewriting_ stays set when the rewrite fails.
abandonStillRewriting(a) ==
    /\ child.state = "failed" \/ (child.state = "done" /\ May("swap"))
    /\ aof' = a
    /\ buffer' = <<>> /\ temp' = <<>>
    /\ UNCHANGED <<enabled, child>>

\* Second case: the child failed, or the temporary file cannot be opened or renamed.
\* A temporary file that stays behind is never read.
abandon(a) ==
    /\ child.state = "failed" \/ (child.state = "done" /\ May("swap"))
    /\ aof' = a
    /\ buffer' = <<>> /\ child' = NoChild /\ temp' = <<>>
    /\ enabled' = enabled

\* Third case: there is no child, or it is still running.
notYet(a) ==
    /\ child.state \in {"none", "running"}
    /\ aof' = a
    /\ UNCHANGED <<enabled, buffer, child, temp>>

\* Mutant: tick does not sync.
tickNever(h) == {aof}

\* tick: the second has passed or has not.
tick(h) == {aof} \cup IF policy = "EVERYSEC" /\ enabled THEN {fsync(aof, h)} ELSE {}

\* The timer of main.cpp: activeExpireCycle, tick, checkRewriteComplete.  That a key
\* expires is written nowhere.
Timer ==
    \E K \in SUBSET {k \in Key : May("expire") /\ db[k].ttl} :
        /\ K # {} => Len(hist) < MaxHist
        /\ db' = [k \in Key |-> IF k \in K THEN Missing ELSE db[k]]
        /\ hist' = extended(hist, db')
        /\ \E a \in tick(hist') : notYet(a) \/ abandon(a) \/ swap(hist')
        /\ policy' = policy

-----------------------------------------------------------------------------
(* Stopping and starting again. *)

\* A new process: load, then an empty buffer and no child.  What it has loaded is
\* the next keyspace of the history.
start(frames) ==
    /\ db' = replay(frames)
    /\ enabled' = TRUE
    /\ buffer' = <<>> /\ child' = NoChild /\ temp' = <<>>
    /\ policy' = policy

\* SIGTERM: the destructor of AOFWriter calls fsync.
Shutdown ==
    /\ start(aof.frames)
    /\ hist' = extended(hist, db')
    /\ aof' = IF enabled THEN fsync(aof, hist') ELSE aof

\* The process dies; the kernel keeps what was written.
Kill ==
    /\ start(aof.frames)
    /\ hist' = extended(hist, db')
    /\ aof' = aof

\* The files a power loss may leave: some of what was not synced is gone.
survivors(a) ==
    {SubSeq(a.frames, 1, n) : n \in a.durable..Len(a.frames)}
      \cup IF May("torn")
           THEN {Append(SubSeq(a.frames, 1, n), Torn) : n \in a.durable..(Len(a.frames) - 1)}
           ELSE {}

PowerLoss ==
    \E frames \in survivors(aof) :
        /\ start(frames)
        /\ hist' = <<db'>>
        /\ aof' = fsync([frames |-> frames, durable |-> 0, safe |-> 0], hist')

-----------------------------------------------------------------------------

Child == ChildExit \/ ChildFail \/ \E k \in Key : ChildWrite(k)

Next ==
    \/ \E c \in Cmd : Execute(c)
    \/ triggerRewrite
    \/ Child
    \/ Timer
    \/ Shutdown \/ Kill \/ PowerLoss

Spec == Init /\ [][Next]_vars

\* The kernel runs the child; the timer fires every 100 ms, and every second it
\* finds that a second has passed.
FairSpec ==
    /\ Spec
    /\ WF_vars(Child) /\ WF_vars(Timer)
    /\ WF_vars(Timer /\ aof' = fsync(aof', hist'))

-----------------------------------------------------------------------------
(* Properties. *)

Value == [type : {"none", "STRING", "LIST"}, items : Seq(Elem), ttl : BOOLEAN]

\* Type correctness.
TypeOK ==
    /\ db \in [Key -> Value]
    /\ hist \in Seq([Key -> Value])
    /\ aof.durable \in 0..Len(aof.frames) /\ aof.safe \in 1..Len(hist)
    /\ child.state \in {"none", "running", "done", "failed"}
    /\ child.state = "none" => buffer = <<>> /\ temp = <<>>
    /\ child.state = "done" => child.todo = {}

\* Nothing follows a torn frame.
intact(frames) == \A i \in 1..(Len(frames) - 1) : frames[i] # Torn

\* Whenever the power fails, and whatever is lost of the commands that were not
\* synced, the next start finds a keyspace that existed, and one no older than the
\* last fsync.  This covers the swap: a command that is in the child's snapshot and
\* again in the buffer, or in neither, would show.
CrashSafe ==
    intact(aof.frames) =>
        \A n \in aof.durable..Len(aof.frames) :
            \E i \in aof.safe..Len(hist) : replay(SubSeq(aof.frames, 1, n)) = hist[i]

\* While the server runs, the file replays to exactly the keyspace in memory,
\* before, during and after a rewrite.
FileIsCurrent == intact(aof.frames) /\ enabled => replay(aof.frames) = db

\* With ALWAYS, whose fsync comes before the reply, a power loss takes nothing away.
NothingLost ==
    policy = "ALWAYS" /\ intact(aof.frames) =>
        \A n \in aof.durable..Len(aof.frames) : replay(SubSeq(aof.frames, 1, n)) = db

\* A rewrite comes to an end whatever becomes of the child and of the swap; until
\* then BGREWRITEAOF does nothing and the buffer grows.
RewriteEnds == (child.state # "none") ~> (child.state = "none")

\* With EVERYSEC every change is on disk after a while, unless it was lost before or
\* the file could not be opened again.
EventuallyDurable ==
    \A n \in 1..MaxHist :
        (policy = "EVERYSEC" /\ Len(hist) >= n) ~> (aof.safe >= n \/ Len(hist) < n \/ ~enabled)

\* docs/persistence.md:47, the data loss window of EVERYSEC: "Up to ~1 second".
\* What was synced survives every power loss.
SyncedSurvive ==
    \A n \in aof.durable..Len(aof.frames) :
        \E i \in aof.safe..Len(hist) : replay(SubSeq(aof.frames, 1, n)) = hist[i]

\* docs/persistence.md:94 "the buffer is appended to the new file before the atomic
\* swap, ensuring no commands are lost".
RewriteLosesNothing ==
    [][Timer /\ child.state = "done" /\ aof'.frames # aof.frames
         => replay(aof'.frames) = db']_vars
=============================================================================
