# simple-redis in TLA+

Specifications of the single-threaded key-value server in `src/`: its storage
engine, expiry, persistence, sorted sets, event loop and protocol. `PROJECT.json` lists components, runs, mutants,
the map from definitions to source lines, findings, hazards and theorems.

    tlc -config MCHashTable.cfg MCHashTable      # a run
    tlapm HashTableProofs.tla                    # the proofs of a module

## The system

One thread runs `main.cpp`: `epoll_wait`, then for every ready connection read,
parse, dispatch, log, write; then one `rehashStep`, a sweep for pending output and
the removal of closed connections. A timer callback runs every 100 ms. The only
second process is the child of an AOF rewrite. What makes this hard is therefore not
data races but *state spread over several structures that must move together*, *work
cut into small steps between which clients act* (rehash, expiry, scan, rewrite), the
*wall clock*, *crashes*, and *clients that cut their input anywhere, read slowly and
disappear*.

| Component | State | Operations | Interacts with |
|---|---|---|---|
| `HashTable` | two arrays of chains, `isRehashing_`, `rehashIdx_` | find, set, del, keys, scan, rehashStep, flushAll | hands out `HTEntry*` that commands write through |
| `TTLHeap` | array heap, key-to-index map | push, update, remove, popExpired | called by Database only |
| `Database` | table, heap, `usedMemory_` | get, set, del, exists, keys, scan, setExpire, ttl, activeExpireCycle, findEntry, setObject, flushdb | reads the wall clock at each call of `nowMs()` |
| commands | none | one handler per command | Database, reply buffer |
| `AOFWriter` | `fd_`, rewrite flag, child pid, rewrite buffer | log, tick, triggerRewrite, checkRewriteComplete | kernel, child process, two files |
| `AOFLoader` | none | load | RespParser, CommandTable |
| transactions | `conn.txn` | MULTI, queueing, EXEC, DISCARD | CommandTable, AOFWriter |
| pub/sub | registry of `Connection*`, `subscribedChannels` | SUBSCRIBE, UNSUBSCRIBE, PUBLISH, close | other connections' buffers |
| connections | buffers, want flags | handleRead, handleWrite, close | epoll, fd numbers |
| `RespParser`, `Buffer` | read and write positions | parse, append, consume | connections, loader |
| `Skiplist`, sorted sets | towers, dict | insert, remove, rangeByRank | ZSET commands |

Hard behaviours, in the order of the components: a key lives in one of two tables and
must never be in both or in neither; a cursor outlives a rehash; the heap must follow
every change of a deadline; lazy, active and explicit deletion meet; two clock readings
within one command differ; a rewrite runs beside the commands, each of which has to end
up in the new file once; any of the steps of a swap can fail; power can fail between
`write` and `fsync`; a pass of the loop handles events that were collected before it; one
client's command writes into another's connection; a connection subscribes inside its
own transaction; input ends while replies wait; a command arrives in pieces; towers of
random height are relinked level by level. The list with source lines is under "hazards" in `PROJECT.json`.

## Modules

| Module | Models | Notes |
|---|---|---|
| `KeyspaceMap` | what `HashTable` promises | abstract: a set of entries, one per key |
| `HashTable` | `store/HashTable` | operators on the object's state, one action per call |
| `HashTableScan` | `HashTable::scan` under `Database::scan` | one client's iteration among others' calls |
| `RehashLoop` | `HashTable::rehashStep`, `migrateOneSlot` | the loop, to compare with the closed form |
| `DeadlineQueue` | what `TTLHeap` promises | abstract: a set of (key, deadline) |
| `TTLHeap` | `store/TTLHeap` | each iteration of a sift or of the pop loop is a step |
| `Keyspace` | `Database`'s operations as functions | table as map, heap as queue, memory counter |
| `Database` | the commands and the timer on a Database | one action per command, clock readings explicit |
| `Aof` | `persistence/` | file, fsync, rewrite child, crash, restart |
| `Server` | the loop of `main.cpp`, `Connection`, `EventLoop`, `Listener`, `PubSubRegistry`, transactions | one action per turn of each inner loop; clients and kernel beside it |
| `Buffer` | `net/Buffer` | operators on the object |
| `RespParser` | `proto/RespParser` | the parser as a function of the readable bytes |
| `Inbound` | one client's bytes through a `Connection` | composes `Buffer` (twice) and `RespParser` with the parse loop |
| `SortedSet` | `store/Skiplist` and the dict under ZADD, ZREM | one comparison of a search is a step |
| `*Proofs` | theorems about the module of that name | |
| `NatLemmas` | least elements and induction on `0..n` | |
| `MC*` | constants for TLC | |

`Keyspace` builds on the two abstract modules and not on the detailed ones; the
refinements `HashTable => KeyspaceMap` and `TTLHeap => DeadlineQueue`, both proved,
are what allows this.

**HashTable.** `ht` is the object: `primary`, `rehash` (slots, capacity, size),
`isRehashing`, `rehashIdx`. A chain is a set since no operation depends on its order.
`rehashStep` is written in closed form (`batchEnd` is where the loop stops);
`RehashLoop` has the loop itself, turn by turn, and `LoopAgrees`, checked and proved, says that
the two end in the same state. `Assign` is a write through the pointer `find` returned.

**TTLHeap.** `heap`, `n`, `keyToIndex` and `call`, the program counter of the call in
progress, so that the index map can be inspected in the middle of a sift.

**Database.** A value is its type and number of items; a string has 1 item when it is
held in RAW encoding and 0 as INTEGER. This is what `memoryUsage` tells apart. The
counter is a `size_t`: arithmetic is modulo `SizeMod`. A command is one step, but it
may read the clock twice, and `Later` is what the second reading may give.
`ClockMayStepBack` is for `system_clock`, which is not monotonic. The handlers of
LPUSH/RPUSH, HSET, SADD, ZADD share `AddCmd`, those of LPOP/RPOP, HDEL, SREM, ZREM
share `TakeCmd`.

**Aof.** A file is a sequence of commands with `durable`, how many are known to be on
disk. `Torn` is a frame cut off where `parseArray` fails whatever comes behind it, on a
missing `$` or a wrong trailer, so that the loader stops; this is one outcome, see
"Noticed". The list stands for all
containers: order matters in it and replaying an addition twice shows. Keys either have
a deadline or not; that one passes is the environment's choice (`"expire"`). The fsync
policy is a constant of the build; `policy` is chosen in `Init` and never changes. `Faults`
names what the environment may do: kill the child, fail the swap, tear the last frame
at a power loss, fail a write, fail the reopen, let a deadline pass. The history
variable `hist` holds the keyspaces since the last power loss, `aof.safe` the one the
last `fsync` covered. Not modelled: a rename that is itself lost at a power failure
(the code does not sync the directory), and an AOF file that cannot be opened at start.

**Server.** `conn[f]` is the `Connection` at descriptor `f`, with `id` for its address:
the registry `channels` holds ids as the code holds pointers, and an id is never used
again, so a pointer that outlives its object shows. `pc` is the place in the loop:
`poll`, `pass` (the next event, or the end of the pass), `parse`, `exec` (inside EXEC, one
queued command per step) and `write` (the rest of the event). `ready` are the events
`epoll_wait` returned, in any order; `eventsAt` is what a level-triggered epoll reports,
`ERR` and `HUP` unasked. `Poll` has the set of clients whose socket is full as a parameter.
A read takes any part of what was sent, a write any part of what is waiting. Clients act
while the server waits, which loses nothing with level-triggered events, but a reset can
come between any two steps outside the parse loop, since it makes announced calls fail.
Commands on the keyspace are one command here; the keyspace itself is in the other
modules. Whether one succeeds (known, with the right arity, accepted by its handler) is
therefore a choice: `executed` records the write commands that succeeded, `failed` counts
those answered with an error, and `log` is what the two call sites of `AOFWriter::log` pass
on, which look at the name only. An outgoing buffer keeps the order of replies and pushed
messages, without repetitions.

**Inbound.** The other half of a connection: bytes. `Script` is what a client sends, the
network decides where each `read` ends, `HandleWrite` sends any part. An item of a script
is an array of bulk strings (empty ones possibly as null strings), a null array, a line of
words, or one of the two ways a frame can be malformed for good: a byte other than `$`
where a string should begin, or a string without its CR LF. `wire` encodes it; `complete(n)`,
the specification, is computed from the script and never looks at the buffer or the parser.
A command's reply is its last argument as a bulk string, so altered, lost or doubled
bytes show at the client too.

**SortedSet.** Nodes have addresses; address 0 is the header, whose tower has
`kMaxLevel` levels. `call` is the insert or remove in progress with `x`, `i` and `update` as
in the code. The height is any of those `randomLevel` can return. The score update of
ZADD is a remove followed by an insert; the dict is changed where the code does. `NaN` is
a score that compares like the floating-point one.

## Runs

Passing:

| Run | Shows | Bounds |
|---|---|---|
| `hash_table` | refinement of the map, exact reads, load bound, rehash ends | 5 keys with collisions in tables of 1, 2 and 4 slots, 2 values, batch of 1 slot |
| `scan_quiet` | the inductive invariant; loop of `rehashStep` = closed form; SCAN complete unless a later call overlaps a rehash | 5 keys, load factor 1, tables up to 8 slots with an empty slot among full ones, batch of 2, COUNT 1 and 2 |
| `ttl_heap` | heap order, refinement of the queue, order of pops, draining | 6 keys, 3 deadlines: three levels, so a node can need to rise in another branch |
| `database` | heap = table, no empty container, only due keys expire, PTTL's replies, accounting, due keys leave | 2 keys, 5 types, 2 items, clock {0,1} stepping both ways, no deadline before the epoch, 1 key of work per pass, `SizeMod` 4 so that the counter wraps |
| `aof` | as long as no key expires and no write or reopen fails: crash safety, file = memory, ALWAYS loses nothing, rewrites end, changes become durable | ALWAYS and EVERYSEC (NO is EVERYSEC whose second never passes), 2 keys, 7 commands, 3 frames, 3 keyspaces of history |
| `server` | registry exact, modes apart, events current, no successful write missing in the log, graceful close, everyone served | 2 clients on 2 descriptors, of which the second may get the first one's; 2 of 4 pipelines of 2 or 3 commands with two different writes, each of which may fail |
| `inbound` | commands exact, replies in order, buffers sound | 5 streams of up to 4 items, two of them with a malformed frame before the last one, read size and initial capacity small enough for all three tiers |
| `sorted_set` | towers, links, level, skiplist = dict, ranges and ranks, searches end | 3 members, 3 scores without NaN, 3 levels |

The bounds let every case of the code happen: a chain of three that a migration
splits, a key overwritten in the old table, a second rehash after the first, a heap
whose hole is filled from another subtree, a full work quota, commands before, during
and after a snapshot, a crash in each of those places; a transaction whose commands
arrive in several reads, a subscriber that disappears while a message waits for it, a
descriptor that is given out again; arguments that contain CR LF or look like a frame;
towers that overtop the list and vanish from it.

Violated, each a statement of the repository that the code does not keep (quoted under
"findings"):

| Run | What the code does |
|---|---|
| `scan_complete` | only the call with cursor 0 walks the old table; later calls during a rehash miss keys |
| `aof_torn` | a torn frame stays in the file and hides everything appended behind it at the next start |
| `aof_write` | a failed write in the child or of the buffer goes unnoticed and the file is swapped in |
| `server_log` | a write command that was refused or failed is logged like one that succeeded; `WritesLogged`, which holds, says that this is the only difference |

## Noticed

Seen while modelling, without a run of its own:

* Keyspace. `KEYS` and `DBSIZE` include keys that have expired and were not removed yet.
  `ttl` reads the clock twice and can answer -1 or -2 for a key whose deadline passes in
  between (`PttlTells` says that no other key is told so). A deadline before the epoch, as a
  large negative TTL sets it, is "no expiry" for every reader and due for the timer. The
  memory counter does not follow containers that grow in place, so `del` subtracts more
  than was added (`MemoryTracks` is about the steps that do account for a change). A string
  such as `007` is stored as an INTEGER and comes back as `7`. `seconds * 1000` can overflow.
* Persistence. That a key expires is not logged and TTLs are logged as relative times:
  after a restart an expired key is back, and one that was written again after it expired
  is built on top of its old value. After a failed reopen (`fd_ = -1`) commands are neither logged nor buffered, and a later rewrite makes
  that hole permanent. A frame cut inside a bulk string does not always stop the loader:
  the bytes of the frame appended behind it can complete it, and a command nobody sent
  is replayed. EXEC's commands are logged as separate frames. When the loader fails to read,
  the server starts with an empty keyspace and appends to the old file.
* Server. EXEC announces as many replies as it has commands (`docs/commands.md:453`), but a
  queued SUBSCRIBE of several channels gives several, and a message published to oneself
  comes in between. PUBLISH counts subscribers that are already marked for closing. QUIT is
  let through by the gate and unknown to the table. Outgoing buffers have no limit. When
  no descriptor is left the listener stays readable and the loop spins.
* Protocol. After a malformed frame nothing more is executed on the connection
  (`CommandsExact` states it), although `RespParser.cpp:45` speaks of recovery; the buffer
  grows with all that is still sent.
* Sorted sets. `strtod` accepts `nan`. A NaN is not found again: a new score for the member
  adds a second node, ZREM leaves the node behind, and `InSync` fails as soon as NaN is put
  into `Score` (`docs/data_structures.md:129` "Both are kept in sync"). `stoi` on a rank that is
  no number throws, and nothing catches it.

## Fairness

`HashTable`: weak fairness of `Tick`, since `main.cpp` calls `rehashStep` at the end of
each pass and `epoll_wait` has a timeout. `Database`: weak fairness of `ActiveExpire`,
which the timer calls whatever clients do. `Aof`: weak fairness of the child (the kernel
runs it), of the timer, and of the timer finding that a second has passed. `Server`: weak
fairness of the thread as a whole, and for each descriptor that is registered for
writing strong fairness of a poll at which its socket takes bytes: a client that is
still there reads now and then. Which event or client is served first is not assumed.
`SortedSet`: weak fairness of the call in progress, which nothing interrupts. No command
of a client is assumed to come.

`DueLeaves` assumes that clients do not for ever set deadlines that are past at once. With
TTLs of zero or less they can keep putting deadlines in front of one that waits, and each
pass takes only the earliest; TLC finds that behaviour when the premise is dropped.

## Proofs

For every value of the constants, from the named assumptions in the modules:

* **HashTable.** `IInv` says: the shapes are right; counters equal the number of
  entries; each entry is in the slot its hash selects; no key has two entries across
  both tables; the old table exists exactly during a rehash, has half the capacity, and
  is empty below `rehashIdx`; and `size <= factor * old capacity + 1 + rehashIdx`. The last
  part is what makes `LoadBounded` inductive: each insertion during a rehash adds one
  entry and moves at least one slot. From `IInv`: `ReadsAgree`, `LoadBounded`, the refinement
  `MapSpec` and `CallsAgree`. For `LoopAgrees`: after `m` turns either `m` chains have been moved,
  the last from the slot before `rehashIdx`, and entries are left (`Under`), or all have been
  moved in at most `m` turns (`Over`); with exact counters both lead to the closed form.
* **TTLHeap.** Heap order holds only between calls. `SiftProgress` says what holds
  inside: all edges but those of the node being sifted, the nodes below it against the
  one above it, and which of the two sides is known to be in order, which depends on the
  sift that comes first. `PopProgress` ties pops to the root. From them: order, index
  synchrony, `QueueSpec`, `PopInOrder`, and `PopDrains`, which needs that the root is a least
  element.
* **Database.** `IInv` is its own strengthening: `HeapMatchesTable` with uniqueness of
  entries and types. `LiveKeysStay` also needs `DeadlinesAfterEpoch`: the timer deletes a key
  with a negative deadline, which counts as live. `PttlTells` follows from `IInv` and itself:
  the node of a key with time left is not due, so the timer cannot make a reply false.
  `CInv` adds that the table is finite and the counter a `size_t`, whence `TypeOK`. For
  `MemoryTracks` memory is counted in units, so that what disjoint sets of entries occupy
  adds up (`TotalOfUnion`), and a remainder may be taken early (`ModShift`): the difference
  comes out right although the counter itself drifts and wraps in other steps.
* **HashTableScan.** `ScanInv` adds to the table's `IInv` that every key that was there
  when the iteration began and has not been returned lies in a slot at or behind the
  cursor, unless a rehash overlapped a later call. A grown table is the delicate step:
  with the power-of-two mask, doubling moves a key of slot `s` to `s` or `s + capacity`, never to an
  earlier slot (`SlotDoubles`). From it `ScanCompleteQuiet`; the stronger claim of the docs is
  the violated run `scan_complete`.
* **Server.** `IInv` is the conjunction of the properties with what makes them inductive:
  ids of connections are pairwise different and below `accepted`; the turn's connection is
  the one that is registered; each event of the pass is there once; a connection marked
  for closing has been served; input is drained before a read error or end of input is
  acted upon. From it, without any hypothesis: `RegistryExact`, `ModesApart`,
  `EventsCurrent`, `WritesLogged`, and the action property `GracefulClose`. A subsequence
  stays one when the log grows, alone (`SubsequenceLonger`) or together with `executed`
  (`SubsequenceBoth`); the claim of the comments, `LogMatchesExecution`, is the violated run
  `server_log`.
* **Aof.** `Current` says: the file replays to the keyspace in memory, every prefix that a
  power loss may leave replays to a keyspace of the history no older than the last
  `fsync`; and for the child, what it has written replays to the part of the snapshot it is
  done with, and the snapshot followed by the rewrite buffer gives the keyspace in memory.
  The last part is what the swap needs. Hypothesis `QuietFaults`: no write fails, no reopen
  fails, no key expires. Killed children, failing swaps, torn frames, crashes and restarts
  are all allowed. The hypothesis is what the code really needs: `aof_write` shows the
  first, "Noticed" describes the other two. `TypeCorrect` has no hypothesis. `SyncedCorrect`
  needs in addition that no frame is torn, and `aof_torn` shows why.
* **SortedSet.** Hypothesis `NoNaN`, which the code does not enforce ("Noticed"). A level of
  the list is a set of nodes under a strict order, and `IsNext` says which node follows
  which: `Splice` and `Unsplice` are the pointer updates of `insert` and `remove` on one level,
  `NextInjective` says that no two nodes have the same successor. `SInv` has these for every
  level; for the search in progress, that the nodes of `update` come before the pair and
  their successors do not (`Found`), and that above `level_` the header is right; and for the
  member between ZADD's remove and insert, that it alone has no node. `remove` therefore
  always finds its node, and on every level that node reaches. From `SInv`: `TypeOK`,
  `Towers`, `InSync`. `ReadsAgree` needs more about the order: the rank of a member is the
  number of nodes before its node (`RankOfNode`), the walk along level 1 raises it by one
  (`WalkRank`), and no two nodes have the same (`RankInjective`).

* **Inbound.** `IInv` is `TypeOK` and `RepliesInOrder` for nonempty commands. Each tier of
  `ensureWritableBytes` keeps the readable bytes (`EnsureBuf`) and makes the room asked for:
  doubling is enough because `needed` rounds at least reach `needed` (`GrownSize`). `parse`
  consumes at least one byte and never more than there are (`ParseBounds`, from an invariant
  of the loop of `parseArray`), also on malformed input. A partial write moves bytes from `out`
  to `received`, and `received \o unread(out)` stays as it is.
  `CommandsExact` rests on `FrameParsed`: the parser inverts the encoding, wherever the bytes
  end. `At(d, p, s)` says that `d` holds `s` from `p` on as far as `d` goes, so one statement covers
  complete and cut frames. Upwards: `atoi` reads what `to_string` writes (`AtoiDecimal`); a line
  is found when its CR LF has arrived (`LineAt`); a turn of the loop of `parseArray` takes the
  string as it was sent, CR LF or syntax within it notwithstanding, or fails and stays
  failed (`StringAt`, `LoopAt`, `LoopFails`); the tokens of a line of words are the words
  (`TokensOfWords`); so each frame gives its command when its last byte is there
  (`ItemParsed`) and a malformed one never does (`MalformedParsed`). The invariant of the
  parse loop, `Parsing`: for some `k` the first `k` items have been taken, `got` is what they
  mean and the buffer holds what has arrived behind them; in "wait" the next item is
  incomplete or malformed. That `complete` picks this `k` is `CompleteIs`: there is but one
  last item (`LastOne`). No hypothesis but that bytes include those of the protocol; the
  length of a string is not bounded, so for strings beyond `int`, where `atoi` is undefined,
  the theorem says nothing about the code.

`replay`, `allWritten`, `walked`, `turns` and the loops of the parser are recursive functions; what the proofs need of them is
obtained from a least counterexample (`NatLemmas!LeastNat`, `UpTo`), since the library's induction
theorems cannot be instantiated. That the function a recursive definition names exists is
obtained the same way (`RecursionExists` in `InboundProofs`).

Only model-checked: liveness (`RehashCompletes`, `DueLeaves`, `RewriteEnds`,
`EventuallyDurable`, `EveryoneServed`, `CallsEnd`), since fairness and `ENABLED` are beyond the
prover. Every invariant and every other action property of the passing runs is a theorem,
some under the hypotheses named above.

## Plan

Done: storage engine, expiry, persistence, sorted sets, server loop, protocol; proofs for
all of them, `CommandsExact` last. Worth adding when the code changes there: the hazards
without a property in `PROJECT.json`, and the commands' own argument checks.

## Not modelled

INFO, latency and slow log (reporting: nothing reads them but INFO), reply
formatting beyond bulk strings, opening the listening socket, signal set-up, argument
parsing, the members of lists, hashes and sets (library containers). `removeExpire` and
`Skiplist::find` have no caller. More than 128 events per pass (`kMaxEvents`) are not told
apart from fewer: the rest is reported again.
