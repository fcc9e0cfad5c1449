------------------------------ MODULE Inbound ------------------------------
(***************************************************************************)
(* One client's bytes on their way through a Connection: handleRead into   *)
(* the incoming Buffer, the parse loop of main.cpp, a reply into the       *)
(* outgoing Buffer, handleWrite.  The network cuts both streams wherever   *)
(* it likes.                                                               *)
(***************************************************************************)
EXTENDS Buffer, RespParser, SequencesExt

CONSTANTS
    Script,         \* what clients may send: sequences of items
    kReadBufSize

Args == Seq(Seq(Byte))
CRLF == <<"CR", "LF">>

\* A word of an inline command.
Word ==
    {s \in Seq(Byte) \ {<<>>} :
        /\ \A i \in 1..Len(s) : s[i] # " "
        /\ \A i \in 1..(Len(s) - 1) : <<s[i], s[i + 1]>> # CRLF}

\* What a client sends at once, and the command it means: an array of bulk strings, some
\* of the empty ones as null strings; a null array, which means none; a line of words.
\* And what is no frame: fewer strings than announced, then a byte that begins none, or
\* a string with something else than CR LF behind it.
NullArray == [kind : {"nullArray"}, args : {<<>>}]
Inline == {x \in [kind : {"inline"}, args : Seq(Word)] : x.args # <<>> => x.args[1][1] # "*"}
Array == [kind : {"array"}, args : Args, nulls : SUBSET Nat]
NoBulk ==
    {x \in [kind : {"noBulk"}, args : Args, nulls : SUBSET Nat, count : Nat, byte : Byte \ {"$"}] :
        x.count > Len(x.args)}
WrongTrailer ==
    {x \in [kind : {"wrongTrailer"}, args : Args, nulls : SUBSET Nat, count : Nat,
             last : Seq(Byte), trailer : (Byte \X Byte) \ {CRLF}] :
        x.count > Len(x.args)}

Malformed == NoBulk \cup WrongTrailer
Item == Array \cup NullArray \cup Inline \cup Malformed

ASSUME ReadSizeAssumption == kReadBufSize \in Nat \ {0}
ASSUME ByteAssumption ==
    {"CR", "LF", " ", "*", "$", "-"} \cup {Digit[n] : n \in 1..10} \subseteq Byte
ASSUME ScriptAssumption == Script \subseteq Seq(Item)

VARIABLES
    script,         \* the items this client sends
    arrived,        \* bytes read from the socket so far
    in, out,        \* the Connection's buffers
    pc,             \* "wait" for an event, or "parse"
    got,            \* the commands dispatched
    received        \* what the client has received

vars == <<script, arrived, in, out, pc, got, received>>

-----------------------------------------------------------------------------
(* What clients send, and the reply. *)

\* std::to_string: the digits of n, the last one first.
oneDigit(s) ==
    IF s.rest = 0 THEN s
    ELSE [rest |-> s.rest \div 10, digits |-> <<Digit[(s.rest % 10) + 1]>> \o s.digits]

stripped(n) ==
    LET s[i \in 0..n] == IF i = 0 THEN [rest |-> n, digits |-> <<>>] ELSE oneDigit(s[i - 1])
    IN  s

decimal(n) == IF n = 0 THEN <<"0">> ELSE stripped(n)[n].digits

\* The line that announces a string or an array of n.
head(ch, n) == <<ch>> \o decimal(n) \o CRLF

\* RespSerializer::writeBulkString.
bulkString(s) == head("$", Len(s)) \o s \o CRLF

\* Sequences one after the other, the first i of them.
joined(ss) == LET j[i \in 0..Len(ss)] == IF i = 0 THEN <<>> ELSE j[i - 1] \o ss[i] IN j
concat(ss) == joined(ss)[Len(ss)]

\* The strings of an item, each as it is sent.
sent(item) ==
    [i \in 1..Len(item.args) |->
        IF i \in item.nulls /\ item.args[i] = <<>> THEN <<"$", "-", "1">> \o CRLF
        ELSE bulkString(item.args[i])]

wire(item) ==
    CASE item.kind = "array" -> head("*", Len(item.args)) \o concat(sent(item))
      [] item.kind = "nullArray" -> <<"*", "-", "1">> \o CRLF
      [] item.kind = "inline" ->
            concat([i \in 1..Len(item.args) |-> item.args[i] \o <<" ">>]) \o CRLF
      [] item.kind = "noBulk" -> head("*", item.count) \o concat(sent(item)) \o <<item.byte>>
      [] item.kind = "wrongTrailer" ->
            head("*", item.count) \o concat(sent(item))
              \o head("$", Len(item.last)) \o item.last \o item.trailer

wires == [i \in 1..Len(script) |-> wire(script[i])]
stream == concat(wires)

\* How many of the first bytes the first n items take.
span(n) == Len(joined(wires)[n])

\* Any command stands for the rest: the reply is its last argument.
reply(args) == bulkString(args[Len(args)])

-----------------------------------------------------------------------------

Init ==
    /\ script \in Script
    /\ arrived = 0
    /\ in = EmptyBuffer /\ out = EmptyBuffer
    /\ pc = "wait"
    /\ got = <<>> /\ received = <<>>

\* Mutant: no room is made before the read.
HandleReadNoRoom ==
    /\ pc = "wait" /\ arrived < Len(stream)
    /\ \E n \in 1..kReadBufSize :
          /\ arrived + n <= Len(stream)
          /\ in' = filled(in, SubSeq(stream, arrived + 1, arrived + n))
          /\ arrived' = arrived + n
    /\ pc' = "parse"
    /\ UNCHANGED <<script, out, got, received>>

\* handleRead: as much as has arrived and fits.
HandleRead ==
    /\ pc = "wait" /\ arrived < Len(stream)
    /\ LET b == ensureWritableBytes(in, kReadBufSize) IN
       \E n \in 1..writableBytes(b) :
          /\ arrived + n <= Len(stream)
          /\ in' = filled(b, SubSeq(stream, arrived + 1, arrived + n))
          /\ arrived' = arrived + n
    /\ pc' = "parse"
    /\ UNCHANGED <<script, out, got, received>>

\* One turn of the parse loop, which goes on until parse finds nothing; an empty
\* command is skipped.
ParseCommand ==
    LET r == parse(unread(in)) IN
    /\ pc = "parse" /\ r.ok
    /\ in' = consume(in, r.bytesConsumed)
    /\ IF r.args = <<>> THEN UNCHANGED <<got, out>>
       ELSE got' = Append(got, r.args) /\ out' = append(out, reply(r.args))
    /\ pc' = pc
    /\ UNCHANGED <<script, arrived, received>>

ParseDone ==
    /\ pc = "parse" /\ ~parse(unread(in)).ok
    /\ pc' = "wait"
    /\ UNCHANGED <<script, arrived, in, out, got, received>>

\* Mutant: a partial write is taken for a whole one.
HandleWriteDropsRest ==
    /\ pc = "wait"
    /\ \E n \in 1..readableBytes(out) :
          /\ received' = received \o SubSeq(unread(out), 1, n)
          /\ out' = consume(out, readableBytes(out))
    /\ UNCHANGED <<script, arrived, in, pc, got>>

\* handleWrite: the kernel takes a part of it.
HandleWrite ==
    /\ pc = "wait"
    /\ \E n \in 1..readableBytes(out) :
          /\ received' = received \o SubSeq(unread(out), 1, n)
          /\ out' = consume(out, n)
    /\ UNCHANGED <<script, arrived, in, pc, got>>

Next == HandleRead \/ ParseCommand \/ ParseDone \/ HandleWrite

Spec == Init /\ [][Next]_vars

-----------------------------------------------------------------------------
(* Properties. *)

GoodBuffer(b) == 0 <= b.readPos /\ b.readPos <= b.writePos /\ b.writePos <= Len(b.data)

\* Type correctness, and what the assertions in Buffer.cpp say of the cursors.
TypeOK ==
    /\ script \in Script /\ arrived \in 0..Len(stream)
    /\ {in, out} \subseteq [data : Seq(Byte), readPos : Nat, writePos : Nat]
    /\ GoodBuffer(in) /\ GoodBuffer(out)
    /\ got \in Seq(Args) /\ received \in Seq(Byte)
    /\ pc \in {"wait", "parse"}

\* The first n items hold no malformed frame.
clean(n) == \A i \in 1..n : script[i] \notin Malformed

\* The commands in the first n items.
withCommand(cmds, args) == IF args = <<>> THEN cmds ELSE Append(cmds, args)

commands(items) ==
    LET c[i \in 0..Len(items)] == IF i = 0 THEN <<>> ELSE withCommand(c[i - 1], items[i].args)
    IN  c

meant(n) == commands(script)[n]

\* The commands whose last byte is among the first n, up to a malformed frame.
complete(n) ==
    meant(CHOOSE k \in 0..Len(script) :
             /\ clean(k) /\ span(k) <= n
             /\ k < Len(script) => span(k + 1) > n \/ ~clean(k + 1))

\* However the network cuts the stream, when the parse loop is done the commands
\* executed are exactly those that have arrived in full: none early, twice or altered;
\* none left for an event that may never come; and none behind a malformed frame,
\* where it cannot be known any more what is one.
CommandsExact ==
    IF pc = "wait" THEN got = complete(arrived) ELSE IsPrefix(got, complete(arrived))

\* The client receives the replies to its commands, in their order, each once.
RepliesInOrder ==
    received \o unread(out) = concat([i \in 1..Len(got) |-> reply(got[i])])
=============================================================================
