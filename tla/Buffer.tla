------------------------------- MODULE Buffer -------------------------------
(***************************************************************************)
(* net/Buffer as operators on the object: the vector and its two cursors.  *)
(* A byte at 0-based offset i of the code is data[i + 1] here.             *)
(***************************************************************************)
EXTENDS Integers, Sequences

CONSTANTS
    Byte,
    kInitialCapacity

Zero == "zero"      \* what resize() fills new bytes with

ASSUME CapacityAssumption == kInitialCapacity \in Nat \ {0}
ASSUME ZeroAssumption == Zero \in Byte

EmptyBuffer == [data |-> <<>>, readPos |-> 0, writePos |-> 0]

readableBytes(b) == b.writePos - b.readPos

writableBytes(b) == Len(b.data) - b.writePos

\* The readable bytes, from readablePtr() on.
unread(b) == SubSeq(b.data, b.readPos + 1, b.writePos)

\* Bytes copied to writablePtr(), followed by advanceWrite.
filled(b, bytes) ==
    [b EXCEPT !.data = [i \in DOMAIN b.data |->
                           IF i \in (b.writePos + 1)..(b.writePos + Len(bytes))
                           THEN bytes[i - b.writePos] ELSE b.data[i]],
              !.writePos = @ + Len(bytes)]

\* Tier 1: the cursors start again once everything has been consumed.
consume(b, n) ==
    IF n = readableBytes(b) THEN [b EXCEPT !.readPos = 0, !.writePos = 0]
    ELSE [b EXCEPT !.readPos = @ + n]

\* Mutant: the readable bytes are not moved.
compactedInPlace(b) == [b EXCEPT !.readPos = 0, !.writePos = readableBytes(b)]

\* Tier 2: memmove to the front.
compacted(b) ==
    [data     |-> [i \in DOMAIN b.data |->
                      IF i <= readableBytes(b) THEN b.data[b.readPos + i] ELSE b.data[i]],
     readPos  |-> 0,
     writePos |-> readableBytes(b)]

\* The size is doubled until it suffices, which takes at most `needed' rounds.
twiceIfSmall(cap, needed) == IF cap < needed THEN 2 * cap ELSE cap

doubled(size, needed) ==
    LET c[i \in 0..needed] == IF i = 0 THEN (IF size = 0 THEN kInitialCapacity ELSE size)
                              ELSE twiceIfSmall(c[i - 1], needed)
    IN  c

grownSize(size, needed) == doubled(size, needed)[needed]

\* Tier 3 compacts, then grows the vector.
ensureWritableBytes(b, len) ==
    IF writableBytes(b) >= len THEN b
    ELSE LET c    == compacted(b)
             size == grownSize(Len(b.data), c.writePos + len)
         IN  IF Len(b.data) >= readableBytes(b) + len THEN c
             ELSE [c EXCEPT !.data = [i \in 1..size |-> IF i \in DOMAIN @ THEN @[i] ELSE Zero]]

append(b, bytes) == filled(ensureWritableBytes(b, Len(bytes)), bytes)
=============================================================================
