------------------------------- MODULE MCAof -------------------------------
(* Aof for TLC: one key with every kind of write, and one beside it. *)
EXTENDS Aof

CONSTANTS k1, k2

MCKey == {k1, k2}
MCElem == {1, 2}

with(op, k, x) == [op |-> op, key |-> k, args |-> <<x>>]
bare(op, k) == [op |-> op, key |-> k]

MCCmd == {with("SET", k1, 1), with("RPUSH", k1, 1), with("LPUSH", k1, 2),
          bare("PEXPIRE", k1), bare("DEL", k1), with("RPUSH", k2, 1),
          [op |-> "FLUSHDB"]}
=============================================================================
