----------------------------- MODULE MCInbound -----------------------------
(***************************************************************************)
(* Inbound for TLC.  The arguments are empty, hold CR LF or look like the  *)
(* beginning of a frame; each script mixes the ways to send a command.     *)
(***************************************************************************)
EXTENDS Inbound

array(args) == [kind |-> "array", args |-> args, nulls |-> {}]
inline(args) == [kind |-> "inline", args |-> args]

a == <<"a">>
crlf == <<"CR", "LF">>
frame == <<"*", "1">>
nullArray == [kind |-> "nullArray", args |-> <<>>]
nullString == [kind |-> "array", args |-> << <<>> >>, nulls |-> {1}]
wrongTrailer ==
    [kind |-> "wrongTrailer", args |-> << <<>> >>, nulls |-> {}, count |-> 2, last |-> a,
     trailer |-> <<"a", "CR">>]
noBulk == [kind |-> "noBulk", args |-> << <<>> >>, nulls |-> {1}, count |-> 3, byte |-> "a"]

MCByte == {"CR", "LF", " ", "*", "$", "-", "a", Zero} \cup {Digit[n] : n \in 1..10}

MCScript ==
    {<<array(<<a, crlf>>), nullArray, array(<<frame>>)>>,
     <<inline(<<a, a>>), array(<< <<>> >>), inline(<<>>), inline(<<a>>)>>,
     <<array(<<crlf>>), array(<<a, frame, crlf>>)>>,
     <<nullString, array(<<a>>), wrongTrailer, array(<<a>>)>>,
     <<array(<<>>), inline(<<a>>), noBulk, inline(<<a>>)>>}
=============================================================================
