----------------------------- MODULE RespParser -----------------------------
(***************************************************************************)
(* proto/RespParser: what parse makes of the readable bytes.  Bytes are    *)
(* one-character strings, "CR" and "LF"; the code's 0-based offsets are    *)
(* 1-based positions here.                                                 *)
(***************************************************************************)
EXTENDS Integers, Sequences

Digit == <<"0", "1", "2", "3", "4", "5", "6", "7", "8", "9">>
digitValue(ch) == CHOOSE n \in 0..9 : Digit[n + 1] = ch
isDigit(ch) == \E n \in 0..9 : Digit[n + 1] = ch

\* The first position from `from' on at which CR LF begins, 0 if there is none.
findCRLF(d, from) ==
    LET at == {i \in from..(Len(d) - 1) : d[i] = "CR" /\ d[i + 1] = "LF"} IN
    IF at = {} THEN 0 ELSE CHOOSE i \in at : \A j \in at : i <= j

\* The values of the first digits of s.
values(s) ==
    LET v[i \in 0..Len(s)] == IF i = 0 THEN 0 ELSE 10 * v[i - 1] + digitValue(s[i])
    IN  v

Space == {" ", "CR", "LF"}      \* of isspace(), the ones that are told apart here

\* std::atoi: space, a sign, the digits up to the first other character; 0 without any.
\* Numbers beyond int, for which it is undefined, are not told apart.
atoi(s) ==
    LET start  == CHOOSE i \in 1..(Len(s) + 1) :
                     /\ \A j \in 1..(i - 1) : s[j] \in Space
                     /\ i <= Len(s) => s[i] \notin Space
        signed == start <= Len(s) /\ s[start] \in {"-", "+"}
        first  == IF signed THEN start + 1 ELSE start
        end    == CHOOSE i \in first..(Len(s) + 1) :
                     /\ \A j \in first..(i - 1) : isDigit(s[j])
                     /\ i <= Len(s) => ~isDigit(s[i])
        value  == values(SubSeq(s, first, end - 1))[end - first]
    IN  IF signed /\ s[start] = "-" THEN -value ELSE value

\* std::nullopt: incomplete, or malformed.
None == [ok |-> FALSE]
Parsed(args, bytesConsumed) == [ok |-> TRUE, args |-> args, bytesConsumed |-> bytesConsumed]

\* The bulk string that ends before `end' is not complete, or has a wrong trailer.
trailerBad(d, end) == Len(d) < end + 1 \/ d[end] # "CR" \/ d[end + 1] # "LF"

\* One turn of the loop of parseArray: the bulk string that begins at pos.
nextBulk(d, s) ==
    LET line  == findCRLF(d, s.pos + 1)
        len   == atoi(SubSeq(d, s.pos + 1, line - 1))
        start == line + 2
        end   == start + len
        wrong == s.pos > Len(d) \/ d[s.pos] # "$" \/ line = 0 \/ (len >= 0 /\ trailerBad(d, end))
    IN  IF ~s.ok \/ wrong THEN [s EXCEPT !.ok = FALSE]
        ELSE IF len < 0 THEN [ok |-> TRUE, pos |-> start, args |-> Append(s.args, <<>>)]
        ELSE [ok |-> TRUE, pos |-> end + 2, args |-> Append(s.args, SubSeq(d, start, end - 1))]

\* The turns of the loop: the bulk strings begin at pos.
bulks(d, pos, count) ==
    LET b[i \in 0..count] == IF i = 0 THEN [ok |-> TRUE, pos |-> pos, args |-> <<>>]
                             ELSE nextBulk(d, b[i - 1])
    IN  b

bulkStrings(d, pos, count) ==
    LET b == bulks(d, pos, count)[count] IN
    IF b.ok THEN Parsed(b.args, b.pos - 1) ELSE None

parseArray(d) ==
    LET line  == findCRLF(d, 2)
        count == atoi(SubSeq(d, 2, line - 1))
    IN  CASE line = 0 -> None
          [] line > 0 /\ count < 0 -> Parsed(<<>>, line + 1)
          [] line > 0 /\ count >= 0 -> bulkStrings(d, line + 2, count)

\* The byte at i goes to the last token, or begins one, or is a space.
withByte(line, i, ts) ==
    IF line[i] = " " THEN ts
    ELSE IF i = 1 \/ line[i - 1] = " " THEN Append(ts, <<line[i]>>)
    ELSE [ts EXCEPT ![Len(ts)] = Append(@, line[i])]

\* The tokens of an inline command, of its first i bytes.
tokens(line) ==
    LET t[i \in 0..Len(line)] == IF i = 0 THEN <<>> ELSE withByte(line, i, t[i - 1])
    IN  t

parseInline(d) ==
    LET line == findCRLF(d, 1) IN
    IF line = 0 THEN None ELSE Parsed(tokens(SubSeq(d, 1, line - 1))[line - 1], line + 1)

parse(d) ==
    IF d = <<>> THEN None ELSE IF d[1] = "*" THEN parseArray(d) ELSE parseInline(d)
=============================================================================
