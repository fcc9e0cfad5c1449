------------------------------ MODULE MCServer ------------------------------
(* Server for TLC: one channel, two write commands, every control command. *)
EXTENDS Server

plain(name) == [name |-> name, args |-> <<>>]
on(name, ch) == [name |-> name, args |-> <<ch>>]

set == plain("SET")
del == plain("DEL")
multi == plain("MULTI")
exec == plain("EXEC")
discard == plain("DISCARD")
sub == on("SUBSCRIBE", "news")
unsub == plain("UNSUBSCRIBE")
pub == on("PUBLISH", "news")

MCCommand == {set, del, multi, exec, discard, sub, unsub, pub}

\* A transaction that writes and subscribes, and two ways to end it, of which a
\* subscriber is refused one; a subscription; a message and a write.  A read may
\* stop between any two commands.
MCPipeline ==
    {<<multi, set, sub>>, <<exec, unsub>>, <<sub, discard>>, <<pub, del>>}
=============================================================================
