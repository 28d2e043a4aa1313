------------------------------ MODULE MCBlocked ------------------------------
(* Blocked for TLC: two clients that block, on one key and on two, with and   *)
(* without a timeout and a target, and one that pushes and moves.             *)
EXTENDS Blocked

CONSTANTS c1, c2, c3, k1, k2, s1

Command(op, ks, target, side, timed) ==
    [op |-> op, keys |-> ks, target |-> target, side |-> side, timed |-> timed]

\* BLPOP of two keys; BRPOP with a timeout and BRPOPLPUSH; LPUSH, RPUSH and RPOPLPUSH;
\* s1 is not a list.
MCCommands ==
    (c1 :> {Command("bpop", <<k1, k2>>, None, "l", FALSE)})
    @@ (c2 :> {Command("bpop", <<k1>>, None, "r", TRUE), Command("bmove", <<k1>>, k2, "r", FALSE),
               Command("bmove", <<k1>>, s1, "r", FALSE)})
    @@ (c3 :> {Command("push", <<k1>>, None, "l", FALSE), Command("push", <<k2>>, None, "r", FALSE),
               Command("move", <<k1>>, k2, "r", FALSE)})

MCMaxCommands == (c1 :> 2) @@ (c2 :> 1) @@ (c3 :> 2)
=============================================================================
