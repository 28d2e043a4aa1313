----------------------------- MODULE MCClients -----------------------------
(* Connections for TLC: transactions, subscriptions and IMPORT (Session), the  *)
(* channel of one connection (Connection), the threads that serve connections  *)
(* (EventLoop) and their timers (Timer).  They share no state here, so a        *)
(* behaviour takes the steps of one of them.                                   *)
EXTENDS Session, Connection, EventLoop, Timer, TLC

CONSTANTS Parts, sub1

VARIABLE part

MCMatches == [p \in Patterns |-> Channels]
MCFamilies ==
    { {<<"multi">>, <<"exec">>, <<"watch">>, <<"unwatch">>, <<"discard">>, <<"set">>},
      {<<"multi">>, <<"exec">>, <<"watch">>, <<"select">>, <<"set">>, <<"flushdb">>},
      {<<"multi">>, <<"exec">>, <<"set">>, <<"eval">>, <<"xread">>},
      {<<"subscribe">>, <<"unsubscribe">>} \cup {<<"publish", c>> : c \in Channels},
      {<<"multi">>, <<"exec">>, <<"subscribe">>} \cup {<<"publish", c>> : c \in Channels},
      {<<"multi">>, <<"exec">>, <<"set">>, <<"import">>} }
Symmetry == Permutations(Clients)

\* What a client sends: commands that block, that keep a nested loop going, QUIT and a
\* malformed one; nothing on the connection of a replica.
MCStreams == {<<>>, <<"call", "block", "call">>, <<"save", "call", "call">>,
              <<"call", "quit", "call">>, <<"bad", "block", "bad">>, <<"block", "save">>}
MCSubPool == <<sub1>>

\* A behaviour of another part needs no choice of a family of commands or of a stream.
ClientsInit ==
    /\ part \in Parts /\ Init /\ ConnInit /\ LoopInit /\ TimerInit
    /\ part # "session" => family = CHOOSE f \in Families : TRUE
    /\ part # "connection" => stream = <<>> /\ ch.added
ClientsNext ==
    /\ part' = part
    /\ \/ part = "session" /\ Next /\ UNCHANGED <<connVars, loopVars, timerVars>>
       \/ part = "connection" /\ ConnNext /\ UNCHANGED <<vars, loopVars, timerVars>>
       \/ part = "loops" /\ LoopNext /\ UNCHANGED <<vars, connVars, timerVars>>
       \/ part = "timer" /\ TimerNext /\ UNCHANGED <<vars, connVars, loopVars>>
ClientsSpec == ClientsInit /\ [][ClientsNext]_<<vars, connVars, loopVars, timerVars, part>>
============================================================================
