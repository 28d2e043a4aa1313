------------------------------ MODULE Session ------------------------------
(* What a connection does in the server: Call's checks, transactions and    *)
(* WATCH (transaction.cpp), publish and subscribe (pubsub.cpp), IMPORT, and *)
(* the end of a connection (FreeClient).  Every client is served by a       *)
(* thread of its own; a step of the model lies between two accesses to what *)
(* the threads share, or is one section under a lock.  One key name is      *)
(* used, in every namespace.  EXEC runs its commands in a Context of its    *)
(* own on the stack, <<c, "exec">>; that of the connection is <<c, "conn">>. *)
EXTENDS Integers, Sequences, FiniteSets, SequencesExt, TLC

CONSTANTS Clients, Namespaces, Channels, Patterns,
          Matches,      \* pattern -> the channels it matches
          Families,     \* the sets of commands a behaviour may use
          MaxCmds,      \* bound on the commands sent
          MaxQueued     \* bound on the commands of a transaction

VARIABLES
    family,     \* the commands of this behaviour
    sent,       \* number of commands sent so far
    ctx,        \* Context objects
    pc,         \* client -> where its thread is
    store,      \* namespace -> number of the write its key shows
    writes,     \* number of writes so far
    wal,        \* what was fed to the replication log
    watchers,   \* m_watched_ctxs: namespace -> contexts
    members,    \* m_pubsub_channels and m_pubsub_patterns: name -> contexts
    async,      \* client -> what other threads queued for it (AsyncIO)
    wire,       \* client -> what was written to its connection
    loading,    \* m_loading_data
    callers,    \* m_db_caller_num
    due,        \* history: message -> who was to get it, through which name
    hist        \* history: what the properties ask for

vars == <<family, sent, ctx, pc, store, writes, wal, watchers, members, async, wire, loading, callers, due, hist>>
data == <<store, writes, wal>>
tables == <<watchers, members>>
io == <<async, wire>>
counts == <<loading, callers>>

Names == Channels \cup Patterns
Conn(c) == <<c, "conn">>
Exec(c) == <<c, "exec">>
Contexts == Clients \X {"conn", "exec"}

NoTransaction == [started |-> FALSE, abort |-> FALSE, cas |-> FALSE, cmds |-> <<>>, keys |-> {}]
NewContext == [ns |-> CHOOSE n \in Namespaces : TRUE, transc |-> NoTransaction, names |-> {}, no_wal |-> FALSE]
Idle == [at |-> "idle"]
Closed == [at |-> "closed"]
Connected(c) == pc[c] # Closed

(* A context is there as long as its connection, or the EXEC it serves.     *)
Alive(x) == IF x[2] = "conn" THEN Connected(x[1]) ELSE pc[x[1]] \notin {Idle, Closed} /\ pc[x[1]].x = x

---------------------------------------------------------------------------
(* Steps of a thread *)

At(c, stage) == pc[c].at = stage
Goto(c, stage) == pc' = [pc EXCEPT ![c].at = stage]
Start(c, stage, cmd, x) == pc' = [pc EXCEPT ![c] = [at |-> stage, cmd |-> cmd, x |-> x]]

(* The command is done: the connection reads the next one, or EXEC goes on. *)
Done(c, x) == pc' = [pc EXCEPT ![c] = IF x = Conn(c) THEN Idle ELSE [at |-> "next", cmd |-> <<"exec">>, x |-> x]]

(* MessageReceived ends with ClearState, and EXEC's context lives until its *)
(* end: what one queued command leaves in the flags, the next one finds.    *)
Cleared(x) == IF x[2] = "conn" THEN [ctx EXCEPT ![x].no_wal = FALSE] ELSE ctx

(* UnwatchKeys: the table forgets the context; cas and the keys stay.       *)
UnwatchKeys(x) ==
    watchers' = [n \in Namespaces |-> IF n \in ctx[x].transc.keys THEN watchers[n] \ {x} ELSE watchers[n]]

(* Mutant: a transaction that has begun is passed over. *)
TouchBeforeMulti(n) ==
    [x \in Contexts |-> IF x \in watchers[n] /\ ~ctx[x].transc.started THEN [ctx[x] EXCEPT !.transc.cas = TRUE] ELSE ctx[x]]

(* TouchWatchKey: every context that watches the key fails its EXEC.        *)
TouchWatchKey(n) == [x \in Contexts |-> IF x \in watchers[n] THEN [ctx[x] EXCEPT !.transc.cas = TRUE] ELSE ctx[x]]

---------------------------------------------------------------------------
(* Call: whether a command is refused, queued or run. *)

Queueable(cmd) == cmd[1] \notin {"multi", "exec", "discard", "quit"}
InTransaction(c) == ctx[Conn(c)].transc.started
IsSubscribed(c) == ctx[Conn(c)].names # {}
AllowedSubscribed(cmd) == cmd[1] \in {"subscribe", "unsubscribe", "quit"}

Send(c, cmd) ==
    /\ pc[c] = Idle
    /\ sent < MaxCmds
    /\ cmd \in family
    /\ sent' = sent + 1

(* Arity, authentication, min-slaves-to-write, stale data: the command is   *)
(* answered with an error, and a transaction will not be executed.          *)
CallAborts(c, cmd) ==
    /\ Send(c, cmd)
    /\ InTransaction(c)
    /\ ctx' = [ctx EXCEPT ![Conn(c)].transc.abort = TRUE]
    /\ hist' = [hist EXCEPT !.refused = @ \cup {c}]
    /\ UNCHANGED <<family, pc, data, tables, io, counts, due>>

(* While data is loaded a command is refused and not queued, and the        *)
(* transaction goes on without it.  (So is a write on a read-only slave,    *)
(* which this server is not.)                                               *)
CallRefuses(c, cmd) ==
    /\ Send(c, cmd)
    /\ loading
    /\ UNCHANGED <<family, ctx, pc, data, tables, io, counts, due, hist>>

CallQueues(c, cmd) ==
    /\ Send(c, cmd)
    /\ ~loading
    /\ InTransaction(c) /\ Queueable(cmd)
    /\ Len(ctx[Conn(c)].transc.cmds) < MaxQueued
    /\ ctx' = [ctx EXCEPT ![Conn(c)].transc.cmds = Append(@, cmd)]
    /\ UNCHANGED <<family, pc, data, tables, io, counts, due, hist>>

(* All checks are passed; DoCall has not counted the command yet. *)
CallPasses(c, cmd) ==
    /\ Send(c, cmd)
    /\ ~loading
    /\ IF InTransaction(c) THEN ~Queueable(cmd) ELSE IsSubscribed(c) => AllowedSubscribed(cmd)
    /\ Start(c, "call", cmd, Conn(c))
    /\ UNCHANGED <<family, ctx, data, tables, io, counts, due, hist>>

---------------------------------------------------------------------------
(* Transactions *)

Ready(c, kind) == pc[c].at = "call" /\ pc[c].cmd[1] = kind

Multi(c) ==
    /\ Ready(c, "multi")
    /\ ctx' = [ctx EXCEPT ![Conn(c)].transc.started = TRUE]
    /\ hist' = IF InTransaction(c) THEN hist ELSE [hist EXCEPT !.refused = @ \ {c}]
    /\ Done(c, pc[c].x)
    /\ UNCHANGED <<family, sent, data, tables, io, counts, due>>

(* WATCH of the key in the namespace of the context.  In a transaction it   *)
(* is queued, and then runs in the context of EXEC.                         *)
Watch(c) ==
    LET x == pc[c].x
        n == ctx[x].ns
    IN  /\ Ready(c, "watch")
        /\ watchers' = [watchers EXCEPT ![n] = @ \cup {x}]
        /\ ctx' = [ctx EXCEPT ![x].transc.keys = @ \cup {n}]
        /\ hist' = IF x = Conn(c) THEN [hist EXCEPT !.watching = @ \cup {<<c, n>>}]
                   ELSE [hist EXCEPT !.stray = TRUE]
        /\ Done(c, x)
        /\ UNCHANGED <<family, sent, data, members, io, counts, due>>

Forget(h, c) == [h EXCEPT !.watching = {w \in @ : w[1] # c}, !.missed = @ \ {c}]

Unwatch(c) ==
    LET x == pc[c].x
    IN  /\ Ready(c, "unwatch")
        /\ UnwatchKeys(x)
        /\ hist' = IF x = Conn(c) THEN Forget(hist, c) ELSE hist
        /\ Done(c, x)
        /\ UNCHANGED <<family, sent, ctx, data, members, io, counts, due>>

DiscardTransaction(c) ==
    /\ UnwatchKeys(Conn(c))
    /\ ctx' = [ctx EXCEPT ![Conn(c)].transc = NoTransaction]
    /\ hist' = Forget(hist, c)

(* DISCARD, and EXEC of a transaction that is aborted or whose keys were    *)
(* written.                                                                 *)
Discard(c) ==
    /\ \/ Ready(c, "discard")
       \/ Ready(c, "exec") /\ (ctx[Conn(c)].transc.abort \/ ctx[Conn(c)].transc.cas)
    /\ IF InTransaction(c) THEN DiscardTransaction(c) ELSE UNCHANGED <<ctx, watchers, hist>>
    /\ Done(c, Conn(c))
    /\ UNCHANGED <<family, sent, data, members, io, counts, due>>

(* EXEC looks at cas and abort without the lock of the watch table. *)
ExecCheck(c) ==
    LET t == ctx[Conn(c)].transc
    IN  /\ Ready(c, "exec")
        /\ ~(t.abort \/ t.cas)
        /\ IF t.started
           THEN /\ Goto(c, "checked")
                /\ callers' = callers + 1
                /\ hist' = [hist EXCEPT !.wrong = @ \cup (IF c \in hist.missed THEN {"missed"} ELSE {})
                                                    \cup (IF c \in hist.refused THEN {"refused"} ELSE {})]
           ELSE Done(c, Conn(c)) /\ UNCHANGED <<callers, hist>>
        /\ UNCHANGED <<family, sent, ctx, data, tables, io, loading, due>>

(* The keys are unwatched, and a new Context gets the namespace. *)
ExecStart(c) ==
    /\ At(c, "checked")
    /\ UnwatchKeys(Conn(c))
    /\ ctx' = [ctx EXCEPT ![Exec(c)] = [NewContext EXCEPT !.ns = ctx[Conn(c)].ns]]
    /\ Start(c, "next", <<"exec">>, Exec(c))
    /\ hist' = Forget(hist, c)
    /\ UNCHANGED <<family, sent, data, members, io, counts, due>>

(* The next command of the queue, without Call's checks; or the end. *)
ExecNext(c) ==
    LET q == ctx[Conn(c)].transc.cmds
    IN  /\ At(c, "next")
        /\ IF q # <<>>
           THEN /\ Start(c, "call", Head(q), Exec(c))
                /\ ctx' = [ctx EXCEPT ![Conn(c)].transc.cmds = Tail(q)]
                /\ UNCHANGED <<watchers, callers>>
           ELSE /\ pc' = [pc EXCEPT ![c] = Idle]
                /\ UnwatchKeys(Conn(c))
                /\ ctx' = [ctx EXCEPT ![Conn(c)].ns = ctx[Exec(c)].ns, ![Conn(c)].transc = NoTransaction]
                /\ callers' = callers - 1
        /\ UNCHANGED <<family, sent, data, members, io, loading, due, hist>>

Select(c) == \E n \in Namespaces :
    /\ Ready(c, "select")
    /\ ctx' = [ctx EXCEPT ![pc[c].x].ns = n]
    /\ Done(c, pc[c].x)
    /\ UNCHANGED <<family, sent, data, tables, io, counts, due, hist>>

---------------------------------------------------------------------------
(* Writes, in three steps: the engine, the watch table, the log.  A script  *)
(* writes in a Context of its own, which feeds the log, and sets no_wal in  *)
(* the one it is called from.                                               *)

Writing(d, n) == pc[d].at \in {"touch", "feed"} /\ pc[d].n = n

Put(c) ==
    LET x == pc[c].x
        n == ctx[x].ns
    IN  /\ Ready(c, "set") \/ Ready(c, "eval")
        /\ store' = [store EXCEPT ![n] = writes + 1]
        /\ writes' = writes + 1
        /\ pc' = [pc EXCEPT ![c] = [at |-> "touch", cmd |-> @.cmd, x |-> x, n |-> n, v |-> writes + 1]]
        /\ ctx' = IF pc[c].cmd[1] = "eval" THEN [ctx EXCEPT ![x].no_wal = TRUE] ELSE ctx
        /\ callers' = callers + 1
        /\ hist' = [hist EXCEPT !.overlap = @ \/ \E d \in Clients \ {c} : Writing(d, n),
                                !.muted = @ \/ (pc[c].cmd[1] = "eval" /\ x = Exec(c))]
        /\ UNCHANGED <<family, sent, wal, tables, io, loading, due>>

(* FLUSHDB drops the namespace. *)
FlushDB(c) ==
    LET x == pc[c].x
        n == ctx[x].ns
    IN  /\ Ready(c, "flushdb")
        /\ store' = [store EXCEPT ![n] = 0]
        /\ pc' = [pc EXCEPT ![c] = [at |-> "touch", cmd |-> @.cmd, x |-> x, n |-> n, v |-> 0]]
        /\ callers' = callers + 1
        /\ hist' = [hist EXCEPT !.overlap = @ \/ \E d \in Clients \ {c} : Writing(d, n)]
        /\ UNCHANGED <<family, sent, ctx, writes, wal, tables, io, loading, due>>

(* TouchWatchKey, TouchWatchedKeysOnFlush; then the handler returns. *)
Touch(c) ==
    /\ At(c, "touch")
    /\ ctx' = TouchWatchKey(pc[c].n)
    /\ callers' = callers - 1
    /\ Goto(c, "feed")
    /\ hist' = [hist EXCEPT !.missed = @ \cup {d \in Clients : <<d, pc[c].n>> \in hist.watching},
                            !.wild = @ \/ \E x \in watchers[pc[c].n] : ~Alive(x)]
    /\ UNCHANGED <<family, sent, data, tables, io, loading, due>>

(* Mutant: the log gets the namespace of the connection. *)
FeedConnection(c) ==
    LET x == pc[c].x
        fed == pc[c].cmd[1] = "eval" \/ ~ctx[x].no_wal
    IN  /\ At(c, "feed")
        /\ wal' = IF fed THEN Append(wal, <<ctx[Conn(c)].ns, pc[c].v>>) ELSE wal
        /\ ctx' = Cleared(x)
        /\ Done(c, x)
        /\ UNCHANGED <<family, sent, store, writes, tables, io, counts, due, hist>>

(* DoCall feeds the log, unless a flag of the context says no. *)
Feed(c) ==
    LET x == pc[c].x
        fed == pc[c].cmd[1] = "eval" \/ ~ctx[x].no_wal
    IN  /\ At(c, "feed")
        /\ wal' = IF fed THEN Append(wal, <<pc[c].n, pc[c].v>>) ELSE wal
        /\ ctx' = Cleared(x)
        /\ Done(c, x)
        /\ UNCHANGED <<family, sent, store, writes, tables, io, counts, due, hist>>

(* XREAD: nothing is written; its context is not to feed the log. *)
XRead(c) ==
    LET x == pc[c].x
    IN  /\ Ready(c, "xread")
        /\ ctx' = [ctx EXCEPT ![x].no_wal = (x = Exec(c))]
        /\ hist' = [hist EXCEPT !.muted = @ \/ x = Exec(c)]
        /\ Done(c, x)
        /\ UNCHANGED <<family, sent, data, tables, io, counts, due>>
---------------------------------------------------------------------------
(* Publish and subscribe.  The tables are under one read-write lock, which  *)
(* a publisher holds for reading until the last receiver is served.         *)

(* Mutant: the tables change under a publisher. *)
NeverLocked == TRUE

WriteLocked == \A d \in Clients : ~At(d, "publish")

(* A reply on the client's own thread goes to its connection at once; the   *)
(* context of EXEC has no connection.                                       *)
Reply(c, x, what) == wire' = IF x = Conn(c) THEN [wire EXCEPT ![c] = Append(@, what)] ELSE wire

SubscribeChannel(c) == \E name \in Names :
    LET x == pc[c].x
    IN  /\ Ready(c, "subscribe") /\ WriteLocked
        /\ ctx' = [ctx EXCEPT ![x].names = @ \cup {name}]
        /\ members' = [members EXCEPT ![name] = @ \cup {x}]
        /\ Reply(c, x, <<"subscribe", name>>)
        /\ hist' = [hist EXCEPT !.stray = @ \/ x = Exec(c)]
        /\ Done(c, x)
        /\ UNCHANGED <<family, sent, data, watchers, async, counts, due>>

(* UNSUBSCRIBE or PUNSUBSCRIBE of one name, also of one it does not have;   *)
(* no reply without any subscription.                                       *)
UnsubscribeChannel(c) == \E name \in Names :
    LET x == pc[c].x
    IN  /\ Ready(c, "unsubscribe") /\ WriteLocked
        /\ ctx' = [ctx EXCEPT ![x].names = @ \ {name}]
        /\ members' = [members EXCEPT ![name] = @ \ {x}]
        /\ IF ctx[x].names # {} THEN Reply(c, x, <<"unsubscribe", name>>) ELSE UNCHANGED wire
        /\ Done(c, x)
        /\ UNCHANGED <<family, sent, data, watchers, async, counts, due, hist>>

Receivers(ch) ==
    {<<x, name>> \in Contexts \X Names : x \in members[name] /\ (name = ch \/ (name \in Patterns /\ ch \in Matches[name]))}

(* PublishMessage: the read lock is taken. *)
PublishStart(c) ==
    LET ch == pc[c].cmd[2]
    IN  /\ Ready(c, "publish")
        /\ due' = Append(due, {r \in Receivers(ch) : r[1][2] = "conn"})
        /\ pc' = [pc EXCEPT ![c] = [at |-> "publish", cmd |-> @.cmd, x |-> @.x, m |-> Len(due) + 1, served |-> {}]]
        /\ callers' = callers + 1
        /\ UNCHANGED <<family, sent, ctx, data, tables, io, loading, hist>>

(* One receiver gets the message queued (AsyncIO), first those of the       *)
(* channel.  A context without connection is passed over; one that is gone  *)
(* is used all the same.                                                    *)
PublishOne(c) ==
    LET p == pc[c]
        left == Receivers(p.cmd[2]) \ p.served
        first == {r \in left : r[2] \in Channels}
    IN  /\ At(c, "publish")
        /\ \E r \in IF first # {} THEN first ELSE left :
              /\ pc' = [pc EXCEPT ![c].served = @ \cup {r}]
              /\ async' = IF r[1][2] = "conn" THEN [async EXCEPT ![r[1][1]] = Append(@, <<"message", r[2], p.m>>)] ELSE async
              /\ hist' = [hist EXCEPT !.wild = @ \/ ~Alive(r[1])]
        /\ UNCHANGED <<family, sent, ctx, data, tables, wire, counts, due>>

PublishEnd(c) ==
    /\ At(c, "publish")
    /\ Receivers(pc[c].cmd[2]) \subseteq pc[c].served
    /\ callers' = callers - 1
    /\ Done(c, pc[c].x)
    /\ UNCHANGED <<family, sent, ctx, data, tables, io, loading, due, hist>>

(* The thread of the client takes what was queued for it. *)
AsyncWrite(c) ==
    /\ pc[c] = Idle
    /\ async[c] # <<>>
    /\ wire' = [wire EXCEPT ![c] = Append(@, Head(async[c]))]
    /\ async' = [async EXCEPT ![c] = Tail(@)]
    /\ UNCHANGED <<family, sent, ctx, pc, data, tables, counts, due, hist>>

---------------------------------------------------------------------------
(* FreeClient: the watch table, then the subscriptions, each under its lock. *)
(* What is still queued for the connection finds no channel.                *)

CloseStart(c) ==
    /\ pc[c] = Idle
    /\ UnwatchKeys(Conn(c))
    /\ Start(c, "free", <<"quit">>, Conn(c))
    /\ hist' = Forget(hist, c)
    /\ UNCHANGED <<family, sent, ctx, data, members, io, counts, due>>

FreeName(c) == \E name \in ctx[Conn(c)].names :
    /\ At(c, "free") /\ WriteLocked
    /\ ctx' = [ctx EXCEPT ![Conn(c)].names = @ \ {name}]
    /\ members' = [members EXCEPT ![name] = @ \ {Conn(c)}]
    /\ UNCHANGED <<family, sent, pc, data, watchers, io, counts, due, hist>>

CloseEnd(c) ==
    /\ At(c, "free")
    /\ ctx[Conn(c)].names = {}
    /\ pc' = [pc EXCEPT ![c] = Closed]
    /\ async' = [async EXCEPT ![c] = <<>>]
    /\ UNCHANGED <<family, sent, ctx, data, tables, wire, counts, due, hist>>

---------------------------------------------------------------------------
(* IMPORT: it is counted and finds no load under way; then it sets the flag *)
(* and waits until no other command is counted, itself excepted.  An EXEC   *)
(* around it is counted too.                                                *)

ImportCheck(c) ==
    /\ Ready(c, "import")
    /\ IF loading THEN Done(c, pc[c].x) /\ UNCHANGED callers
       ELSE Goto(c, "import") /\ callers' = callers + 1
    /\ UNCHANGED <<family, sent, ctx, data, tables, io, loading, due, hist>>

ImportFlag(c) ==
    /\ At(c, "import")
    /\ loading' = TRUE
    /\ Goto(c, "wait")
    /\ hist' = [hist EXCEPT !.inside = {d \in Clients \ {c} : pc[d] \notin {Idle, Closed}}]
    /\ UNCHANGED <<family, sent, ctx, data, tables, io, callers, due>>

ImportLoad(c) ==
    /\ At(c, "wait")
    /\ callers = 1
    /\ Goto(c, "load")
    /\ UNCHANGED <<family, sent, ctx, data, tables, io, counts, due, hist>>

ImportEnd(c) ==
    /\ At(c, "load")
    /\ loading' = FALSE
    /\ callers' = callers - 1
    /\ Done(c, pc[c].x)
    /\ UNCHANGED <<family, sent, ctx, data, tables, io, due, hist>>
---------------------------------------------------------------------------
Init ==
    /\ family \in Families
    /\ sent = 0
    /\ ctx = [x \in Contexts |-> NewContext]
    /\ pc = [c \in Clients |-> Idle]
    /\ store = [n \in Namespaces |-> 0] /\ writes = 0 /\ wal = <<>>
    /\ watchers = [n \in Namespaces |-> {}]
    /\ members = [n \in Names |-> {}]
    /\ async = [c \in Clients |-> <<>>] /\ wire = [c \in Clients |-> <<>>]
    /\ loading = FALSE /\ callers = 0
    /\ due = <<>>
    /\ hist = [watching |-> {}, missed |-> {}, refused |-> {}, wrong |-> {}, stray |-> FALSE, wild |-> FALSE,
               overlap |-> FALSE, muted |-> FALSE, inside |-> {}]

Next == \E c \in Clients :
    \/ \E cmd \in family : CallAborts(c, cmd) \/ CallRefuses(c, cmd) \/ CallQueues(c, cmd) \/ CallPasses(c, cmd)
    \/ Multi(c) \/ Watch(c) \/ Unwatch(c) \/ Discard(c) \/ ExecCheck(c) \/ ExecStart(c) \/ ExecNext(c) \/ Select(c)
    \/ Put(c) \/ FlushDB(c) \/ Touch(c) \/ Feed(c) \/ XRead(c)
    \/ SubscribeChannel(c) \/ UnsubscribeChannel(c) \/ PublishStart(c) \/ PublishOne(c) \/ PublishEnd(c) \/ AsyncWrite(c)
    \/ CloseStart(c) \/ FreeName(c) \/ CloseEnd(c)
    \/ ImportCheck(c) \/ ImportFlag(c) \/ ImportLoad(c) \/ ImportEnd(c)

Spec == Init /\ [][Next]_vars

---------------------------------------------------------------------------
(* EXEC runs its commands only if no write of a watched key was finished    *)
(* since WATCH (Exec's test of cas), whatever was unwatched, discarded or   *)
(* closed meanwhile by whom.                                                *)
WatchHonoured == "missed" \notin hist.wrong

(* EXEC runs nothing after a command of the transaction was refused         *)
(* (AbortTransaction in Call).                                              *)
RefusedAborts == "refused" \notin hist.wrong

(* EXEC keeps its promises to the client: it runs all or nothing, and       *)
(* nothing after a watched key was written or a command was refused.        *)
ExecHonest == WatchHonoured /\ RefusedAborts

Replay(log) == [n \in Namespaces |->
    LET mine == SelectSeq(log, LAMBDA e : e[1] = n) IN IF mine = <<>> THEN 0 ELSE Last(mine)[2]]

(* With no command under way, the replication log leads to the data there   *)
(* is, unless two writes of one namespace overlapped, or a transaction      *)
(* called EVAL or XREAD, which keep what follows them out of the log.       *)
LogComplete ==
    (\A c \in Clients : pc[c] \in {Idle, Closed}) /\ ~hist.overlap /\ ~hist.muted => Replay(wal) = store

(* The tables of WATCH and SUBSCRIBE hold a connection exactly as long as   *)
(* its own context says so, and none that is closed: nobody writes to a     *)
(* context that is gone, unless one was put there from within EXEC.         *)
TablesRight ==
    /\ \A c \in Clients, n \in Namespaces :
          Conn(c) \in watchers[n] <=> <<c, n>> \in hist.watching
    /\ \A c \in Clients, name \in Names :
          Conn(c) \in members[name] <=> name \in ctx[Conn(c)].names
    /\ \A c \in Clients : ~Connected(c) =>
          \A name \in Names, n \in Namespaces : Conn(c) \notin members[name] \cup watchers[n]
    /\ hist.wild => hist.stray

(* Every connection gets a published message once for each subscription it  *)
(* had when the publisher took the lock, and after the reply that confirms  *)
(* the subscription.                                                        *)
MessagesRight ==
    \A c \in Clients : Connected(c) =>
        LET all == wire[c] \o async[c]
            At1(m, name) == {i \in DOMAIN all : all[i] = <<"message", name, m>>}
        IN  /\ \A m \in DOMAIN due, name \in Names :
                  LET n == Cardinality(At1(m, name))
                  IN  /\ n <= IF <<Conn(c), name>> \in due[m] THEN 1 ELSE 0
                      /\ (\A d \in Clients : ~(At(d, "publish") /\ pc[d].m = m)) =>
                            (<<Conn(c), name>> \in due[m] => n = 1)
            /\ \A i \in DOMAIN wire[c] : wire[c][i][1] = "message" =>
                  \E j \in 1 .. i - 1 : wire[c][j] = <<"subscribe", wire[c][i][2]>>

(* Subscribers and watchers are known as long as they are there, and get    *)
(* what is theirs: SUBSCRIBE, PUBLISH, WATCH, EXEC and the end of           *)
(* connections interleave on several threads (pubsub.cpp, transaction.cpp). *)
SubscribersRight == TablesRight /\ MessagesRight

(* While IMPORT loads, no command runs but those that had passed Call's     *)
(* checks when the flag was set.                                            *)
ImportShutsOut ==
    \A c, d \in Clients : At(c, "load") /\ d # c =>
        pc[d].at \in {"idle", "closed", "free"} \/ d \in hist.inside

(* The log accounts for all writes, and no write slips into the load of     *)
(* IMPORT (Call, DoCall and Import).                                        *)
WritesAccounted == LogComplete /\ ImportShutsOut

=============================================================================
