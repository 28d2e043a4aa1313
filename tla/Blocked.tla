------------------------------- MODULE Blocked -------------------------------
(***************************************************************************)
(* Clients that block on lists (command/blocked.cpp and the blocking list   *)
(* commands of command/t_list.cpp).                                         *)
(*                                                                          *)
(* A client that finds its lists empty registers in m_blocked_ctxs and stops *)
(* reading its connection.  A push that finds a client registered on its key *)
(* puts the key in m_ready_keys; every command ends by taking that set and   *)
(* popping a value for each client that waits on a key of it.  The value is  *)
(* posted to the event loop of the client, which writes it and removes the   *)
(* registration.                                                             *)
(*                                                                          *)
(* A client is served by an event loop of its own, so the name of a client   *)
(* is also the name of a thread.  m_block_keys_lock is a spin lock that its  *)
(* owner cannot take again.  A step is what a thread does between two points *)
(* where another one can be seen: a key lock or m_block_keys_lock taken.     *)
(***************************************************************************)
EXTENDS Integers, Sequences, FiniteSets, SequencesExt, Functions

CONSTANTS
    Clients,     \* connections, each with its own thread
    ListKeys,    \* keys that hold lists
    StringKeys,  \* keys of ListKeys that hold a value of another type
    None,        \* no thread, no key
    Commands,    \* the commands each client may send
    MaxCommands  \* bound: the number of commands of each client

VARIABLES
    lists,     \* the list at each key: values are numbered as they are pushed
    pushed,    \* number of values pushed
    bpop,      \* ctx.bpop of each client: a record, or None
    blocked,   \* m_blocked_ctxs: the clients registered on each key that has an entry
    ready,     \* m_ready_keys; empty when the pointer is NULL
    lock,      \* the thread that owns m_block_keys_lock, or None
    posted,    \* replies posted to each client's event loop
    reading,   \* the connection is read (not IsReadBlocked)
    open,      \* the channel is open
    pc,        \* what each thread does
    cmd,       \* the command it executes
    todo,      \* ready keys a waking thread has taken and not handled
    scan,      \* clients it has still to visit for the key in hand
    hand,      \* the value it has popped for one of them, or None
    got,       \* values each client received from a pop
    dropped,   \* values whose reply was deleted with a closed channel
    answers,   \* replies posted since the client last blocked
    late,      \* keys pushed to between a client's pop and its registration
    issued     \* commands each client has sent

blockedVars ==
    <<lists, pushed, bpop, blocked, ready, lock, posted, reading, open, pc, cmd,
      todo, scan, hand, got, dropped, answers, late, issued>>

data == <<lists, pushed, got>>                      \* the database and the answers
dataset == <<bpop, blocked, ready, lock>>           \* the block dataset
io == <<posted, reading, open, dropped, answers>>   \* connections
local == <<todo, scan, hand>>                       \* a waking thread

NoBPop == [keys |-> {}, target |-> None, timed |-> FALSE, set |-> FALSE]
NoCommand == [op |-> "none", keys |-> <<>>, target |-> None, side |-> "l", timed |-> FALSE]

BlockedInit ==
    /\ lists = [k \in ListKeys |-> <<>>]
    /\ pushed = 0
    /\ bpop = [c \in Clients |-> NoBPop]
    /\ blocked = << >>
    /\ ready = {}
    /\ lock = None
    /\ posted = [c \in Clients |-> <<>>]
    /\ reading = [c \in Clients |-> TRUE]
    /\ open = [c \in Clients |-> TRUE]
    /\ pc = [c \in Clients |-> [at |-> "idle", n |-> 0, key |-> None, for |-> None]]
    /\ cmd = [c \in Clients |-> NoCommand]
    /\ todo = [c \in Clients |-> {}]
    /\ scan = [c \in Clients |-> {}]
    /\ hand = [c \in Clients |-> None]
    /\ got = [c \in Clients |-> <<>>]
    /\ dropped = {}
    /\ answers = [c \in Clients |-> 0]
    /\ late = [c \in Clients |-> {}]
    /\ issued = [c \in Clients |-> 0]

At(c, p) == pc[c].at = p
Goto(c, p) == pc' = [pc EXCEPT ![c].at = p]

\* A list with value v pushed at, or a value removed from, one of its ends.
Pushed(s, v, side) == IF side = "l" THEN <<v>> \o s ELSE Append(s, v)
End(s, side) == IF side = "l" THEN Head(s) ELSE Last(s)
\* A bug: the value is removed from the left whatever side the command names.
PoppedLeft(s, side) == Tail(s)
Popped(s, side) == IF side = "l" THEN Tail(s) ELSE Front(s)

\* LockKey waits while RPopLPush holds the locks of its two keys: it is the only
\* holder of key locks that stops in the middle, to take m_block_keys_lock.
KeyFree(k) == \A c \in Clients : At(c, "movesignal") => k # cmd[c].keys[1] /\ k # cmd[c].target

\* A push to k between the pop of k by a client about to block and its registration.
NoteLate(k) == late' = [c \in Clients |->
    IF (At(c, "pop") /\ k \in Range(SubSeq(cmd[c].keys, 1, pc[c].n))) \/ (At(c, "block") /\ k \in Range(cmd[c].keys))
    THEN late[c] \cup {k} ELSE late[c]]

-----------------------------------------------------------------------------
(* The event loop of a client: a command arrives, a posted reply is handled, *)
(* or ScanClients closes a connection.                                       *)

\* Where the handler of a command starts: ListPush; ListPop, alone or in the loop of
\* BLPop; RPopLPush, alone or in BRPopLPush.
Start(op) == CASE op = "push" -> "push" [] op \in {"pop", "bpop"} -> "pop" [] op \in {"move", "bmove"} -> "move"

Begin(c, m) ==
    /\ At(c, "idle") /\ open[c] /\ reading[c] /\ issued[c] < MaxCommands[c]
    /\ issued' = [issued EXCEPT ![c] = @ + 1]
    /\ cmd' = [cmd EXCEPT ![c] = m]
    /\ pc' = [pc EXCEPT ![c].at = Start(m.op), ![c].n = 0]
    /\ late' = [late EXCEPT ![c] = {}]
    /\ UNCHANGED <<data, dataset, io, local>>

\* UnblockKeys with sync, the part under m_block_keys_lock: the client leaves the
\* entries of its keys, an entry without clients is erased, and ctx.bpop with them -
\* unless m_blocked_ctxs has no entry at all.
UnblockKeys(c) ==
    /\ lock = None
    /\ IF bpop[c].set /\ DOMAIN blocked # {}
       THEN /\ LET left == [k \in DOMAIN blocked |->
                            IF k \in bpop[c].keys THEN blocked[k] \ {c} ELSE blocked[k]]
               IN blocked' = [k \in {x \in DOMAIN blocked : left[x] # {} \/ x \notin bpop[c].keys} |-> left[k]]
            /\ bpop' = [bpop EXCEPT ![c] = NoBPop]
       ELSE UNCHANGED <<blocked, bpop>>
    /\ UNCHANGED <<ready, lock>>

\* AsyncUnblockKeysCallback: the reply is written and the client reads again; a reply
\* to a closed channel is deleted.
AsyncUnblockKeysCallback(c) ==
    /\ At(c, "idle") /\ posted[c] # <<>>
    /\ posted' = [posted EXCEPT ![c] = Tail(@)]
    /\ IF open[c]
       THEN /\ got' = [got EXCEPT ![c] = Append(@, Head(posted[c]))]
            /\ UnblockKeys(c)
            /\ reading' = [reading EXCEPT ![c] = TRUE]
            /\ UNCHANGED dropped
       ELSE /\ dropped' = dropped \cup {Head(posted[c])}
            /\ UNCHANGED <<dataset, got, reading>>
    /\ UNCHANGED <<lists, pushed, open, answers, pc, cmd, local, late, issued>>

\* ScanClients finds the timeout of a blocked client reached: it writes an empty reply
\* and closes the channel, whose ChannelClosed calls FreeClient and so UnblockKeys.
Timeout(c) ==
    /\ At(c, "idle") /\ open[c] /\ bpop[c].keys # {} /\ bpop[c].timed
    /\ UnblockKeys(c)
    /\ open' = [open EXCEPT ![c] = FALSE]
    /\ UNCHANGED <<data, posted, reading, dropped, answers, pc, cmd, local, late, issued>>

-----------------------------------------------------------------------------
(* Commands.                                                                 *)

\* ListPush of a client: the value is in the list when the key lock is released; a key
\* of another type is an error.
ListPush(c) ==
    LET k == cmd[c].keys[1] IN
    /\ At(c, "push") /\ KeyFree(k)
    /\ IF k \in StringKeys
       THEN Goto(c, "wake") /\ UNCHANGED <<data, late>>
       ELSE /\ lists' = [lists EXCEPT ![k] = Pushed(@, pushed + 1, cmd[c].side)]
            /\ pushed' = pushed + 1
            /\ NoteLate(k)
            /\ Goto(c, "signal")
            /\ UNCHANGED got
    /\ UNCHANGED <<dataset, io, local, cmd, issued>>

\* A bug: a key replaces the ready keys that nobody has taken yet.
SignalKeyAsReadyAlone(c, k) ==
    /\ lock = None
    /\ ready' = IF k \in DOMAIN blocked THEN {k} ELSE ready
    /\ Goto(c, "wake")
    /\ UNCHANGED <<data, bpop, blocked, lock, io, local, cmd, late, issued>>

\* SignalKeyAsReady: the key is ready when m_blocked_ctxs has an entry for it.
SignalKeyAsReady(c, k) ==
    /\ lock = None
    /\ ready' = IF k \in DOMAIN blocked THEN ready \cup {k} ELSE ready
    /\ Goto(c, "wake")
    /\ UNCHANGED <<data, bpop, blocked, lock, io, local, cmd, late, issued>>

PushSignal(c) == At(c, "signal") /\ SignalKeyAsReady(c, cmd[c].keys[1])

\* One round of the loop of BLPop and BRPop, and the whole of LPop and RPop: ListPop of
\* the next key under its lock.  An error or a value ends the command; a client that
\* found no value at any key goes on to block.
ListPop(c) ==
    LET k == cmd[c].keys[pc[c].n + 1] IN
    /\ At(c, "pop") /\ KeyFree(k)
    /\ IF k \in StringKeys
       THEN Goto(c, "wake") /\ UNCHANGED <<lists, got>>
       ELSE IF lists[k] # <<>>
       THEN /\ got' = [got EXCEPT ![c] = Append(@, End(lists[k], cmd[c].side))]
            /\ lists' = [lists EXCEPT ![k] = Popped(@, cmd[c].side)]
            /\ Goto(c, "wake")
       ELSE /\ pc' = IF pc[c].n + 1 < Len(cmd[c].keys) THEN [pc EXCEPT ![c].n = @ + 1]
                     ELSE [pc EXCEPT ![c].at = IF cmd[c].op = "bpop" THEN "block" ELSE "wake"]
            /\ UNCHANGED <<lists, got>>
    /\ UNCHANGED <<pushed, dataset, io, local, cmd, late, issued>>

\* RPopLPush, with the locks of both keys: the value leaves the source before the push,
\* and is gone when the target is not a list.  The locks are held until the signal.
RPopLPush(c) ==
    LET src == cmd[c].keys[1]
        dst == cmd[c].target
        v == End(lists[src], "r")
        popped == [lists EXCEPT ![src] = Popped(@, "r")]
    IN
    /\ At(c, "move") /\ KeyFree(src) /\ KeyFree(dst)
    /\ IF src \in StringKeys
       THEN Goto(c, "wake") /\ UNCHANGED <<lists, dropped, late>>
       ELSE IF lists[src] = <<>>
       THEN /\ Goto(c, IF cmd[c].op = "bmove" THEN "block" ELSE "wake")
            /\ UNCHANGED <<lists, dropped, late>>
       ELSE IF dst \in StringKeys
       THEN /\ lists' = popped
            /\ dropped' = dropped \cup {v}
            /\ Goto(c, "wake")
            /\ UNCHANGED late
       ELSE /\ lists' = [popped EXCEPT ![dst] = Pushed(@, v, "l")]
            /\ NoteLate(dst)
            /\ Goto(c, "movesignal")
            /\ UNCHANGED dropped
    /\ UNCHANGED <<pushed, got, dataset, posted, reading, open, answers, local, cmd, issued>>

MoveSignal(c) == At(c, "movesignal") /\ SignalKeyAsReady(c, cmd[c].target)

\* BlockForKeys: reading stops, and the client is registered on its keys.  A ctx.bpop
\* that an earlier command left is used again.
BlockForKeys(c) ==
    LET ks == Range(cmd[c].keys)
        at(k) == IF k \in DOMAIN blocked THEN blocked[k] ELSE {}
    IN
    /\ At(c, "block") /\ lock = None
    /\ bpop' = [bpop EXCEPT ![c].set = TRUE, ![c].keys = @ \cup ks, ![c].timed = @ \/ cmd[c].timed]
    /\ blocked' = [k \in DOMAIN blocked \cup ks |-> IF k \in ks THEN at(k) \cup {c} ELSE at(k)]
    /\ reading' = [reading EXCEPT ![c] = FALSE]
    /\ answers' = [answers EXCEPT ![c] = 0]
    /\ Goto(c, IF cmd[c].op = "bmove" THEN "target" ELSE "wake")
    /\ UNCHANGED <<data, ready, lock, posted, open, dropped, local, cmd, late, issued>>

\* BRPopLPush sets the target of its bpop after BlockForKeys has registered the client.
SetTarget(c) ==
    /\ At(c, "target")
    /\ bpop' = [bpop EXCEPT ![c].target = cmd[c].target]
    /\ Goto(c, "wake")
    /\ UNCHANGED <<data, blocked, ready, lock, io, local, cmd, late, issued>>

-----------------------------------------------------------------------------
(* WakeClientsBlockingOnKeys, which every command ends with.                 *)

\* A bug: a thread that finds the lock taken leaves the ready keys to its owner.
TakeReadyTryLock(c) ==
    /\ At(c, "wake")
    /\ IF ready = {} \/ lock # None
       THEN Goto(c, "idle") /\ UNCHANGED <<ready, todo>>
       ELSE /\ todo' = [todo EXCEPT ![c] = ready]
            /\ ready' = {}
            /\ Goto(c, "scan")
    /\ UNCHANGED <<data, bpop, blocked, lock, io, scan, hand, cmd, late, issued>>

TakeReady(c) ==
    /\ At(c, "wake")
    /\ IF ready = {}
       THEN Goto(c, "idle") /\ UNCHANGED <<ready, todo>>
       ELSE /\ lock = None
            /\ todo' = [todo EXCEPT ![c] = ready]
            /\ ready' = {}
            /\ Goto(c, "scan")
    /\ UNCHANGED <<data, bpop, blocked, lock, io, scan, hand, cmd, late, issued>>

\* The next ready key; m_block_keys_lock is kept until all its clients are visited.
NextReadyKey(c) ==
    /\ At(c, "scan")
    /\ \/ todo[c] = {} /\ Goto(c, "idle") /\ UNCHANGED <<lock, todo, scan>>
       \/ \E k \in todo[c] :
             /\ lock = None
             /\ todo' = [todo EXCEPT ![c] = @ \ {k}]
             /\ IF k \in DOMAIN blocked
                THEN /\ lock' = c
                     /\ scan' = [scan EXCEPT ![c] = blocked[k]]
                     /\ pc' = [pc EXCEPT ![c].at = "serve", ![c].key = k]
                ELSE UNCHANGED <<lock, scan, pc>>
    /\ UNCHANGED <<data, bpop, blocked, ready, io, hand, cmd, late, issued>>

ServeDone(c) ==
    /\ At(c, "serve") /\ scan[c] = {}
    /\ lock' = None
    /\ Goto(c, "scan")
    /\ UNCHANGED <<data, bpop, blocked, ready, io, local, cmd, late, issued>>

\* ServeClientBlockedOnList for a client without a target, and the erasure after it.
ServeClient(u, k, v) ==
    /\ posted' = [posted EXCEPT ![u] = Append(@, v)]
    /\ answers' = [answers EXCEPT ![u] = @ + 1]
    /\ blocked' = [blocked EXCEPT ![k] = @ \ {u}]

\* WakeClientsBlockingOnList up to ServeClientBlockedOnList: a value is popped for u,
\* on the side its command asks for, and posted to its event loop; u leaves the entry
\* of this key and of no other one.  A client with a target is not answered yet.  A
\* client without bpop would be visited for ever.
WakeClientsBlockingOnList(c) ==
    LET k == pc[c].key IN
    /\ At(c, "serve") /\ KeyFree(k)
    /\ \E u \in scan[c] :
         /\ bpop[u].set
         /\ IF lists[k] = <<>>
            THEN /\ scan' = [scan EXCEPT ![c] = @ \ {u}]
                 /\ UNCHANGED <<lists, blocked, posted, answers, hand, pc>>
            ELSE LET v == End(lists[k], cmd[u].side) IN
                 /\ lists' = [lists EXCEPT ![k] = Popped(@, cmd[u].side)]
                 /\ IF bpop[u].target = None
                    THEN /\ ServeClient(u, k, v)
                         /\ scan' = [scan EXCEPT ![c] = @ \ {u}]
                         /\ UNCHANGED <<hand, pc>>
                    ELSE /\ hand' = [hand EXCEPT ![c] = v]
                         /\ pc' = [pc EXCEPT ![c].at = "target push", ![c].for = u]
                         /\ UNCHANGED <<scan, blocked, posted, answers>>
    /\ UNCHANGED <<pushed, got, bpop, ready, lock, reading, open, dropped, todo, cmd, late, issued>>

\* ListPushValue to the target of a BRPOPLPUSH client, or back to the key when that
\* fails.  It ends with SignalKeyAsReady, for which this thread waits on the lock it
\* owns itself: flags.block_keys_locked, which would tell it so, is never set.  No
\* action leaves "self".
TargetPush(c) ==
    LET t == bpop[pc[c].for].target
        bad == t \in StringKeys
        k == IF bad THEN pc[c].key ELSE t
    IN
    /\ At(c, "target push") /\ KeyFree(t) /\ KeyFree(k)
    /\ lists' = [lists EXCEPT ![k] = Pushed(@, hand[c], IF bad THEN cmd[pc[c].for].side ELSE "l")]
    /\ hand' = [hand EXCEPT ![c] = None]
    /\ NoteLate(k)
    /\ Goto(c, "self")
    /\ UNCHANGED <<pushed, got, dataset, io, todo, scan, cmd, issued>>

-----------------------------------------------------------------------------
\* A client sends one of its commands.
Request(c) == \E m \in Commands[c] : Begin(c, m)

\* What the thread of c does on its own once a command or a reply is there.
Step(c) ==
    \/ ListPush(c) \/ PushSignal(c) \/ ListPop(c) \/ RPopLPush(c) \/ MoveSignal(c)
    \/ BlockForKeys(c) \/ SetTarget(c)
    \/ TakeReady(c) \/ NextReadyKey(c) \/ ServeDone(c) \/ WakeClientsBlockingOnList(c) \/ TargetPush(c)
    \/ AsyncUnblockKeysCallback(c)

BlockedNext == \E c \in Clients : Step(c) \/ Request(c) \/ Timeout(c)

BlockedSpec == BlockedInit /\ [][BlockedNext]_blockedVars /\ \A c \in Clients : WF_blockedVars(Step(c))

-----------------------------------------------------------------------------
Values == 1 .. pushed
Places == {"idle", "push", "signal", "pop", "move", "movesignal", "block", "target", "wake",
           "scan", "serve", "target push", "self"}

\* Types.  The owner of the lock is a thread that serves a key.
BlockedTypeOK ==
    /\ lists \in [ListKeys -> Seq(Values)]
    /\ DOMAIN blocked \subseteq ListKeys /\ Range(blocked) \subseteq SUBSET Clients
    /\ ready \subseteq ListKeys
    /\ \A c \in Clients : /\ pc[c].at \in Places
                          /\ bpop[c].keys \subseteq ListKeys /\ bpop[c].target \in ListKeys \cup {None}
                          /\ (lock = c) <=> pc[c].at \in {"serve", "target push", "self"}
                          /\ todo[c] \subseteq ListKeys /\ scan[c] \subseteq Clients
                          /\ hand[c] \in Values \cup {None}

\* A client in a wait set has a bpop that names the key, and its channel is open: the
\* loop of WakeClientsBlockingOnKeys, which does not advance past a client whose bpop
\* is NULL, ends, and no context is used after FreeClient.
RegisteredHasBPop ==
    \A k \in DOMAIN blocked : \A c \in blocked[k] : bpop[c].set /\ k \in bpop[c].keys /\ open[c]

\* Where value v is.
Holders(v) ==
    {<<"list", k, i>> : <<k, i>> \in {<<x, j>> \in ListKeys \X Values : j <= Len(lists[x]) /\ lists[x][j] = v}}
    \cup {<<"reply", c, i>> : <<c, i>> \in {<<x, j>> \in Clients \X Values : j <= Len(posted[x]) /\ posted[x][j] = v}}
    \cup {<<"got", c, i>> : <<c, i>> \in {<<x, j>> \in Clients \X Values : j <= Len(got[x]) /\ got[x][j] = v}}
    \cup {<<"hand", c, 0>> : c \in {x \in Clients : hand[x] = v}}
    \cup {<<"dropped", v, 0>> : x \in {y \in dropped : y = v}}

\* Every value pushed is in one place: a list, a reply on its way, a client that popped
\* it, the hands of a thread that serves a client, or dropped with the reply to a channel
\* that closed or by RPOPLPUSH to a key of another type.  No interleaving of pops, wake-ups
\* and timeouts hands a value to two clients.
EachValueOnce == \A v \in Values : Cardinality(Holders(v)) = 1

\* A blocking command is answered at most once for each key it names: WakeClients...
\* takes the client out of the wait set of the key it served, so that two threads that
\* wake clients at the same time do not serve it twice from one key.
AnsweredOncePerKey == \A c \in Clients : ~reading[c] => answers[c] <= Len(cmd[c].keys)

\* A blocked client is served once: what it gets is nobody else's, it is answered at most
\* once for each key, and it leaves the wait sets together with its bpop (UnblockKeys,
\* WakeClientsBlockingOnKeys and FreeClient in any order).
ServedOnce == EachValueOnce /\ AnsweredOncePerKey /\ RegisteredHasBPop

Quiet == ready = {} /\ \A c \in Clients : At(c, "idle") /\ posted[c] = <<>>

\* When no thread has anything left to do, a client waits on a list that has values only
\* if one of them was pushed between the client's own pop of that list and its
\* registration (BLPop pops without keeping the key locked): no other interleaving of
\* signals and wake-ups loses a push.
LeftWaitingOnlyIfLate ==
    Quiet => \A k \in DOMAIN blocked : \A c \in blocked[k] : lists[k] # <<>> => k \in late[c]

\* The owner of m_block_keys_lock waits for ever: for the lock itself, or for a key that
\* RPopLPush has locked while it waits for m_block_keys_lock.
Wedged ==
    /\ lock # None
    /\ \/ At(lock, "self")
       \/ At(lock, "serve") /\ scan[lock] # {} /\ ~KeyFree(pc[lock].key)
       \/ At(lock, "target push") /\ ~(KeyFree(bpop[pc[lock].for].target) /\ KeyFree(pc[lock].key))

\* Unless the lock is wedged, a list key that is signalled while clients wait on it is
\* emptied, or every one of them is served: the thread that signals wakes clients itself,
\* and a thread that has taken the ready keys handles all of them.
SignalledIsServed ==
    []~Wedged => \A k \in ListKeys \ StringKeys :
        k \in ready ~> (k \notin DOMAIN blocked \/ blocked[k] = {} \/ lists[k] = <<>>)

=============================================================================
