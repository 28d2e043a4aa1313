----------------------------- MODULE WriteLatch -----------------------------
(***************************************************************************)
(* How a snapshot and a log offset are made to agree: the write latch of    *)
(* Ardb (db/db.cpp), the queue that carries write commands to the           *)
(* replication thread (repl/repl.cpp, common/channel/channel_service.cpp)   *)
(* and the preparation of a snapshot (repl/snapshot.cpp).                   *)
(*                                                                          *)
(* Worker threads execute commands, one event loop (the replication thread) *)
(* appends them to the log, and snapshots are started by client threads     *)
(* (SAVE, BGSAVE) and by the loop itself (a slave that needs a full         *)
(* resynchronisation).  A change of the data set is an operation with a     *)
(* number of its own; the data set is the set of operations it has seen.    *)
(***************************************************************************)
EXTENDS Integers, Sequences, FiniteSets

CONSTANTS
    Workers,            \* threads that execute commands
    Clients,            \* threads that execute SAVE or BGSAVE
    Loop,               \* the replication thread
    MaxOps,             \* bound: changes of the data set
    MaxSlaves,          \* bound: slaves that ask to be synchronised
    MaxPings,           \* bound: pings the master writes to its log
    BackupStartsInTime  \* an engine backup has fixed its content when the
                        \* second that BackupSave sleeps is over

ASSUME WriteLatchAssumption ==
    /\ IsFiniteSet(Workers)
    /\ IsFiniteSet(Clients)
    /\ Loop \notin Clients \cup Workers
    /\ MaxOps \in Nat /\ MaxSlaves \in Nat /\ MaxPings \in Nat
    /\ BackupStartsInTime \in BOOLEAN

Savers == Clients \cup {Loop}

\* Entries of the log and of the loop's queue are operations.  Zero stands for
\* a ping in the log, and for a slave to be added in the queue.
Op == 1 .. MaxOps
Entry == 0 .. MaxOps

VARIABLES
    pc,        \* the step each worker has reached
    op,        \* the operation each worker has on its hands
    kind,      \* what each operation is
    by,        \* the worker that made each operation
    next,      \* the number of the next operation
    db,        \* the operations the data set has seen
    callers,   \* m_write_caller_num
    prepare,   \* m_prepare_snapshot_num
    qsize,     \* m_wal_queue_size
    queue,     \* m_async_io_queue
    signal,    \* the soft-signal pipe of the loop is readable
    lpc,       \* the step the loop has reached
    wal,       \* the log
    stage,     \* how far each snapshot in preparation has come
    offset,    \* m_cached_repl_offset of each saver's snapshot
    cksm,      \* the log length that m_cached_repl_cksm sums up
    content,   \* the operations its content has seen
    slaves,    \* slaves that have asked so far
    pings      \* pings written so far

work == <<pc, op, kind, by, next, db>>
latch == <<callers, prepare>>
mailbox == <<qsize, queue, signal>>
snaps == <<stage, offset, cksm, content>>
vars == <<pc, op, kind, by, next, db, callers, prepare, qsize, queue, signal,
          lpc, wal, stage, offset, cksm, content, slaves, pings>>

Goto(w, step) == pc' = [pc EXCEPT ![w] = step]
Stage(s, step) == stage' = [stage EXCEPT ![s] = step]

\* A new Snapshot object, about to be prepared.
Fresh(s) ==
    /\ Stage(s, "close")
    /\ offset' = [offset EXCEPT ![s] = 0]
    /\ cksm' = [cksm EXCEPT ![s] = 0]
    /\ content' = [content EXCEPT ![s] = {}]

\* m_write_latch is held for long only by the loop, while it runs its nested
\* event loop inside CloseWriteLatchBeforeSnapshotPrepare.
Nested == stage[Loop] = "queue" /\ lpc # "prep"
LatchFree == ~Nested

\* GetSyncSnapshot holds m_snapshots_lock until BGSave has returned.
Preparing == {"close", "callers", "queue", "record", "cksm", "create", "open"}
SnapshotsLocked == stage[Loop] \in Preparing

-----------------------------------------------------------------------------
(* Worker threads                                                          *)

\* A write command reaches DoCall.
DoCall(w) ==
    /\ pc[w] = "idle"
    /\ Goto(w, "latch")
    /\ UNCHANGED <<op, kind, by, next, db, latch, mailbox, lpc, wal, snaps,
                   slaves, pings>>

\* A bug: a command does not wait for a snapshot in preparation.
OpenWriteLatchUnchecked(w) ==
    /\ pc[w] = "latch"
    /\ callers' = callers + 1
    /\ Goto(w, "run")
    /\ UNCHANGED <<op, kind, by, next, db, prepare, mailbox, lpc, wal, snaps,
                   slaves, pings>>

OpenWriteLatchByWriteCaller(w) ==
    /\ pc[w] = "latch"
    /\ LatchFree
    /\ prepare = 0
    /\ callers' = callers + 1
    /\ Goto(w, "run")
    /\ UNCHANGED <<op, kind, by, next, db, prepare, mailbox, lpc, wal, snaps,
                   slaves, pings>>

\* An operation of a given kind is made, and fed to the log next.
NewOp(w, k) ==
    /\ next <= MaxOps
    /\ op' = [op EXCEPT ![w] = next]
    /\ kind' = [kind EXCEPT ![next] = k]
    /\ by' = [by EXCEPT ![next] = w]
    /\ next' = next + 1
    /\ Goto(w, "feed")
    /\ UNCHANGED <<latch, mailbox, lpc, wal, snaps, slaves, pings>>

\* A bug: a write command that failed is fed all the same.
HandlerFails(w) == pc[w] = "run" /\ NewOp(w, "cmd") /\ UNCHANGED db

\* The handler of a write command changes the data set, or leaves it alone
\* (ctx.dirty = 0, or a context with no_wal) and feeds nothing.  Before that it
\* may meet an expired key, which CheckMeta removes and feeds on the spot.
Handler(w) == pc[w] = "run" /\ NewOp(w, "cmd") /\ db' = db \cup {next}

HandlerExpire(w) == pc[w] = "run" /\ NewOp(w, "exp") /\ db' = db \cup {next}

HandlerClean(w) ==
    /\ pc[w] = "run"
    /\ Goto(w, "close")
    /\ UNCHANGED <<op, kind, by, next, db, latch, mailbox, lpc, wal, snaps,
                   slaves, pings>>

\* ReplicationBacklog::WriteWAL counts the command first, ...
WriteWAL(w) ==
    /\ pc[w] = "feed"
    /\ qsize' = qsize + 1
    /\ Goto(w, "push")
    /\ UNCHANGED <<op, kind, by, next, db, latch, queue, signal, lpc, wal, snaps,
                   slaves, pings>>

\* A bug: commands overtake each other in the queue.
AsyncIOFront(w) ==
    /\ pc[w] = "push"
    /\ queue' = <<op[w]>> \o queue
    /\ Goto(w, "signal")
    /\ UNCHANGED <<op, kind, by, next, db, latch, qsize, signal, lpc, wal, snaps,
                   slaves, pings>>

\* ... ChannelService::AsyncIO pushes it ...
AsyncIO(w) ==
    /\ pc[w] = "push"
    /\ queue' = Append(queue, op[w])
    /\ Goto(w, "signal")
    /\ UNCHANGED <<op, kind, by, next, db, latch, qsize, signal, lpc, wal, snaps,
                   slaves, pings>>

\* A write command then leaves the latch, or goes on after an expired key; a
\* scan removes the key; any other thread is done.
AfterFeed(k) == IF k = "cmd" THEN "close" ELSE IF k = "exp" THEN "run"
                ELSE IF k = "scan" THEN "remove" ELSE "idle"

\* ... and FireSoftSignal wakes the loop up.
FireSoftSignal(w) ==
    /\ pc[w] = "signal"
    /\ signal' = TRUE
    /\ Goto(w, AfterFeed(kind[op[w]]))
    /\ op' = [op EXCEPT ![w] = IF kind[op[w]] = "scan" THEN op[w] ELSE 0]
    /\ UNCHANGED <<kind, by, next, db, latch, qsize, queue, lpc, wal, snaps,
                   slaves, pings>>

CloseWriteLatchByWriteCaller(w) ==
    /\ pc[w] = "close"
    /\ callers' = callers - 1
    /\ Goto(w, "wake")
    /\ UNCHANGED <<op, kind, by, next, db, prepare, mailbox, lpc, wal, snaps,
                   slaves, pings>>

\* Call goes on to WakeClientsBlockingOnKeys, outside the latch: for a client
\* blocked on a key that has become ready, it pops and feeds the pop.
WakePop(w) == pc[w] = "wake" /\ NewOp(w, "pop") /\ db' = db \cup {next}

WakeNone(w) ==
    /\ pc[w] = "wake"
    /\ Goto(w, "idle")
    /\ UNCHANGED <<op, kind, by, next, db, latch, mailbox, lpc, wal, snaps,
                   slaves, pings>>

\* CheckMeta, on behalf of a read command, or ScanTTLDB finds an expired key:
\* it is removed first and the removal fed afterwards, outside the latch.
ExpireKey(w) == pc[w] = "idle" /\ NewOp(w, "del") /\ db' = db \cup {next}

\* ScanExpiredKeys feeds the removal first and removes the key afterwards.
ScanExpiredKeys(w) == pc[w] = "idle" /\ NewOp(w, "scan") /\ UNCHANGED db

ScanRemove(w) ==
    /\ pc[w] = "remove"
    /\ db' = db \cup {op[w]}
    /\ op' = [op EXCEPT ![w] = 0]
    /\ Goto(w, "idle")
    /\ UNCHANGED <<kind, by, next, latch, mailbox, lpc, wal, snaps,
                   slaves, pings>>

\* A slave's PSYNC is handed over to the loop.
AddSlave(w) ==
    /\ pc[w] = "idle"
    /\ slaves < MaxSlaves
    /\ slaves' = slaves + 1
    /\ op' = [op EXCEPT ![w] = 0]
    /\ queue' = Append(queue, 0)
    /\ Goto(w, "signal")
    /\ UNCHANGED <<kind, by, next, db, latch, qsize, signal, lpc, wal, snaps,
                   pings>>

-----------------------------------------------------------------------------
(* The replication thread                                                  *)

\* The pipe is readable: all signals in it are read at once.
OnSoftSignal ==
    /\ lpc = "idle" /\ signal
    /\ signal' = FALSE
    /\ lpc' = "drain"
    /\ UNCHANGED <<work, latch, qsize, queue, wal, snaps, slaves, pings>>

\* A bug: a command is dropped on its way to the log.
WriteWALCallbackDrops ==
    /\ lpc = "drain" /\ queue # << >> /\ Head(queue) # 0
    /\ queue' = Tail(queue)
    /\ lpc' = "sub"
    /\ UNCHANGED <<work, latch, qsize, signal, wal, snaps, slaves, pings>>

\* WriteWALCallback appends the command at the head of the queue ...
WriteWALCallback ==
    /\ lpc = "drain" /\ queue # << >> /\ Head(queue) # 0
    /\ wal' = Append(wal, Head(queue))
    /\ queue' = Tail(queue)
    /\ lpc' = "sub"
    /\ UNCHANGED <<work, latch, qsize, signal, snaps, slaves, pings>>

\* ... and only then takes it off the count.
SubQueueSize ==
    /\ lpc = "sub"
    /\ qsize' = qsize - 1
    /\ lpc' = "drain"
    /\ UNCHANGED <<work, latch, queue, signal, wal, snaps, slaves, pings>>

DrainEnd ==
    /\ lpc = "drain" /\ queue = << >>
    /\ lpc' = "idle"
    /\ UNCHANGED <<work, latch, mailbox, wal, snaps, slaves, pings>>

\* Routine writes a ping to the log of a master that has slaves.
Ping ==
    /\ lpc = "idle" /\ pings < MaxPings
    /\ pings' = pings + 1
    /\ wal' = Append(wal, 0)
    /\ UNCHANGED <<work, latch, mailbox, lpc, snaps, slaves>>

\* OnAddSlave, SyncSlave: the slave can go on from its offset, or there is a
\* snapshot it can be given, ...
SyncSlave ==
    /\ lpc = "drain" /\ queue # << >> /\ Head(queue) = 0
    /\ queue' = Tail(queue)
    /\ UNCHANGED <<work, latch, qsize, signal, lpc, wal, snaps, slaves, pings>>

\* ... or GetSyncSnapshot takes m_snapshots_lock and starts a new one, ...
GetSyncSnapshot ==
    /\ lpc = "drain" /\ queue # << >> /\ Head(queue) = 0
    /\ stage[Loop] = "idle"
    /\ queue' = Tail(queue)
    /\ lpc' = "prep"
    /\ Fresh(Loop)
    /\ UNCHANGED <<work, latch, qsize, signal, wal, slaves, pings>>

\* ... or the thread already holds m_snapshots_lock, which is not recursive,
\* from the call that has brought it into its nested event loop.
GetSyncSnapshotAgain ==
    /\ lpc = "drain" /\ queue # << >> /\ Head(queue) = 0
    /\ SnapshotsLocked
    /\ queue' = Tail(queue)
    /\ lpc' = "stuck"
    /\ UNCHANGED <<work, latch, qsize, signal, wal, snaps, slaves, pings>>

\* Waiting for its own queue to run empty, the loop runs a nested event loop
\* (ChannelService::Continue), which returns when there is nothing to read.
Continue ==
    /\ lpc = "prep" /\ stage[Loop] = "queue"
    /\ qsize # 0
    /\ lpc' = "idle"
    /\ UNCHANGED <<work, latch, mailbox, wal, snaps, slaves, pings>>

ContinueReturn ==
    /\ Nested /\ lpc = "idle"
    /\ ~signal
    /\ lpc' = "prep"
    /\ UNCHANGED <<work, latch, mailbox, wal, snaps, slaves, pings>>

-----------------------------------------------------------------------------
(* Snapshots: Save, BGSave, PrepareSave and BackupSave                     *)

NewSnapshot(c) ==
    /\ c \in Clients /\ stage[c] = "idle"
    /\ Fresh(c)
    /\ UNCHANGED <<work, latch, mailbox, lpc, wal, slaves, pings>>

\* A bug: the snapshot is announced only once no command is under way.
CloseWriteLatchPolite(s) ==
    /\ stage[s] = "close" /\ LatchFree
    /\ callers = 0
    /\ prepare' = prepare + 1
    /\ Stage(s, "callers")
    /\ UNCHANGED <<work, callers, mailbox, lpc, wal, offset, cksm, content,
                   slaves, pings>>

\* CloseWriteLatchBeforeSnapshotPrepare announces the snapshot, ...
CloseWriteLatch(s) ==
    /\ stage[s] = "close" /\ LatchFree
    /\ prepare' = prepare + 1
    /\ Stage(s, "callers")
    /\ UNCHANGED <<work, callers, mailbox, lpc, wal, offset, cksm, content,
                   slaves, pings>>

\* ... waits until no write command is under way ...
NoCallers(s) ==
    /\ stage[s] = "callers" /\ LatchFree
    /\ callers = 0
    /\ Stage(s, "queue")
    /\ UNCHANGED <<work, latch, mailbox, lpc, wal, offset, cksm, content,
                   slaves, pings>>

\* ... and until all of them are in the log.
NoQueue(s) ==
    /\ stage[s] = "queue" /\ LatchFree
    /\ qsize = 0
    /\ Stage(s, "record")
    /\ UNCHANGED <<work, latch, mailbox, lpc, wal, offset, cksm, content,
                   slaves, pings>>

\* PrepareSave reads the end of the log and its checksum one after the other.
RecordOffset(s) ==
    /\ stage[s] = "record"
    /\ offset' = [offset EXCEPT ![s] = Len(wal)]
    /\ Stage(s, "cksm")
    /\ UNCHANGED <<work, latch, mailbox, lpc, wal, cksm, content,
                   slaves, pings>>

\* An engine backup is made by a thread of its own, with the latch closed.
RecordCksm(s, backup) ==
    /\ stage[s] = "cksm"
    /\ cksm' = [cksm EXCEPT ![s] = Len(wal)]
    /\ Stage(s, IF backup THEN "backup" ELSE "create")
    /\ lpc' = IF s = Loop /\ backup THEN "drain" ELSE lpc
    /\ UNCHANGED <<work, latch, mailbox, wal, offset, content, slaves, pings>>

Take(s) == content' = [content EXCEPT ![s] = db]

CreateSnapshot(s) ==
    /\ stage[s] = "create"
    /\ Take(s)
    /\ Stage(s, "open")
    /\ UNCHANGED <<work, latch, mailbox, lpc, wal, offset, cksm,
                   slaves, pings>>

OpenWriteLatchAfterSnapshotPrepare(s) ==
    /\ stage[s] = "open" /\ LatchFree
    /\ prepare' = prepare - 1
    /\ Stage(s, "idle")
    /\ lpc' = IF s = Loop THEN "drain" ELSE lpc
    /\ UNCHANGED <<work, callers, mailbox, wal, offset, cksm, content,
                   slaves, pings>>

\* The engine fixes the content of a backup ...
Backup(s) ==
    /\ stage[s] \in {"backup", "late"}
    /\ Take(s)
    /\ Stage(s, IF stage[s] = "backup" THEN "started" ELSE "idle")
    /\ UNCHANGED <<work, latch, mailbox, lpc, wal, offset, cksm,
                   slaves, pings>>

\* ... and BackupSave opens the latch a second after it has started the thread.
BackupOpen(s) ==
    /\ \/ stage[s] = "started"
       \/ stage[s] = "backup" /\ ~BackupStartsInTime
    /\ LatchFree
    /\ prepare' = prepare - 1
    /\ Stage(s, IF stage[s] = "started" THEN "idle" ELSE "late")
    /\ UNCHANGED <<work, callers, mailbox, lpc, wal, offset, cksm, content,
                   slaves, pings>>

-----------------------------------------------------------------------------
Init ==
    /\ pc = [w \in Workers |-> "idle"]
    /\ op = [w \in Workers |-> 0]
    /\ kind = [o \in Entry |-> "none"]
    /\ by = [o \in Entry |-> Loop]
    /\ next = 1
    /\ db = {}
    /\ callers = 0 /\ prepare = 0
    /\ qsize = 0 /\ queue = << >> /\ signal = FALSE
    /\ lpc = "idle"
    /\ wal = << >>
    /\ stage = [s \in Savers |-> "idle"]
    /\ offset = [s \in Savers |-> 0]
    /\ cksm = [s \in Savers |-> 0]
    /\ content = [s \in Savers |-> {}]
    /\ slaves = 0 /\ pings = 0

\* What a worker begins, and how it goes on.
Begin(w) ==
    DoCall(w) \/ ExpireKey(w) \/ ScanExpiredKeys(w) \/ AddSlave(w)

Proceed(w) ==
    \/ OpenWriteLatchByWriteCaller(w)
    \/ Handler(w) \/ HandlerExpire(w) \/ HandlerClean(w)
    \/ WriteWAL(w) \/ AsyncIO(w) \/ FireSoftSignal(w)
    \/ CloseWriteLatchByWriteCaller(w)
    \/ WakePop(w) \/ WakeNone(w) \/ ScanRemove(w)

LoopStep ==
    \/ OnSoftSignal \/ WriteWALCallback \/ SubQueueSize \/ DrainEnd
    \/ SyncSlave \/ GetSyncSnapshot \/ GetSyncSnapshotAgain
    \/ Continue \/ ContinueReturn

Save(s) ==
    \/ CloseWriteLatch(s) \/ NoCallers(s) \/ NoQueue(s)
    \/ RecordOffset(s)
    \/ \E backup \in BOOLEAN : RecordCksm(s, backup)
    \/ CreateSnapshot(s) \/ OpenWriteLatchAfterSnapshotPrepare(s)
    \/ Backup(s) \/ BackupOpen(s)

Next ==
    \/ \E w \in Workers : Begin(w) \/ Proceed(w)
    \/ LoopStep \/ Ping
    \/ \E c \in Clients : NewSnapshot(c)
    \/ \E s \in Savers : Save(s)

Spec == Init /\ [][Next]_vars

\* The operating system runs every thread; nothing makes a client issue
\* commands.
Fairness ==
    /\ \A w \in Workers : WF_vars(Proceed(w))
    /\ WF_vars(LoopStep)
    /\ \A s \in Savers : WF_vars(Save(s))

FairSpec == Spec /\ Fairness

-----------------------------------------------------------------------------
\* Counters stay natural numbers, which the unsigned counters of the code
\* take for granted, and every thread is at one of its steps.
TypeOK ==
    /\ pc \in [Workers -> {"idle", "latch", "run", "feed", "push", "signal",
                           "close", "wake", "remove"}]
    /\ op \in [Workers -> Entry]
    /\ kind \in [Entry -> {"none", "cmd", "exp", "pop", "del", "scan"}]
    /\ by \in [Entry -> Workers \cup {Loop}]
    /\ next \in 1 .. MaxOps + 1
    /\ db \subseteq Op
    /\ callers \in Nat /\ prepare \in Nat /\ qsize \in Nat
    /\ queue \in Seq(Entry) /\ wal \in Seq(Entry)
    /\ signal \in BOOLEAN
    /\ lpc \in {"idle", "drain", "sub", "prep", "stuck"}
    /\ stage \in [Savers -> Preparing \cup {"idle", "backup", "started", "late"}]
    /\ offset \in [Savers -> Nat] /\ cksm \in [Savers -> Nat]
    /\ content \in [Savers -> SUBSET Op]
    /\ slaves \in 0 .. MaxSlaves /\ pings \in 0 .. MaxPings

\* The operations of a prefix of the log.
Logged(n) == {wal[i] : i \in 1 .. n}

\* A saver's snapshot has both its offset and its content.
Taken(s) == stage[s] \notin {"cksm", "create", "backup", "late"}

\* Changes made by write commands, inside the latch.
Latched == {"cmd", "exp"}

\* A snapshot and the log behind its offset give every change made inside the
\* latch once; changes made outside it may come twice but are never missing.
Exact(s) ==
    \A o \in Op :
      /\ kind[o] \in Latched =>
           (o \in content[s] <=> o \in Logged(offset[s]))
      /\ kind[o] \in {"pop", "del"} =>
           (o \in Logged(offset[s]) => o \in content[s])

\* A slave that loads a snapshot and then follows the log from its offset
\* executes every write command exactly once: no change made inside the latch
\* is in the content and behind the offset as well, and none is missing from
\* both.  Pops for blocked clients and removals of expired keys are never
\* missing, other than those ScanExpiredKeys logs before it makes them.
ExactlyOnce == \A s \in Savers : Taken(s) => Exact(s)

\* Even if an engine backup starts late, a slave misses nothing: whatever is
\* logged before the offset is in the content.
NeverMissing ==
    \A s \in Savers : Taken(s) =>
      \A o \in Op : kind[o] \in Latched \cup {"pop", "del"} =>
        (o \in Logged(offset[s]) => o \in content[s])

\* The operations of a sequence that have the same maker stand in the order of
\* their numbers.
Ordered(b, q) ==
    \A i, j \in 1 .. Len(q) :
      (i < j /\ q[i] # 0 /\ b[q[i]] = b[q[j]]) => q[i] < q[j]

\* The changes one thread makes are logged once each and in the order in which
\* it makes them.
SessionOrder == Ordered(by, wal)

\* A snapshot in preparation always gets done, so that write commands are
\* blocked "for a while" only.
LatchReopens ==
    \A s \in Savers : stage[s] = "close" ~> stage[s] = "idle"

\* Every change of the data set reaches the log: the signal that announces it
\* is never lost on the loop.
EveryChangeLogged ==
    \A o \in Op : (next > o) ~> (o \in Logged(Len(wal)))

-----------------------------------------------------------------------------
(* Why it holds: the inductive invariant of WriteLatchProofs.              *)

\* The threads m_write_caller_num counts.
InLatch(w) ==
    \/ pc[w] \in {"run", "close"}
    \/ pc[w] \in {"feed", "push", "signal"} /\ kind[op[w]] \in Latched
Inside == {w \in Workers : InLatch(w)}

\* The snapshots m_prepare_snapshot_num counts.
Drained == {"record", "cksm", "create", "open", "backup", "started"}
Closed == {s \in Savers : stage[s] \in Drained \cup {"callers", "queue"}}

\* What m_wal_queue_size counts: commands about to be pushed, commands in the
\* queue, and the one the loop has just appended.
Pushing == {w \in Workers : pc[w] = "push"}
Queued == {queue[i] : i \in 1 .. Len(queue)} \ {0}
Appended == IF lpc = "sub" THEN 1 ELSE 0

Holding(w) == pc[w] \in {"feed", "push"}

\* The loop is inside PrepareSave or has an empty hand.
LoopInv ==
    /\ stage[Loop] \in Preparing \ {"queue"} => lpc = "prep"
    /\ stage[Loop] \notin Preparing => lpc \notin {"prep", "stuck"}

CountInv ==
    /\ callers = Cardinality(Inside)
    /\ prepare = Cardinality(Closed)
    /\ qsize = Cardinality(Pushing) + Cardinality(Queued) + Appended

\* An operation is in one place at a time: with its thread, in the queue or in
\* the log.
PlaceInv ==
    /\ kind[0] = "none"
    /\ \A o \in Op : o >= next => kind[o] = "none"
    /\ \A w \in Workers : op[w] < next
    /\ \A w \in Workers : pc[w] = "remove" => kind[op[w]] = "scan"
    /\ \A w \in Workers : Holding(w) =>
         op[w] # 0 /\ op[w] \notin Queued /\ op[w] \notin Logged(Len(wal))
    /\ \A v, w \in Workers : Holding(v) /\ Holding(w) /\ v # w => op[v] # op[w]
    /\ \A i, j \in 1 .. Len(queue) : queue[i] = queue[j] /\ queue[i] # 0 => i = j
    /\ \A i \in 1 .. Len(queue) : queue[i] < next
    /\ \A i \in 1 .. Len(wal) : wal[i] < next
    /\ Queued \cap Logged(Len(wal)) = {}

\* A change made inside the latch is in the data set and on its way to the log.
WayInv ==
    /\ \A o \in Op : kind[o] \in Latched \cup {"pop", "del"} => o \in db
    /\ \A o \in Op : kind[o] \in Latched =>
         \/ \E w \in Workers : Holding(w) /\ op[w] = o
         \/ o \in Queued
         \/ o \in Logged(Len(wal))
    /\ \A o \in db : o < next

\* While a snapshot keeps the latch closed, no write command is under way, and
\* from some point on none is queued and none reaches the log.
QuietInv ==
    \A s \in Savers :
      /\ stage[s] \in Drained \cup {"queue"} => Inside = {}
      /\ stage[s] \in Drained => \A o \in Queued : kind[o] \notin Latched
      /\ stage[s] \in {"cksm", "create", "backup"} =>
           \A o \in Logged(Len(wal)) :
             kind[o] \in Latched => o \in Logged(offset[s])

SnapInv ==
    \A s \in Savers :
      /\ offset[s] <= Len(wal)
      /\ \A o \in content[s] : o < next
      /\ stage[s] # "late"

\* The log comes before the queue and the queue before what a thread has on its
\* hands, for the operations of one thread.
Before(b, S, T) ==
    \A o \in S \ {0}, p \in T \ {0} : b[o] = b[p] => o < p

OrderInv ==
    /\ by[0] = Loop
    /\ \A o \in Op : o < next => by[o] \in Workers
    /\ \A w \in Workers : Holding(w) =>
         /\ by[op[w]] = w
         /\ Before(by, Queued, {op[w]}) /\ Before(by, Logged(Len(wal)), {op[w]})
    /\ Before(by, Logged(Len(wal)), Queued)
    /\ Ordered(by, queue)
    /\ Ordered(by, wal)

\* Whatever becomes of a backup, the offset of a snapshot lies in the log.
OffsetInv == \A s \in Savers : offset[s] <= Len(wal)
=============================================================================
