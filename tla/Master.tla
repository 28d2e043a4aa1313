------------------------------- MODULE Master -------------------------------
(***************************************************************************)
(* The master's side of replication (repl/master.cpp) with the snapshots it *)
(* hands out (SnapshotManager and Snapshot, repl/snapshot.cpp).             *)
(*                                                                          *)
(* Everything but the writing of dumps, SAVE and the cron job runs in the   *)
(* replication thread, so an action is a callback of its event loop.  An    *)
(* entry of the log stands for the bytes of one command; what a slave has   *)
(* been sent on its connection is kept as a sequence, which is what the     *)
(* properties are about.                                                    *)
(***************************************************************************)
EXTENDS Integers, Sequences, FiniteSets

CONSTANTS
    Slaves,        \* servers that replicate from this one
    Namespaces,    \* the namespaces commands are executed in
    NoNamespace,   \* the empty select_ns of the log's meta data
    Keep,          \* entries the backlog can hold
    MaxLag,        \* snapshot-max-lag-offset
    MaxSnapshots,  \* maxsnapshots
    Backup,        \* the engine makes backups: BACKUP_DUMP for ardb slaves
    MaxLog,        \* bound: length of the log
    MaxObjects,    \* bound: Snapshot objects
    MaxSaves,      \* bound: SAVE and BGSAVE commands
    MaxConns,      \* bound: connections made by slaves
    MaxRestarts    \* bound: restarts of the server

ASSUME MasterAssumption ==
    /\ NoNamespace \notin Namespaces
    /\ {Keep, MaxLag, MaxSnapshots} \subseteq Nat \ {0}
    /\ Backup \in BOOLEAN
    /\ {MaxLog, MaxObjects, MaxSaves, MaxConns, MaxRestarts} \subseteq Nat

VARIABLES
    log,      \* the replication log, a sequence of entries
    cur,      \* select_ns: the namespace of the last select in the log
    slave,    \* the SlaveSyncContext of each slave
    object,   \* the Snapshot objects made so far, those of m_snapshots with a rank
    posted,   \* snapshot callbacks posted to the event loop
    saves, conns, restarts  \* what the bounds count

vars == <<log, cur, slave, object, posted, saves, conns, restarts>>
counts == <<saves, conns, restarts>>

Entry == [k : {"select", "cmd"}, ns : Namespaces]
             \cup [k : {"ping"}, ns : {NoNamespace}]
Select(ns) == [k |-> "select", ns |-> ns]
Command(ns) == [k |-> "cmd", ns |-> ns]
Ping == [k |-> "ping", ns |-> NoNamespace]

\* Items of a connection's output: replies to psync, a snapshot, log entries.
Item(t, n) == [t |-> t, n |-> n]
Entries(from, to) == [i \in 1 .. to - from |-> Item("entry", from + i)]

\* WALStartOffset and WALEndOffset of a log.
WALStart(l) == IF Len(l) > Keep THEN Len(l) - Keep ELSE 0
WALEnd(l) == Len(l)

\* A SlaveSyncContext, and one that is not in m_slaves.
Context(state, off, snap, out) ==
    [state |-> state, off |-> off, snap |-> snap, out |-> out]
Closed == Context("none", 0, 0, << >>)

IsReady(i) == object[i].state = "success" /\ object[i].file
IsSaving(i) == object[i].state = "dumping" /\ object[i].file

-----------------------------------------------------------------------------
(* Sending to slaves: what happens to a context                            *)

\* A bug: an offset the log has left behind is not noticed.
SyncWALUnchecked(r, l, busy) ==
    LET from == IF r.off < WALStart(l) THEN WALStart(l) ELSE r.off
    IN  IF busy THEN r
        ELSE Context(r.state, WALEnd(l), r.snap, r.out \o Entries(from, WALEnd(l)))

\* What the log has beyond sync_offset goes out, unless too much is waiting in
\* the output buffer; a slave the log has left behind is disconnected.
SyncWAL(r, l, busy) ==
    IF r.off \notin WALStart(l) .. WALEnd(l) THEN Closed
    ELSE IF busy THEN r
    ELSE Context(r.state, WALEnd(l), r.snap, r.out \o Entries(r.off, WALEnd(l)))

\* The log has become l: all synced slaves are fed, but for the busy ones.
SyncAll(f, l, busy) ==
    [s \in Slaves |-> IF f[s].state = "synced"
                      THEN SyncWAL(f[s], l, s \in busy) ELSE f[s]]

\* The dump is opened and goes out behind what is already on its way; if it
\* cannot be opened the slave is disconnected.
SendSnapshotToSlave(r) ==
    IF object[r.snap].file
    THEN Context("sending", r.off, r.snap,
                 Append(r.out, Item("snapshot", object[r.snap].off)))
    ELSE Closed

FullResyncSlaves(f, i) ==
    [s \in Slaves |-> IF f[s].snap = i THEN SendSnapshotToSlave(f[s])
                                       ELSE f[s]]

CloseSlaveBySnapshot(f, i) ==
    [s \in Slaves |-> IF f[s].snap = i THEN Closed ELSE f[s]]

-----------------------------------------------------------------------------
(* The log                                                                 *)

\* A write command reaches the log, behind a select if the last one selected
\* another namespace, and the slaves.
WriteWAL(ns, busy) ==
    LET l == log \o (IF cur = ns THEN << >> ELSE <<Select(ns)>>)
                 \o <<Command(ns)>>
    IN  /\ WALEnd(l) <= MaxLog
        /\ log' = l
        /\ cur' = ns
        /\ slave' = SyncAll(slave, l, busy)
        /\ UNCHANGED <<object, posted, counts>>

\* Master::Routine keeps synced slaves alive with a ping.
Routine(busy) ==
    LET l == Append(log, Ping)
    IN  /\ \E s \in Slaves : slave[s].state = "synced"
        /\ WALEnd(l) <= MaxLog
        /\ log' = l
        /\ slave' = SyncAll(slave, l, busy)
        /\ UNCHANGED <<cur, object, posted, counts>>

ChannelWritable(s) ==
    /\ slave[s].state = "synced"
    /\ slave[s].off < WALEnd(log)
    /\ slave' = [slave EXCEPT ![s] = SyncWAL(@, log, FALSE)]
    /\ UNCHANGED <<log, cur, object, posted, counts>>

-----------------------------------------------------------------------------
(* Snapshots                                                               *)

\* A Snapshot object.
Snapshot(off, state, file, cb, rank) ==
    [off |-> off, state |-> state, file |-> file, cb |-> cb, rank |-> rank]
Fresh(cb, rank) == Snapshot(WALEnd(log), "dumping", TRUE, cb, rank)
NewId == Len(object) + 1

\* m_snapshots is in the order of the ranks; r is the rank of one put at its end.
Listed == {i \in 1 .. Len(object) : object[i].rank > 0}
Last(r) == /\ \A i \in Listed : object[i].rank < r
           /\ r = 1 \/ \E i \in Listed : object[i].rank = r - 1

\* The snapshots GetSyncSnapshot may take: not too far behind, and still good.
Reusable == {i \in Listed : /\ WALEnd(log) - object[i].off < MaxLag
                            /\ IsSaving(i) \/ IsReady(i)}
Newest(i) == i \in Reusable /\ \A j \in Reusable : object[j].rank <= object[i].rank

\* BGSAVE of a client; no callback is given.
BGSave ==
    /\ saves < MaxSaves /\ NewId <= MaxObjects
    /\ \E r \in 1 .. MaxObjects : Last(r) /\ object' = Append(object, Fresh("none", r))
    /\ saves' = saves + 1
    /\ UNCHANGED <<log, cur, slave, posted, conns, restarts>>

\* SAVE of a client; the manager learns of it when it has succeeded.
Save ==
    /\ saves < MaxSaves /\ NewId <= MaxObjects
    /\ object' = Append(object, Fresh("save", 0))
    /\ saves' = saves + 1
    /\ UNCHANGED <<log, cur, slave, posted, conns, restarts>>

\* The thread that writes a dump is done: DoSave, AfterSave.  A failed dump is
\* removed.  snapshot_dump_routine posts the outcome to the event loop.
DoSave(i, ok) ==
    /\ object[i].state = "dumping"
    /\ \E r \in 0 .. MaxObjects :
          /\ IF object[i].cb = "save" /\ ok THEN Last(r) ELSE r = object[i].rank
          /\ object' = [object EXCEPT ![i] = Snapshot(@.off, IF ok THEN "success" ELSE "fail",
                                                      @.file /\ ok, @.cb, r)]
    /\ posted' = IF object[i].cb = "resync"
                 THEN Append(posted, [snap |-> i, ok |-> ok]) ELSE posted
    /\ UNCHANGED <<log, cur, slave, counts>>

\* A bug: nothing is done when a dump has failed.
SnapshotCallbackDeaf ==
    /\ posted # << >>
    /\ posted' = Tail(posted)
    /\ slave' = IF Head(posted).ok THEN FullResyncSlaves(slave, Head(posted).snap)
                                   ELSE slave
    /\ UNCHANGED <<log, cur, object, counts>>

\* snapshot_dump_success and snapshot_dump_fail.
SnapshotCallback ==
    /\ posted # << >>
    /\ posted' = Tail(posted)
    /\ slave' = IF Head(posted).ok
                THEN FullResyncSlaves(slave, Head(posted).snap)
                ELSE CloseSlaveBySnapshot(slave, Head(posted).snap)
    /\ UNCHANGED <<log, cur, object, counts>>

\* The dump has gone out completely.  OnSnapshotFileSendComplete forgets the
\* snapshot; the end of SendBackupToSlave does not.
SendComplete(s, busy) ==
    /\ slave[s].state = "sending" /\ slave[s].snap # 0
    /\ slave' = [slave EXCEPT ![s] =
                    SyncWAL(Context("synced", @.off, IF Backup THEN @.snap ELSE 0, @.out),
                            log, busy)]
    /\ UNCHANGED <<log, cur, object, posted, counts>>

Remove(o) == Snapshot(o.off, o.state, FALSE, o.cb, 0)

\* SnapshotManager::Routine, run by cron: with too many snapshots, those the
\* log has left behind go first, then the oldest.
SnapshotRoutine ==
    LET old == {i \in Listed : object[i].off < WALStart(log)}
        newer(i) == {j \in Listed \ old : object[j].rank > object[i].rank}
        excess == {i \in Listed \ old : Cardinality(newer(i)) >= MaxSnapshots}
    IN  /\ Cardinality(Listed) > MaxSnapshots
        /\ object' = [i \in 1 .. Len(object) |->
                        IF i \in old \cup excess THEN Remove(object[i]) ELSE object[i]]
        /\ UNCHANGED <<log, cur, slave, posted, counts>>

-----------------------------------------------------------------------------
(* Connections                                                             *)

Accepted(s) == slave[s].state = "none" /\ conns < MaxConns /\ conns' = conns + 1

\* The log still has the offset; that the slave's checksum is the one of the
\* log up to there is a matter of the psync that is received.
IsValidOffsetCksm(off) == off > 0 /\ off \in WALStart(log) .. WALEnd(log)

\* A psync that names the server's replication key and an offset it accepts.
SyncSlaveContinue(s, off, busy) ==
    /\ Accepted(s)
    /\ IsValidOffsetCksm(off)
    /\ slave' = [slave EXCEPT ![s] =
                    SyncWAL(Context("synced", off, 0, <<Item("continue", off)>>),
                            log, busy)]
    /\ UNCHANGED <<log, cur, object, posted, saves, restarts>>

Waiting(i, off) == Context("waiting", off, i, <<Item("full", off)>>)

\* A bug: select_ns is left as it is.
SyncSlaveFullKeeps(s) ==
    /\ Accepted(s)
    /\ \/ \E i \in Reusable :
             LET f == [slave EXCEPT ![s] = Waiting(i, object[i].off)]
             IN  /\ Newest(i)
                 /\ slave' = IF IsReady(i) THEN FullResyncSlaves(f, i) ELSE f
                 /\ UNCHANGED object
       \/ /\ Reusable = {} /\ NewId <= MaxObjects
          /\ \E r \in 1 .. MaxObjects : Last(r) /\ object' = Append(object, Fresh("resync", r))
          /\ slave' = [slave EXCEPT ![s] = Waiting(NewId, WALEnd(log))]
    /\ UNCHANGED <<log, cur, posted, saves, restarts>>

\* Any other psync: a snapshot is found or begun, select_ns is cleared, and a
\* snapshot that is ready goes out at once, to every slave that refers to it.
SyncSlaveFull(s) ==
    /\ Accepted(s)
    /\ cur' = NoNamespace
    /\ \/ \E i \in Reusable :
             LET f == [slave EXCEPT ![s] = Waiting(i, object[i].off)]
             IN  /\ Newest(i)
                 /\ slave' = IF IsReady(i) THEN FullResyncSlaves(f, i) ELSE f
                 /\ UNCHANGED object
       \/ /\ Reusable = {} /\ NewId <= MaxObjects
          /\ \E r \in 1 .. MaxObjects : Last(r) /\ object' = Append(object, Fresh("resync", r))
          /\ slave' = [slave EXCEPT ![s] = Waiting(NewId, WALEnd(log))]
    /\ UNCHANGED <<log, posted, saves, restarts>>

\* The dump cannot be begun: its file cannot be made.
SyncSlaveFails(s) ==
    /\ Accepted(s)
    /\ Reusable = {}
    /\ UNCHANGED <<log, cur, slave, object, posted, saves, restarts>>

\* SYNC of a Redis 2.6 slave: its repl_key is empty.
SyncSlaveOld(s) ==
    /\ Accepted(s)
    /\ slave' = [slave EXCEPT ![s] = Context("sending", 0, 0, << >>)]
    /\ UNCHANGED <<log, cur, object, posted, saves, restarts>>

\* The connection breaks, or the slave has not acknowledged for repl-timeout.
ChannelClosed(s) ==
    /\ slave[s].state # "none"
    /\ slave' = [slave EXCEPT ![s] = Closed]
    /\ UNCHANGED <<log, cur, object, posted, counts>>

\* The server stops and starts again.  The log and its meta data are files;
\* SnapshotManager::Init finds the dumps that were completed, in any order.
Restart ==
    LET left == {i \in 1 .. Len(object) : IsReady(i)}
    IN  /\ restarts < MaxRestarts /\ restarts' = restarts + 1
        /\ slave' = [s \in Slaves |-> Closed]
        /\ posted' = << >>
        /\ \E r \in [left -> 1 .. Len(object)] :
              /\ \A i, j \in left : r[i] = r[j] => i = j
              /\ object' = [i \in 1 .. Len(object) |->
                              IF i \in left
                              THEN Snapshot(object[i].off, "success", TRUE, object[i].cb, r[i])
                              ELSE Snapshot(object[i].off, "fail", FALSE, object[i].cb, 0)]
        /\ UNCHANGED <<log, cur, saves, conns>>

-----------------------------------------------------------------------------
Init ==
    /\ log = << >> /\ cur = NoNamespace
    /\ slave = [s \in Slaves |-> Closed]
    /\ object = << >> /\ posted = << >>
    /\ saves = 0 /\ conns = 0 /\ restarts = 0

Step(s) ==
    \/ SyncSlaveFull(s)
    \/ SyncSlaveFails(s)
    \/ SyncSlaveOld(s)
    \/ ChannelClosed(s)
    \/ ChannelWritable(s)
    \/ \E busy \in BOOLEAN : SendComplete(s, busy)
    \/ \E off \in 1 .. MaxLog, busy \in BOOLEAN : SyncSlaveContinue(s, off, busy)

Next ==
    \/ \E s \in Slaves : Step(s)
    \/ \E busy \in SUBSET Slaves, ns \in Namespaces : WriteWAL(ns, busy)
    \/ \E busy \in SUBSET Slaves : Routine(busy)
    \/ BGSave
    \/ Save
    \/ \E i \in 1 .. Len(object), ok \in BOOLEAN : DoSave(i, ok)
    \/ SnapshotCallback
    \/ SnapshotRoutine
    \/ Restart

Spec == Init /\ [][Next]_vars

\* Dumps come to an end, the event loop runs its callbacks, and data goes out
\* as long as the connection lasts.
FairSpec ==
    /\ Spec
    /\ \A i \in 1 .. MaxObjects :
          WF_vars(i <= Len(object) /\ \E ok \in BOOLEAN : DoSave(i, ok))
    /\ WF_vars(SnapshotCallback)
    /\ \A s \in Slaves : WF_vars(SendComplete(s, FALSE))
                         /\ WF_vars(ChannelWritable(s))

-----------------------------------------------------------------------------
(* Properties                                                              *)

TypeOK ==
    /\ log \in Seq(Entry) /\ Len(log) <= MaxLog
    /\ cur \in Namespaces \cup {NoNamespace}
    /\ slave \in [Slaves -> [state : {"none", "waiting", "sending", "synced"},
                             off : 0 .. Len(log), snap : 0 .. Len(object),
                             out : Seq([t : {"full", "continue", "snapshot", "entry"},
                                        n : 0 .. Len(log)])]]
    /\ object \in Seq([off : 0 .. Len(log), state : {"dumping", "success", "fail"},
                       file : BOOLEAN, cb : {"none", "save", "resync"},
                       rank : 0 .. MaxObjects])
    /\ posted \in Seq([snap : 1 .. Len(object), ok : BOOLEAN])
    /\ saves \in 0 .. MaxSaves /\ conns \in 0 .. MaxConns
    /\ restarts \in 0 .. MaxRestarts

Out(s) == slave[s].out
Base(s) == Out(s)[1].n
Sent(s) == {k \in DOMAIN Out(s) : Out(s)[k].t = "entry"}
Dumps(s) == {k \in DOMAIN Out(s) : Out(s)[k].t = "snapshot"}

\* Whatever connects, breaks, fails or lags behind, what a slave receives is a
\* reply to its psync, the dump if a dump was announced, taken at the announced
\* offset, and then every entry of the log from that offset on, once and in
\* order, up to sync_offset (SyncWAL, SendSnapshotToSlave, SyncSlave).
StreamFaithful ==
    \A s \in Slaves : Out(s) # << >> =>
        /\ {Out(s)[k].n : k \in Sent(s)} = Base(s) + 1 .. slave[s].off
        /\ \A j, k \in Sent(s) : j < k => Out(s)[j].n < Out(s)[k].n
        /\ \A k \in Dumps(s) : Out(s)[k].n = Base(s)
        /\ Out(s)[1].t = "full" /\ Sent(s) # {} => Out(s)[2].t = "snapshot"
        /\ slave[s].state = "synced" /\ Out(s)[1].t = "full" => Dumps(s) # {}

\* A dump of that offset was begun for a slave, not by SAVE or BGSAVE only.
MadeForSlave(off) ==
    \E i \in DOMAIN object : object[i].cb = "resync" /\ object[i].off = off

\* The namespace of each command sent is the one of the last select the slave
\* knows: behind a dump that was made for a slave, only selects behind the dump
\* count, also for slaves that are given the same dump later and after a restart
\* (ClearCurrentNamespace in SyncSlave, the select of WriteWAL).
NamespaceKnown ==
    \A s \in Slaves : \A k \in Sent(s) :
        LET j == Out(s)[k].n
            full == Out(s)[1].t = "full"
            selects == {i \in (IF full THEN Base(s) ELSE 0) + 1 .. j :
                            log[i].k = "select"}
        IN  log[j].k = "cmd" /\ (full => MadeForSlave(Base(s))) =>
                \E i \in selects : /\ \A h \in selects : h <= i
                                   /\ log[i].ns = log[j].ns

\* A slave was promised a dump: it waits for one made for a slave, or is being
\* sent one.
Promised(s) ==
    /\ slave[s].snap # 0
    /\ \/ slave[s].state = "waiting" /\ object[slave[s].snap].cb = "resync"
       \/ slave[s].state = "sending"

\* Such a slave ends up synced with all that is in the log, unless its
\* connection ends (snapshot_dump_routine, FullResyncSlaves).
Resynchronised ==
    \A s \in Slaves : Promised(s) ~>
        \/ slave[s].state = "none"
        \/ slave[s].state = "synced" /\ slave[s].off = Len(log)
=============================================================================
