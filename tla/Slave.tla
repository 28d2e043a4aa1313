-------------------------------- MODULE Slave --------------------------------
(***************************************************************************)
(* A slave that follows a master (repl/slave.cpp): the handshake, the load  *)
(* of a dump with commands coming in through the nested event loop, the     *)
(* replay of what was logged meanwhile, the commands executed once synced,  *)
(* and broken connections and crashes at any moment.                        *)
(*                                                                          *)
(* The master is reduced to its log and to what Master.tla shows that it    *)
(* sends: a reply to psync, a dump, and the log from there on.  A command   *)
(* is known by its place in the master's log; the data set is the sequence  *)
(* of commands executed, each with the namespace it was executed in.  With  *)
(* thread-pool-size 1 commands are executed in the replication thread, as   *)
(* here; with more they go through the queue of DBWriter.tla.               *)
(***************************************************************************)
EXTENDS Integers, Sequences

CONSTANTS
    Namespaces,    \* namespaces of commands
    NoNamespace,   \* the empty select_ns
    Keep,          \* entries the master's backlog can hold
    KeepSlave,     \* entries the slave's backlog can hold
    First,         \* the namespace of the write that the master's log begins with,
                   \* NoNamespace when nothing is logged yet
    MaxLog,        \* bound: length of the master's log
    MaxCuts,       \* bound: broken connections
    MaxCrashes,    \* bound: crashes of the slave between two handlers
    MaxMidCrashes  \* bound: crashes of the slave within HandleRedisCommand

ASSUME SlaveAssumption ==
    /\ NoNamespace \notin Namespaces /\ First \in Namespaces \cup {NoNamespace}
    /\ {Keep, KeepSlave} \subseteq Nat \ {0}
    /\ {MaxLog, MaxCuts, MaxCrashes, MaxMidCrashes} \subseteq Nat

VARIABLES
    mlog, mcur,  \* the master's log and select_ns
    was,         \* history: the master's data set after each entry of its log
    m,           \* the master's context of this slave: state and sync_offset
    net,         \* what is on its way from the master
    psync,       \* the psync on its way to the master, if any
    st,          \* m_ctx.state
    key,         \* the replication key in the slave's log
    base, slog,  \* the slave's log: where it begins, its entries
    scur,        \* select_ns of the slave's log
    sync, coff,  \* sync_repl_offset, cached_master_repl_offset
    wns,         \* the namespace commands are executed in
    db,          \* the data set
    cuts, crashes, midCrashes  \* what the bounds count

master == <<mlog, mcur, was>>
wire == <<m, net, psync>>
slaveLog == <<key, base, slog, scur>>
place == <<sync, coff>>
data == <<wns, db>>
counts == <<cuts, crashes, midCrashes>>
vars == <<mlog, mcur, was, m, net, psync, st, key, base, slog, scur, sync, coff,
          wns, db, cuts, crashes, midCrashes>>

Entry == [k : {"select", "cmd"}, ns : Namespaces]
Start(end, first, keep) == IF end - first > keep THEN end - keep ELSE first
MStart == Start(Len(mlog), 0, Keep)
WALEnd == base + Len(slog)
WALStart == Start(WALEnd, base, KeepSlave)

\* The master's data set when its log had n entries.
Image(n) == IF n = 0 THEN << >> ELSE was[n]

\* A data set part of which has been read from a dump.
Partial == <<[at |-> 0, ns |-> NoNamespace]>>

NoPsync == [key |-> "none", off |-> 0, sum |-> << >>]
Msg(t, n) == [t |-> t, n |-> n]
Disconnected == [state |-> "none", off |-> 0]

-----------------------------------------------------------------------------
(* The master                                                              *)

\* A write of the master: its data set, and WriteWAL.
MasterWrite(ns) ==
    LET now == Image(Len(mlog))
        new == IF mcur = ns THEN << >> ELSE <<[k |-> "select", ns |-> ns]>>
        n == Len(mlog) + Len(new) + 1
    IN  /\ n <= MaxLog
        /\ mlog' = Append(mlog \o new, [k |-> "cmd", ns |-> ns])
        /\ was' = Append(was \o [i \in DOMAIN new |-> now], Append(now, [at |-> n, ns |-> ns]))
        /\ mcur' = ns
        /\ UNCHANGED <<wire, st, slaveLog, place, data, counts>>

\* SyncSlave of the master: partial or full resynchronisation.
MasterPsync ==
    /\ psync # NoPsync
    /\ psync' = NoPsync
    /\ IF /\ psync.key = "master"
          /\ psync.off > 0 /\ psync.off \in MStart .. Len(mlog)
          /\ psync.sum = SubSeq(mlog, psync.off - Len(psync.sum) + 1, psync.off)
       THEN /\ m' = [state |-> "synced", off |-> psync.off]
            /\ net' = Append(net, Msg("continue", psync.off))
            /\ UNCHANGED mcur
       ELSE /\ m' = [state |-> "waiting", off |-> Len(mlog)]
            /\ net' = Append(net, Msg("full", Len(mlog)))
            /\ mcur' = NoNamespace
    /\ UNCHANGED <<mlog, was, st, slaveLog, place, data, counts>>

\* The dump is ready and is sent.
MasterDump ==
    /\ m.state = "waiting"
    /\ m' = [m EXCEPT !.state = "synced"]
    /\ net' = Append(net, Msg("dump", m.off))
    /\ UNCHANGED <<master, psync, st, slaveLog, place, data, counts>>

\* SyncWAL of the master.
MasterSync ==
    /\ m.state = "synced" /\ m.off < Len(mlog)
    /\ IF m.off < MStart
       THEN m' = Disconnected /\ UNCHANGED net
       ELSE /\ m' = [m EXCEPT !.off = @ + 1]
            /\ net' = Append(net, Msg("entry", m.off + 1))
    /\ UNCHANGED <<master, psync, st, slaveLog, place, data, counts>>

-----------------------------------------------------------------------------
(* Executing commands                                                      *)

\* DBWriter::Put of the entry at a place of the master's log, without workers.
Put(e, n) ==
    IF e.k = "select" THEN wns' = e.ns /\ UNCHANGED db
                      ELSE db' = Append(db, [at |-> n, ns |-> wns]) /\ UNCHANGED wns

-----------------------------------------------------------------------------
(* Connecting                                                              *)

\* Routine finds no connection: ConnectMaster.
ConnectMaster ==
    /\ st = "down"
    /\ st' = "connecting"
    /\ UNCHANGED <<master, wire, slaveLog, place, data, counts>>

\* ChannelConnected, and the reply to auth: InfoMaster.
ChannelConnected ==
    /\ st = "connecting"
    /\ st' = "info"
    /\ UNCHANGED <<master, wire, slaveLog, place, data, counts>>

HandleInfoReply ==
    /\ st = "info"
    /\ st' = "replconf"
    /\ UNCHANGED <<master, wire, slaveLog, place, data, counts>>

\* A bug: the offset of the last entry goes out, not that of the end.
HandleReplconfReplyShort ==
    /\ st = "replconf"
    /\ st' = "psync"
    /\ psync' = [key |-> IF key = "self" THEN "?" ELSE key,
                 off |-> WALEnd - 1, sum |-> SubSeq(slog, 1, Len(slog) - 1)]
    /\ UNCHANGED <<master, m, net, slaveLog, place, data, counts>>

\* The reply to replconf: psync goes out with the end of the log and its sum.
HandleReplconfReply ==
    /\ st = "replconf"
    /\ st' = "psync"
    /\ psync' = [key |-> IF key = "self" THEN "?" ELSE key,
                 off |-> WALEnd, sum |-> slog]
    /\ UNCHANGED <<master, m, net, slaveLog, place, data, counts>>

\* A message of the given kind has arrived.
Recv(t) == net # << >> /\ Head(net).t = t /\ net' = Tail(net)

HandleContinue ==
    /\ st = "psync" /\ Recv("continue")
    /\ wns' = scur
    /\ sync' = WALEnd
    /\ st' = "synced"
    /\ UNCHANGED <<master, m, psync, slaveLog, coff, db, counts>>

HandleFullResync ==
    /\ st = "psync" /\ Recv("full")
    /\ coff' = Head(net).n
    /\ st' = "wait"
    /\ UNCHANGED <<master, m, psync, slaveLog, sync, data, counts>>

-----------------------------------------------------------------------------
(* Loading a dump                                                          *)

\* A bug: the log keeps the master's key while the dump is loaded.
LoadSyncedSnapshotKeepsKey ==
    /\ st = "wait" /\ Recv("dump")
    /\ st' = "loading"
    /\ key' = "master"
    /\ base' = coff /\ slog' = << >>
    /\ db' = Partial
    /\ UNCHANGED <<master, m, psync, scur, place, wns, counts>>

\* The last chunk of the dump: LoadSyncedSnapshot up to Reload.  FlushAll
\* empties the data set, and the dump begins to fill it.
LoadSyncedSnapshot ==
    /\ st = "wait" /\ Recv("dump")
    /\ st' = "loading"
    /\ key' = "random"
    /\ base' = coff /\ slog' = << >>
    /\ db' = Partial
    /\ UNCHANGED <<master, m, psync, scur, place, wns, counts>>

\* ChannelClosed: what a closed connection changes on the slave's side.  A
\* replay under way sees its offset cleared and, unless the log still has
\* offset 0, gives up the key.
Closing ==
    /\ m' = Disconnected /\ net' = << >> /\ psync' = NoPsync
    /\ st' = "down"
    /\ sync' = 0 /\ coff' = 0
    /\ key' = IF st = "replaying" /\ WALStart > 0 THEN "lost" ELSE key
    /\ UNCHANGED <<master, base, slog, scur>>

\* A bug: a failed load is only logged.
LoadFailsSilently ==
    /\ st = "loading" /\ coff < WALStart
    /\ UNCHANGED vars

\* LoadRDBRoutine: the log has left the dump's offset behind.
LoadFails ==
    /\ st = "loading" /\ coff < WALStart
    /\ Closing
    /\ UNCHANGED <<data, counts>>

\* Reload succeeds.
LoadDone ==
    /\ st = "loading" /\ coff >= WALStart
    /\ db' = Image(coff)
    /\ key' = "master"
    /\ sync' = coff
    /\ st' = "replaying"
    /\ UNCHANGED <<master, wire, base, slog, scur, coff, wns, counts>>

\* ReplayWAL: the next entry of the log is executed, ...
ReplayStep ==
    /\ st = "replaying" /\ sync \in WALStart .. WALEnd - 1
    /\ Put(slog[sync - base + 1], sync + 1)
    /\ sync' = sync + 1
    /\ UNCHANGED <<master, wire, st, slaveLog, coff, counts>>

\* ... the log has overtaken the replay, ...
ReplayFails ==
    /\ st = "replaying" /\ sync < WALStart
    /\ Closing
    /\ UNCHANGED <<data, counts>>

\* ... or the replay is complete.
ReplayDone ==
    /\ st = "replaying" /\ sync = WALEnd
    /\ st' = "synced"
    /\ wns' = IF scur = NoNamespace THEN wns ELSE scur
    /\ UNCHANGED <<master, wire, slaveLog, place, db, counts>>

-----------------------------------------------------------------------------
(* Commands of the master                                                  *)

\* DirectWriteWAL.
DirectWriteWAL(e) ==
    /\ slog' = Append(slog, e)
    /\ scur' = IF e.k = "select" THEN e.ns ELSE scur
    /\ UNCHANGED <<key, base>>

\* A bug: commands are executed while a replay is still under way.
HandleRedisCommandEager ==
    /\ st \in {"loading", "replaying", "synced"} /\ Recv("entry")
    /\ LET n == Head(net).n
       IN  /\ DirectWriteWAL(mlog[n])
           /\ IF st \in {"replaying", "synced"}
              THEN Put(mlog[n], n) /\ sync' = sync + 1
              ELSE UNCHANGED <<sync, data>>
    /\ UNCHANGED <<master, m, psync, st, coff, counts>>

\* Commands are logged always, executed only in a synced slave.
HandleRedisCommand ==
    /\ st \in {"loading", "replaying", "synced"} /\ Recv("entry")
    /\ LET n == Head(net).n
       IN  /\ DirectWriteWAL(mlog[n])
           /\ IF st = "synced"
              THEN Put(mlog[n], n) /\ sync' = sync + 1
              ELSE UNCHANGED <<sync, data>>
    /\ UNCHANGED <<master, m, psync, st, coff, counts>>

-----------------------------------------------------------------------------
(* Faults                                                                  *)

\* The connection breaks, or one side gives it up after repl-timeout.
Cut ==
    /\ st # "down" /\ cuts < MaxCuts /\ cuts' = cuts + 1
    /\ Closing
    /\ UNCHANGED <<data, crashes, midCrashes>>

\* The master has closed the connection and what it sent has been read.
ChannelClosed ==
    /\ st \in {"loading", "replaying", "synced"}
    /\ m.state = "none" /\ net = << >>
    /\ Closing
    /\ UNCHANGED <<data, counts>>

\* The process ends and is started again: files survive.
Restarted ==
    /\ m' = Disconnected /\ net' = << >> /\ psync' = NoPsync
    /\ st' = "down"
    /\ sync' = 0 /\ coff' = 0
    /\ wns' = NoNamespace
    /\ UNCHANGED <<master, db, cuts>>

Crash ==
    /\ crashes < MaxCrashes /\ crashes' = crashes + 1
    /\ Restarted
    /\ UNCHANGED <<slaveLog, midCrashes>>

\* A crash in HandleRedisCommand, between DirectWriteWAL and Put.
MidCrash ==
    /\ midCrashes < MaxMidCrashes /\ midCrashes' = midCrashes + 1
    /\ st = "synced" /\ net # << >> /\ Head(net).t = "entry"
    /\ DirectWriteWAL(mlog[Head(net).n])
    /\ Restarted
    /\ UNCHANGED crashes

-----------------------------------------------------------------------------
Init ==
    /\ mlog = IF First = NoNamespace THEN << >>
              ELSE <<[k |-> "select", ns |-> First], [k |-> "cmd", ns |-> First]>>
    /\ was = IF First = NoNamespace THEN << >> ELSE << << >>, <<[at |-> 2, ns |-> First]>> >>
    /\ mcur = NoNamespace
    /\ m = Disconnected /\ net = << >> /\ psync = NoPsync
    /\ st = "down"
    /\ key = "self" /\ base = 0 /\ slog = << >> /\ scur = NoNamespace
    /\ sync = 0 /\ coff = 0
    /\ wns = NoNamespace /\ db = << >>
    /\ cuts = 0 /\ crashes = 0 /\ midCrashes = 0

MasterStep == MasterPsync \/ MasterDump \/ MasterSync

\* Everything the slave does without a fault.
SlaveStep ==
    \/ ConnectMaster \/ ChannelConnected \/ HandleInfoReply
    \/ HandleReplconfReply \/ HandleContinue \/ HandleFullResync
    \/ LoadSyncedSnapshot \/ LoadFails \/ LoadDone
    \/ ReplayStep \/ ReplayFails \/ ReplayDone
    \/ HandleRedisCommand \/ ChannelClosed

Next ==
    \/ \E ns \in Namespaces : MasterWrite(ns)
    \/ MasterStep
    \/ SlaveStep
    \/ Cut \/ Crash \/ MidCrash

Spec == Init /\ [][Next]_vars

\* Both event loops run.
FairSpec == Spec /\ WF_vars(MasterStep) /\ WF_vars(SlaveStep)

-----------------------------------------------------------------------------
(* Properties                                                              *)

States == {"down", "connecting", "info", "replconf", "psync", "wait",
           "loading", "replaying", "synced"}

TypeOK ==
    /\ mlog \in Seq(Entry) /\ slog \in Seq(Entry)
    /\ was \in Seq(Seq([at : 1 .. Len(mlog), ns : Namespaces])) /\ Len(was) = Len(mlog)
    /\ {mcur, scur, wns} \subseteq Namespaces \cup {NoNamespace}
    /\ m.state \in {"none", "waiting", "synced"} /\ m.off \in 0 .. Len(mlog)
    /\ st \in States
    /\ key \in {"self", "random", "lost", "master"}
    /\ base \in 0 .. Len(mlog) /\ WALEnd <= Len(mlog)
    /\ sync \in 0 .. WALEnd /\ coff \in 0 .. Len(mlog)
    /\ cuts \in 0 .. MaxCuts /\ crashes \in 0 .. MaxCrashes
    /\ midCrashes \in 0 .. MaxMidCrashes

\* The slave's log is a piece of the master's, whatever was cut off or crashed
\* in between (DirectWriteWAL, ResetWALOffsetCksm, IsValidOffsetCksm).
LogIsMasters ==
    WALEnd <= Len(mlog) /\ \A i \in DOMAIN slog : slog[i] = mlog[base + i]

\* As long as it has not crashed, a slave that is synced, or replays, has
\* executed exactly the commands the master logged up to sync_repl_offset, once,
\* in order and in the namespaces of the master; and once synced it has executed
\* all it has logged (LoadSyncedSnapshot, ReplayWAL, HandleRedisCommand).
SlaveFollows ==
  crashes + midCrashes = 0 =>
    /\ st \in {"replaying", "synced"} => db = Image(sync)
    /\ st = "synced" => sync = WALEnd

\* A slave never serves as synced from a dump that was not loaded to its end
\* (the random key of LoadSyncedSnapshot).
LoadedBeforeSynced ==
    st \in {"replaying", "synced"} => \A i \in DOMAIN db : db[i].at # 0

\* Once connections hold and the slave stays up, it catches up with its master,
\* and is a copy of it if it never crashed.
Converges ==
    <>[](/\ st = "synced" /\ sync = Len(mlog)
         /\ crashes + midCrashes = 0 => db = Image(Len(mlog)))
=============================================================================
