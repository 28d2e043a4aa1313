----------------------------- MODULE StreamDump ----------------------------
(* Streams in the dump format (snapshot.cpp): ObjectIO::RedisWriteStream    *)
(* packs the entries into listpacks under the id of the first one, and      *)
(* RedisLoadStream takes such nodes apart, its own and those of Redis.  A   *)
(* listpack is the sequence of its elements, which are texts or integers.   *)
(* Ids are pairs <<ms, seq>>; an entry is [id, fs] with pairs of a field's  *)
(* name and value.                                                          *)
EXTENDS RdbCodec

CONSTANTS StreamCases,    \* streams: [entries, names, last, groups]
          DeletedFlags    \* sets of positions that Redis keeps as deleted

VARIABLES sdone, node, sfile, back   \* entries packed, the node, the file, what was loaded

sdvars == <<sdone, node, sfile, back>>

SAMEFIELDS == 2
DELETED == 1
IdText(id) == [Name("id", 16, 0) EXCEPT !.q = <<IntText(id[1]), IntText(id[2])>>]
IdOf(t) == <<t.q[1].n, t.q[2].n>>
NamesOf(e) == [i \in DOMAIN e.fs |-> e.fs[i][1]]
ValuesOf(e) == [i \in DOMAIN e.fs |-> e.fs[i][2]]
NoNode == [master |-> <<0, 0>>, lp |-> <<>>]
lpInt(t) == t.n

(* The elements an entry adds: flags, difference to the master id, the      *)
(* names when they are not the master's, the values, and their number.      *)
EntryItems(e, master, same) ==
    <<IntText(IF same THEN SAMEFIELDS ELSE 0), IntText(e.id[1] - master[1]), IntText(e.id[2] - master[2])>>
    \o (IF same THEN <<>> ELSE <<IntText(Len(e.fs))>>)
    \o FlattenSeq([i \in DOMAIN e.fs |-> IF same THEN <<e.fs[i][2]>> ELSE e.fs[i]])
    \o <<IntText(Len(e.fs) + 3 + (IF same THEN 0 ELSE Len(e.fs) + 1))>>

MasterItems(e) == <<IntText(1), IntText(0), IntText(Len(e.fs))>> \o NamesOf(e) \o <<IntText(0)>>

(* RedisWriteStream for one entry: it opens a node, or joins the open one.  *)
PackEntry(n, e) ==
    IF n.lp = <<>>
      THEN [master |-> e.id, lp |-> MasterItems(e) \o EntryItems(e, e.id, TRUE)]
    ELSE LET count == lpInt(n.lp[3])
             same == Len(e.fs) = count /\ NamesOf(e) = SubSeq(n.lp, 4, 3 + count)
         IN  [n EXCEPT !.lp = [@ EXCEPT ![1] = IntText(lpInt(@) + 1)] \o EntryItems(e, n.master, same)]

(* RedisWriteStreamPEL: pending entries with or without their times. *)
RedisWriteStreamPEL(pel, nacks) ==
    WriteLen(Len(pel), 0)
    \o FlattenSeq([i \in DOMAIN pel |->
          <<Chars(IdText(pel[i].id))>>
          \o IF nacks THEN <<[b |-> -3, s |-> IntText(pel[i].time)]>> \o WriteLen(pel[i].count, 0) ELSE <<>>])

RedisWriteStreamConsumers(g) ==
    WriteLen(Len(g.consumers), 0)
    \o FlattenSeq([i \in DOMAIN g.consumers |->
          WriteRawString(g.consumers[i]) \o <<[b |-> -3, s |-> IntText(1)]>>
          \o RedisWriteStreamPEL(SelectSeq(g.pel, LAMBDA x : x.owner = g.consumers[i]), FALSE)])

WriteGroups(groups) ==
    WriteLen(Len(groups), 0)
    \o FlattenSeq([i \in DOMAIN groups |->
          WriteRawString(groups[i].name) \o WriteLen(groups[i].last[1], 0) \o WriteLen(groups[i].last[2], 0)
          \o RedisWriteStreamPEL(groups[i].pel, TRUE) \o RedisWriteStreamConsumers(groups[i])])

Trailer(s) == WriteLen(Len(s.entries), 0) \o WriteLen(s.last[1], 0) \o WriteLen(s.last[2], 0) \o WriteGroups(s.groups)

(* The end of RedisWriteStream.  lp_bytes is never set, so the node that is *)
(* open is written with length 0; without groups nothing is written at all  *)
(* after the number of nodes, which is still 0.                             *)
WriteStreamEnd(s, n) ==
    IF s.groups = <<>> THEN WriteLen(0, 8)
    ELSE WriteLen(IF n.lp = <<>> THEN 0 ELSE 1, 8)
         \o (IF n.lp = <<>> THEN <<>> ELSE WriteRawString(IdText(n.master)) \o WriteRawString(Empty))
         \o Trailer(s)

(* Redis's writer (external): a node for all entries, in which deleted      *)
(* entries stay with a flag.                                                *)
Flagged(n, e, deleted) ==
    LET at == IF n.lp = <<>> THEN Len(MasterItems(e)) + 1 ELSE Len(n.lp) + 1
        m == PackEntry(n, e)
    IN  IF ~deleted THEN m
        ELSE [m EXCEPT !.lp = [@ EXCEPT ![at] = IntText(lpInt(@) + DELETED),
                                        ![1] = IntText(lpInt(@) - 1), ![2] = IntText(lpInt(@) + 1)]]
ForeignStream(s, deleted) ==
    LET n == FoldLeft(LAMBDA a, i : Flagged(a, s.entries[i], i \in deleted), NoNode, [i \in DOMAIN s.entries |-> i])
    IN  IF n.lp = <<>> THEN WriteLen(0, 0) \o Trailer(s)
        ELSE WriteLen(1, 0) \o WriteRawString(IdText(n.master))
             \o WriteRawString([Name("node", 9, 0) EXCEPT !.q = n.lp]) \o Trailer(s)

-----------------------------------------------------------------------------
(* RedisLoadStream: the entries of a node. *)
LoadEntry(lp, p, master, names) ==
    LET flags == lpInt(lp[p])
        same == flags >= SAMEFIELDS
        n == IF same THEN Len(names) ELSE lpInt(lp[p + 3])
        at == IF same THEN p + 3 ELSE p + 4
        vals == [i \in 1 .. n |-> IF same THEN lp[at + i - 1] ELSE lp[at + 2 * i - 1]]
        fns == [i \in 1 .. n |-> IF same THEN names[i] ELSE lp[at + 2 * i - 2]]
    IN  [e |-> [id |-> <<lpInt(lp[p + 1]) + master[1], lpInt(lp[p + 2]) + master[2]>>,
                vals |-> vals, fns |-> fns],
         deleted |-> flags % 2 = DELETED,
         p |-> at + (IF same THEN n ELSE 2 * n) + 1]

LoadNode(master, lp) ==
    LET count == lpInt(lp[3])
        names == SubSeq(lp, 4, 3 + count)
        all == FoldLeft(LAMBDA a, i : LET add(r) == [p |-> r.p, es |-> IF r.deleted THEN a.es ELSE Append(a.es, r.e)]
                                      IN  add(LoadEntry(lp, a.p, master, names)),
                        [p |-> 5 + count, es |-> <<>>], [i \in 1 .. lpInt(lp[1]) + lpInt(lp[2]) |-> i])
    IN  all.es

(* The pending entries of a group, then those of its consumers, by id. *)
LoadPEL(f, p, nacks) ==
    LET w == IF nacks THEN 3 ELSE 1
        entry(q) == [id |-> IdOf(f[q].s), time |-> IF nacks THEN f[q + 1].s.n ELSE 0,
                     count |-> IF nacks THEN ReadLen(f, q + 2).v ELSE 0]
        read(n) == [pel |-> [i \in 1 .. n.v |-> entry(n.p + (i - 1) * w)], p |-> n.p + n.v * w]
    IN  read(ReadLen(f, p))

(* The entries of a consumer belong to it; time and count are the group's.  *)
(* Mutant: the counts of the group are not looked up. *)
LoadConsumerAnew(f, p, nack) ==
    LET owned(name, r) == [p |-> r.p,
                           puts |-> [i \in DOMAIN r.pel |-> [id |-> r.pel[i].id, time |-> r.pel[i].time,
                                                             count |-> r.pel[i].count, owner |-> name.t]]]
        read(name) == owned(name, LoadPEL(f, name.p + 1, FALSE))
    IN  read(ReadString(f, p))
LoadConsumer(f, p, nack) ==
    LET group(id) == CHOOSE y \in Range(nack) : y.id = id
        put(x, who) == [id |-> x.id, time |-> x.time, count |-> x.count, owner |-> who]
        owned(name, r) == [p |-> r.p, puts |-> [i \in DOMAIN r.pel |-> put(group(r.pel[i].id), name.t)]]
        read(name) == owned(name, LoadPEL(f, name.p + 1, FALSE))
    IN  read(ReadString(f, p))
LoadConsumers(f, p, nack) ==
    LET add(a, r) == [p |-> r.p, pel |-> a.pel \o r.puts]
        each(n) == FoldLeft(LAMBDA a, i : add(a, LoadConsumer(f, a.p, nack)),
                            [p |-> n.p, pel |-> <<>>], [i \in 1 .. n.v |-> i])
    IN  each(ReadLen(f, p))

(* k lengths, one after the other. *)
ReadLens(f, p, k) ==
    LET add(a, l) == [v |-> Append(a.v, l.v), p |-> l.p]
    IN  FoldLeft(LAMBDA a, i : add(a, ReadLen(f, a.p)), [v |-> <<>>, p |-> p], [i \in 1 .. k |-> i])

GroupOf(name, id, all) == [p |-> all.p, g |-> [name |-> name.t, last |-> id.v, pel |-> all.pel]]
GroupPEL(f, name, id, g) == GroupOf(name, id, LoadConsumers(f, g.p, g.pel))
GroupId(f, name, id) == GroupPEL(f, name, id, LoadPEL(f, id.p, TRUE))
GroupName(f, name) == GroupId(f, name, ReadLens(f, name.p, 2))
LoadGroup(f, p) == GroupName(f, ReadString(f, p))

(* What is put for an entry.  Its value should start with the number of     *)
(* fields; that is not set, so a name goes to the place of the value, which *)
(* follows: no name is kept.                                                *)
PutEntry(e) == [id |-> e.id, fields |-> 0, vals |-> e.vals]

NotLoaded == [st |-> "none", entries |-> <<>>, last |-> <<0, 0>>, groups |-> <<>>, size |-> 0]

LoadNodes(f, n) ==
    LET puts(l) == [i \in DOMAIN l |-> PutEntry(l[i])]
        read(id, lp) == IF lp.t = Empty THEN [ok |-> FALSE, es |-> <<>>, p |-> lp.p]
                        ELSE [ok |-> TRUE, es |-> puts(LoadNode(IdOf(id.t), lp.t.q)), p |-> lp.p]
        keyed(id) == read(id, ReadString(f, id.p))
    IN  IF n.v = 0 THEN [ok |-> TRUE, es |-> <<>>, p |-> n.p] ELSE keyed(ReadString(f, n.p))
LoadGroups(f, p, k) ==
    LET add(a, r) == [p |-> r.p, gs |-> Append(a.gs, r.g)]
    IN  FoldLeft(LAMBDA a, i : add(a, LoadGroup(f, a.p)), [p |-> p, gs |-> <<>>], [i \in 1 .. k |-> i]).gs
\* after the nodes: the length, the last id and the number of groups
LoadRest(f, es, rest) ==
    IF Narrow(rest.v[1]) = LENERR THEN [NotLoaded EXCEPT !.st = "fail"]
    ELSE [st |-> "ok", entries |-> es, last |-> <<rest.v[2], rest.v[3]>>,
          groups |-> LoadGroups(f, rest.p, rest.v[4]), size |-> Len(es)]
LoadAfter(f, x) == IF ~x.ok THEN [NotLoaded EXCEPT !.st = "garbled"] ELSE LoadRest(f, x.es, ReadLens(f, x.p, 4))
RedisLoadStream(f) == LoadAfter(f, LoadNodes(f, ReadLen(f, 1)))

-----------------------------------------------------------------------------
SDInit == sdone = <<>> /\ node = NoNode /\ sfile = <<>> /\ back = NotLoaded

(* DUMP: the entries one by one, then the end; Redis's file; RESTORE. *)
StartStream == \E s \in StreamCases :
    /\ sdone = <<>> /\ back.st = "none"
    /\ sdone' = <<s, 0, {}>>
    /\ UNCHANGED <<node, sfile, back>>
PackNext ==
    /\ sdone # <<>> /\ sdone[2] < Len(sdone[1].entries) /\ sfile = <<>>
    /\ node' = PackEntry(node, sdone[1].entries[sdone[2] + 1])
    /\ sdone' = [sdone EXCEPT ![2] = @ + 1]
    /\ UNCHANGED <<sfile, back>>
PackEnd ==
    /\ sdone # <<>> /\ sdone[2] = Len(sdone[1].entries) /\ sfile = <<>>
    /\ sfile' = WriteStreamEnd(sdone[1], node)
    /\ UNCHANGED <<sdone, node, back>>
FromRedis == \E deleted \in DeletedFlags :
    /\ sdone # <<>> /\ sdone[2] = 0 /\ sfile = <<>>
    /\ sfile' = ForeignStream(sdone[1], deleted)
    /\ sdone' = <<sdone[1], -1, deleted>>
    /\ UNCHANGED <<node, back>>
LoadStream ==
    /\ sfile # <<>> /\ back.st = "none"
    /\ back' = RedisLoadStream(sfile)
    /\ UNCHANGED <<sdone, node, sfile>>

SDNext == StartStream \/ PackNext \/ PackEnd \/ FromRedis \/ LoadStream

-----------------------------------------------------------------------------
Kept(s, deleted) == SelectSeq([i \in DOMAIN s.entries |-> IF i \in deleted THEN [id |-> <<-1, 0>>, fs |-> <<>>] ELSE s.entries[i]],
                              LAMBDA e : e.id[1] >= 0)
SameEntries(es, fs) == Len(es) = Len(fs) /\ \A i \in DOMAIN es : es[i].id = fs[i].id /\ es[i].vals = ValuesOf(fs[i])

(* The listpack RedisWriteStream builds is one RedisLoadStream takes apart  *)
(* into the same ids, field names and values, after every entry: the field  *)
(* names are left out exactly when they are the first entry's.              *)
NodeReadable ==
    node.lp # <<>> =>
        LET es == LoadNode(node.master, node.lp)
            packed == SubSeq(sdone[1].entries, 1, sdone[2])
        IN  SameEntries(es, packed) /\ \A i \in DOMAIN es : es[i].fns = NamesOf(packed[i])

(* A stream that is loaded without an error has its entries that are not    *)
(* deleted with their values, its last id, and for every group its last id  *)
(* and each pending entry with its consumer, time and count.  Field names   *)
(* are lost (PutEntry), and of ardb's own dumps only those of streams       *)
(* without entries load (WriteStreamEnd).                                   *)
StreamRestored ==
    back.st = "ok" =>
        LET s == sdone[1] IN
        /\ SameEntries(back.entries, Kept(s, sdone[3])) /\ back.size = Len(back.entries)
        /\ back.last = s.last
        /\ [i \in DOMAIN back.groups |-> <<back.groups[i].name, back.groups[i].last>>]
             = [i \in DOMAIN s.groups |-> <<s.groups[i].name, s.groups[i].last>>]
        /\ \A i \in DOMAIN s.groups : Range(back.groups[i].pel) = Range(s.groups[i].pel)
=============================================================================
