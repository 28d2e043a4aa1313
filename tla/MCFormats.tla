----------------------------- MODULE MCFormats -----------------------------
(* The formats of snapshots and of packed values, and streams with their    *)
(* consumer groups, for TLC: each behaviour exercises one part.             *)
EXTENDS Dump, StreamDump, Packed, Ziplist, Listpack, Stream

CONSTANT Parts

VARIABLE part

ta == Name("a", 1, 0)
tb == Name("b", 2, 0)
tz == Name("zzz", 12, 6)
t9 == IntText(9)
s1 == Name("1.5", 3, 0)
s2 == Name("pos", 0, 0)
MCTexts == {Empty, ta, tz, Name("noise", 12, 0), Name("07", 2, 0)}
MCNumbers == {0, 7, 8, 15, 16, -16, -17, 255, 256, 511, 512, -512, -513, 524287, 524288, -524288, -524289, 1048574, 1048576}
MCScores == {s1, s2, Name("neg", 0, 0), Name("nan", 0, 0)}

Obj(k, type, val, es, ttl) == [key |-> k, type |-> type, val |-> val, els |-> es, ttl |-> ttl]
Db(n, os) == [db |-> n, name |-> IntText(n), objects |-> os]
One(x) == <<x, Empty>>
oString == Obj(ta, "string", IntText(17), <<>>, 4)
oList == Obj(tb, "list", Empty, <<One(ta), One(t9)>>, 0)
oLong == Obj(tb, "list", Empty, <<One(ta), One(t9), One(tz)>>, 0)
oText == Obj(tb, "string", ta, <<>>, 0)
oSet == Obj(ta, "set", Empty, <<One(t9), One(tz)>>, 0)
oHash == Obj(ta, "hash", Empty, <<<<ta, t9>>>>, 5)
oZSet == Obj(tb, "zset", Empty, <<<<ta, s1>>, <<tb, s2>>>>, 0)
oStream == Obj(tb, "stream", Empty, <<One(ta)>>, 0)
MCStores == {<<Db(0, <<oHash, oText>>)>>, <<Db(0, <<oString, oList>>)>>, <<Db(0, <<oSet, oZSet>>)>>, <<Db(0, <<oHash, oList>>), Db(1, <<oString>>)>>,
             <<Db(0, <<oHash, oStream>>), Db(2, <<oSet>>)>>, <<Db(0, <<oString, Obj(tb, "zset", Empty, <<<<t9, s1>>>>, 3)>>)>>}

F(o, enc) == [key |-> o.key, type |-> o.type, val |-> o.val, els |-> o.els, ttl |-> o.ttl, enc |-> enc]
oInts == Obj(ta, "set", Empty, <<One(t9), One(IntText(300))>>, 0)
oModule(es) == Obj(tb, "module", ta, es, 0)
MCForeign == {<<F(oString, 0), F(oZSet, 5)>>, <<F(oHash, 9), F(oLong, 14)>>, <<F(oHash, 13), F(oList, 10)>>,
              <<F(oSet, 2), F(oZSet, 12)>>, <<F(oInts, 11), F(oList, 1)>>, <<F(oModule(<<>>), 7), F(oString, 0)>>,
              <<F(oString, 0), F(oModule(<<One(ta)>>), 7)>>}
MCLiveMetas == {[type |-> "none", size |-> 0], [type |-> "string", size |-> 0], [type |-> "list", size |-> 1],
                [type |-> "list", size |-> 3], [type |-> "hash", size |-> 2], [type |-> "hash", size |-> -1], [type |-> "zset", size |-> 3]}

E(ms, seq, fs) == [id |-> <<ms, seq>>, fs |-> fs]
e1 == E(3, 1, <<<<ta, t9>>>>)
e2 == E(3, 2, <<<<ta, tb>>>>)
e3 == E(5, 0, <<<<tb, ta>>, <<ta, tb>>>>)
e4 == E(6, 0, <<<<tb, t9>>>>)
P(id, who, count) == [id |-> id, time |-> 2, count |-> count, owner |-> who]
G(name, last, ps, cs) == [name |-> name, last |-> last, pel |-> ps, consumers |-> cs]
g1 == G(ta, <<3, 2>>, <<P(<<3, 1>>, tb, 1), P(<<3, 2>>, t9, 2)>>, <<tb, t9>>)
g2 == G(tb, <<3, 1>>, <<P(<<3, 1>>, ta, 3)>>, <<ta, tb>>)
S(es, gs) == [entries |-> es, last |-> <<300, 2>>, groups |-> gs]
MCStreamCases == {S(es, gs) : es \in {<<>>, <<e1>>, <<e1, e2, e3>>, <<e3, e1>>, <<e1, e4, e2>>}, gs \in {<<>>, <<g1>>, <<g1, g2>>}}

ZV(id, len, int) == [id |-> id, len |-> len, int |-> int]
MCZValues == {ZV("i", 1, 0), ZV("s", 9, -1), ZV("m", 250, -1), ZV("l", 251, -1)}
Lp(int, n, id, len) == [int |-> int, n |-> n, id |-> id, len |-> len]
MCLpElements == {Lp(TRUE, n, "", 0) : n \in {63, -1, -1024, 1024, -8193, 1048576, -134217729}}
                  \cup {Lp(FALSE, 0, "a", 0), Lp(FALSE, 0, "b", 61), Lp(FALSE, 0, "c", 4093), Lp(FALSE, 0, "d", 1023)}
MCIsValues == {0, 5, -32, -33, 31, 32, 40, -2048, -2049, 2048, 5000}
Zm(id, len) == [id |-> id, len |-> len]
MCZmTexts == {Zm("a", 1), Zm("b", 4), Zm("c", 6), Zm("d", 253), Zm("e", 255), Zm("f", 252)}
MCZmKeys == {Zm("a", 1), Zm("b", 254)}
MCLzInputs == UNION {[1 .. n -> {0, 1}] : n \in {1, 3, 6, 8, 9}} \cup {[i \in 1 .. 14 |-> i % k] : k \in {1, 2, 3, 5}}
MCLzSlack == {-4, 0, 3}

MCFieldNames == [i \in Ids |-> IF i = 1 THEN <<1>> ELSE <<1, 2>>]
MCSymmetry == Permutations(Consumers)

pvars == <<zvars, lpvars, isvars, zmvars, lz>>

MCInit ==
    /\ part \in Parts
    /\ RdbInit /\ StreamInit /\ SDInit /\ ZInit /\ LpInit /\ IsInit /\ ZmInit /\ LzInit
    /\ IF part = "dump" THEN DumpInit ELSE DumpInit /\ store = <<Db(0, <<oString, oList>>)>>

MCNext ==
    /\ part' = part
    /\ \/ part = "prim" /\ RdbNext /\ UNCHANGED <<svars, dvars, sdvars, pvars>>
       \/ part = "dump" /\ DumpNext /\ UNCHANGED <<svars, rvars, sdvars, pvars>>
       \/ part = "streams" /\ SDNext /\ UNCHANGED <<svars, rvars, dvars, pvars>>
       \/ part = "ziplist" /\ ZNext /\ UNCHANGED <<svars, rvars, dvars, sdvars, lpvars, isvars, zmvars, lz>>
       \/ part = "listpack" /\ LpNext /\ UNCHANGED <<svars, rvars, dvars, sdvars, zvars, isvars, zmvars, lz>>
       \/ part = "intset" /\ IsNext /\ UNCHANGED <<svars, rvars, dvars, sdvars, zvars, lpvars, zmvars, lz>>
       \/ part = "zipmap" /\ ZmNext /\ UNCHANGED <<svars, rvars, dvars, sdvars, zvars, lpvars, isvars, lz>>
       \/ part = "lzf" /\ LzNext /\ UNCHANGED <<svars, rvars, dvars, sdvars, zvars, lpvars, isvars, zmvars>>
       \/ part = "groups" /\ StreamNext /\ UNCHANGED <<rvars, dvars, sdvars, pvars>>

MCSpec == MCInit /\ [][MCNext]_<<part, svars, rvars, dvars, sdvars, pvars>>

-----------------------------------------------------------------------------
(* What a snapshot or a DUMP holds is what the keys held, what is cut is    *)
(* refused, and no part of a key becomes visible without the rest           *)
(* (snapshot.cpp, both formats, streams included).                          *)
SnapshotsRight ==
    /\ PrimitivesRight /\ CutNoticed
    /\ SnapshotFaithful /\ NothingForeign /\ VisibleComplete /\ CutRefused /\ ChunksFaithful
    /\ NodeReadable /\ StreamRestored

(* The packed values of Redis stay what they are said to be under any       *)
(* sequence of operations (common/redis).                                   *)
PackedRight ==
    /\ ZiplistSound /\ ZiplistReads /\ ListpackSound /\ ListpackReads
    /\ IntsetSorted /\ IntsetFinds /\ ZipmapSound /\ ZipmapReads
    /\ LzRoundTrip /\ LzWithin
=============================================================================
