-------------------------------- MODULE Dump -------------------------------
(* Snapshots (snapshot.cpp): a background thread writes the store to a      *)
(* file, in the format of Redis or in ardb's own, while clients go on       *)
(* writing; a file is loaded, whole or cut, into an empty store.  Redis     *)
(* files also come from Redis itself, with its packed encodings.  DUMP and  *)
(* RESTORE use the same code for one key.                                   *)
EXTENDS RdbCodec, FiniteSets

CONSTANTS Stores,      \* data sets: sequences of namespaces, each [db, name, objects]
          Foreign,     \* files of Redis: sequences of objects with an encoding
          LiveMetas,   \* what a client can make of a key while it is dumped
          MaxChunk     \* entries a chunk of ardb's format holds (1 MB)

VARIABLES store,    \* what the engine snapshot holds
          live,     \* the meta values the commands see, by namespace and key
          sv,       \* the thread that saves
          file,     \* the units written so far
          ld,       \* the thread that loads
          loaded    \* the entries it has written

dvars == <<store, live, sv, file, ld, loaded>>

AUX == B - 6
RESIZEDB == B - 5
EXPIRETIME_MS == B - 4
SELECTDB == B - 2
EOF == B - 1
Magic(fmt) == Name(fmt, 9, 0)
Checksum == Name("cksm", 8, 0)
Time(t) == [b |-> -3, s |-> IntText(t)]

-----------------------------------------------------------------------------
(* Entries.  An object is [key, type, val, els, ttl]: els are pairs of      *)
(* texts.  Its entries follow its meta value in the order of the engine.    *)
Ent(kind, key, idx, a, b) == [kind |-> kind, key |-> key, idx |-> idx, a |-> a, b |-> b,
                              type |-> "", size |-> 0, ttl |-> 0]
MetaEnt(o, size) == [Ent("meta", o.key, 0, o.val, Empty) EXCEPT !.type = o.type, !.size = size, !.ttl = o.ttl]

ElementKind == [list |-> "item", set |-> "member", hash |-> "field", zset |-> "sort", stream |-> "entry", string |-> "none"]

Elements(o) ==
    [i \in DOMAIN o.els |-> Ent(ElementKind[o.type], o.key, IF o.type = "list" THEN i - 1 ELSE 0, o.els[i][1], o.els[i][2])]
    \o IF o.type # "zset" THEN <<>>
       ELSE [i \in DOMAIN o.els |-> Ent("score", o.key, 0, o.els[i][1], o.els[i][2])]
Entries(o) == <<MetaEnt(o, Len(o.els))>> \o Elements(o)
AllEntries(ns) == FlattenSeq([i \in DOMAIN ns.objects |-> Entries(ns.objects[i])])
In(db, es) == {[db |-> db, e |-> es[i]] : i \in DOMAIN es}

Keyed(st) == {<<i, o>> \in UNION {{i} \X DOMAIN st[i].objects : i \in DOMAIN st} : TRUE}

-----------------------------------------------------------------------------
(* Saving, Snapshot::RedisSave. *)
WriteKeyType(type) ==
    CASE type = "string" -> 0 [] type = "list" -> 1 [] type = "set" -> 2
      [] type = "zset" -> 3 [] type = "hash" -> 4 [] type = "stream" -> 15

(* Ardb::ObjectLen as the dump calls it: the meta value is the one commands *)
(* see now, an error is a negative number, and only a count that is not     *)
(* known is taken from the snapshot.                                        *)
ObjectLen(i, e) ==
    LET m == live[<<i, e.key>>]
    IN  IF m.type = "none" THEN 0
        ELSE IF m.type # e.type THEN -2
        ELSE IF m.size >= 0 THEN m.size ELSE e.size

(* A meta value: an error when the previous key is not complete. *)
SaveMeta(s, e) ==
    LET n == ObjectLen(s.i, e)
    IN  IF s.left # 0 THEN [s EXCEPT !.err = -2, !.out = <<>>]
        ELSE [s EXCEPT !.cur = e.key, !.type = e.type, !.left = IF e.type = "string" THEN @ ELSE n,
                       !.out = (IF e.ttl > 0 THEN Bytes(<<EXPIRETIME_MS>>) \o <<Time(e.ttl)>> ELSE <<>>)
                               \o Bytes(<<WriteKeyType(e.type)>>) \o WriteRawString(e.key)
                               \o (IF e.type = "string" THEN WriteStringObject(e.a) ELSE WriteLen(n, 0))]

(* An element: skipped when it is not the current key's or one too many. *)
SaveElement(s, e) ==
    LET mine == s.cur = e.key /\ e.kind = ElementKind[s.type] /\ s.left > 0 /\ e.kind # "entry"
        out == CASE e.kind \in {"item", "member"} -> WriteStringObject(e.a)
                 [] e.kind = "field" -> WriteStringObject(e.a) \o WriteStringObject(e.b)
                 [] e.kind = "sort" -> WriteStringObject(e.a) \o WriteDouble(e.b)
                 [] OTHER -> <<>>
    IN  IF mine THEN [s EXCEPT !.left = @ - 1, !.out = out] ELSE [s EXCEPT !.out = <<>>]

SaveEntry(s, e) == IF e.kind = "meta" THEN SaveMeta(s, e) ELSE SaveElement(s, e)

(* ArdbFlushWriteBuffer: a chunk, compressed or, when that would add more   *)
(* than 4 bytes, not.                                                       *)
Chunk(es, plain) == <<[b |-> IF plain THEN 1 ELSE 2, s |-> Empty, es |-> es]>>

Idle == [st |-> "idle", fmt |-> "none", i |-> 0, j |-> 0, cur |-> Empty, type |-> "string", left |-> 0,
         err |-> 0, out |-> <<>>, buf |-> <<>>, calm |-> TRUE, full |-> FALSE]

StartLoad == [st |-> "ready", p |-> 1, db |-> 0, cut |-> 0, kind |-> "none", lost |-> {}]

DumpInit ==
    /\ store \in Stores
    /\ live = [x \in {<<i, store[i].objects[j].key>> : <<i, j>> \in Keyed(store)} |->
                  LET o == CHOOSE o \in Range(store[x[1]].objects) : o.key = x[2]
                  IN  [type |-> o.type, size |-> Len(o.els)]]
    /\ sv = Idle
    /\ file = <<>>
    /\ ld = [StartLoad EXCEPT !.st = "idle"]
    /\ loaded = {}

(* Snapshot::PrepareSave and the header. *)
BeginSave(fmt) ==
    /\ sv.st = "idle" /\ ld.st = "idle"
    /\ sv' = [Idle EXCEPT !.st = "run", !.fmt = fmt, !.i = 1]
    /\ file' = <<Chars(Magic(fmt))>>
    /\ UNCHANGED <<store, live, ld, loaded>>

(* A client writes to a key that is being dumped; the snapshot stays.  It   *)
(* deletes the key, replaces it, or changes its length.                     *)
LiveWrite ==
    /\ sv.st = "run" /\ sv.fmt = "redis" /\ sv.calm
    /\ \E x \in DOMAIN live, m \in LiveMetas : m # live[x] /\ live' = [live EXCEPT ![x] = m]
    /\ sv' = [sv EXCEPT !.calm = FALSE]
    /\ UNCHANGED <<store, file, ld, loaded>>

(* The disk is full: every write fails from now on. *)
DiskFull ==
    /\ sv.st = "run" /\ ~sv.full /\ sv.fmt = "redis"
    /\ sv' = [sv EXCEPT !.full = TRUE]
    /\ UNCHANGED <<store, live, file, ld, loaded>>

Ns == store[sv.i]

(* The next namespace; DUMP_CHECK_WRITE assigns the result of every write   *)
(* to err, also here.                                                       *)
SaveSelect ==
    /\ sv.st = "run" /\ sv.fmt = "redis" /\ sv.j = 0 /\ sv.i <= Len(store)
    /\ sv' = IF sv.full THEN [sv EXCEPT !.err = -1, !.i = Len(store) + 1]
             ELSE [sv EXCEPT !.err = 0, !.j = 1, !.cur = Empty, !.type = "string", !.left = 0]
    /\ file' = IF sv.full THEN file ELSE file \o Bytes(<<SELECTDB>>) \o WriteLen(Ns.db, 0)
    /\ UNCHANGED <<store, live, ld, loaded>>

SaveStep ==
    /\ sv.st = "run" /\ sv.fmt = "redis" /\ sv.j > 0
    /\ \E es \in {AllEntries(Ns)} :
       IF sv.j > Len(es) THEN sv' = [sv EXCEPT !.i = @ + 1, !.j = 0] /\ UNCHANGED file
       ELSE \E s \in {SaveEntry(sv, es[sv.j])} :
            LET t == IF sv.full /\ s.out # <<>> THEN [sv EXCEPT !.err = -1] ELSE s
            IN  IF t.err < 0
                  THEN sv' = [t EXCEPT !.i = @ + 1, !.j = 0, !.out = <<>>] /\ UNCHANGED file
                ELSE sv' = [t EXCEPT !.j = @ + 1, !.out = <<>>] /\ file' = file \o t.out
    /\ UNCHANGED <<store, live, ld, loaded>>

(* The end: the trailer is written without a look at the result. *)
SaveEnd ==
    /\ sv.st = "run" /\ sv.fmt = "redis" /\ sv.i > Len(store)
    /\ IF sv.err < 0 THEN sv' = [sv EXCEPT !.st = "failed"] /\ UNCHANGED file
       ELSE /\ sv' = [sv EXCEPT !.st = "done"]
            /\ file' = IF sv.full THEN file ELSE file \o Bytes(<<EOF>>) \o <<Chars(Checksum)>>
    /\ UNCHANGED <<store, live, ld, loaded>>

(* Snapshot::ArdbSave: raw entries in chunks, one namespace after the       *)
(* other, then the end.                                                     *)
ArdbSave ==
    /\ sv.st = "run" /\ sv.fmt = "ardb" /\ sv.i <= Len(store)
    /\ LET es == AllEntries(Ns)
           buf == IF sv.j > 0 /\ sv.j <= Len(es) THEN Append(sv.buf, es[sv.j]) ELSE sv.buf
           flush == buf # <<>> /\ (Len(buf) >= MaxChunk \/ sv.j > Len(es))
       IN  /\ \E plain \in BOOLEAN : 
                 file' = file \o (IF sv.j = 0 THEN Bytes(<<3>>) \o WriteStringObject(Ns.name) ELSE <<>>)
                              \o (IF flush THEN Chunk(buf, plain) ELSE <<>>)
           /\ sv' = [sv EXCEPT !.buf = IF flush THEN <<>> ELSE buf,
                               !.i = IF sv.j > Len(es) THEN @ + 1 ELSE @,
                               !.j = IF sv.j > Len(es) THEN 0 ELSE @ + 1]
    /\ UNCHANGED <<store, live, ld, loaded>>

ArdbSaveEnd ==
    /\ sv.st = "run" /\ sv.fmt = "ardb" /\ sv.i > Len(store)
    /\ sv' = [sv EXCEPT !.st = "done"]
    /\ file' = file \o Bytes(<<EOF>>) \o <<Chars(Checksum)>>
    /\ UNCHANGED <<store, live, ld, loaded>>

-----------------------------------------------------------------------------
(* Loading.  The element loops read until a count is used up or a read      *)
(* fails; what was put by then stays.  Each round takes a unit or fails, so *)
(* a count beyond the file's length makes no difference.                    *)
Rounds(f, n) == [i \in 1 .. (IF n < 0 \/ n > Len(f) + 2 THEN Len(f) + 2 ELSE n) |-> i]
Start(p) == [st |-> "ok", p |-> p, q |-> <<>>]

ReadStrings(f, p, n) ==
    FoldLeft(LAMBDA a, i :
                LET add(r) == IF r.st # "ok" THEN [a EXCEPT !.st = r.st]
                              ELSE [a EXCEPT !.p = r.p, !.q = Append(@, r.t)]
                IN  IF a.st # "ok" THEN a ELSE add(ReadString(f, a.p)),
             Start(p), Rounds(f, n))

(* A member and its score, as text or (ZSET_2) in binary. *)
ReadScore(f, p, binary) ==
    IF ~binary THEN ReadDoubleValue(f, p)
    ELSE IF p <= Len(f) /\ f[p].b = -5 THEN [ok |-> TRUE, v |-> f[p].s, p |-> p + 1]
    ELSE [ok |-> FALSE, v |-> Empty, p |-> p]
ReadScored(f, p, n, binary) ==
    FoldLeft(LAMBDA a, i :
                LET score(r, d) == IF ~d.ok THEN [a EXCEPT !.st = "fail"]
                                   ELSE [a EXCEPT !.p = d.p, !.q = @ \o <<r.t, d.v>>]
                    add(r) == IF r.st # "ok" THEN [a EXCEPT !.st = r.st]
                              ELSE score(r, ReadScore(f, r.p, binary))
                IN  IF a.st # "ok" THEN a ELSE add(ReadString(f, a.p)),
             Start(p), Rounds(f, n))

Pairs(q) == [i \in 1 .. Len(q) \div 2 |-> <<q[2 * i - 1], q[2 * i]>>]
Single(q) == [i \in DOMAIN q |-> <<q[i], Empty>>]

(* What a loader leaves: the elements, then, when all was read, the meta    *)
(* value with the length that was announced.                                *)
Object(key, type, val, els, ttl) == [key |-> key, type |-> type, val |-> val, els |-> els, ttl |-> ttl]
Result(st, p, o, size) ==
    [st |-> st, p |-> p, puts |-> Elements(o) \o (IF st = "ok" THEN <<MetaEnt(o, size)>> ELSE <<>>)]
Stop(st, p) == [st |-> st, p |-> p, puts |-> <<>>]

LoadString(f, p, key, ttl) ==
    LET put(r) == Result(r.st, r.p, Object(key, "string", r.t, <<>>, ttl), 0)
    IN  put(ReadString(f, p))

(* A number of elements is announced, then they are read. *)
Announced(p, n, read) == IF Narrow(n.v) = LENERR THEN Stop("fail", p) ELSE read
Loaded(r, key, type, els, ttl, size) == Result(r.st, r.p, Object(key, type, Empty, els, ttl), size)

LoadListSet(f, p, key, ttl, type) ==
    LET load(n) == LET put(r) == Loaded(r, key, type, Single(r.q), ttl, Narrow(n.v))
                   IN  Announced(p, n, put(ReadStrings(f, n.p, Narrow(n.v))))
    IN  load(ReadLen(f, p))

LoadZSet(f, p, key, ttl, binary) ==
    LET load(n) == LET put(r) == Loaded(r, key, "zset", Pairs(r.q), ttl, Narrow(n.v))
                   IN  Announced(p, n, put(ReadScored(f, n.p, Narrow(n.v), binary)))
    IN  load(ReadLen(f, p))

(* ReadString for a field, then for its value. *)
LoadHash(f, p, key, ttl) ==
    LET load(n) == LET put(r) == Loaded(r, key, "hash", Pairs(r.q), ttl, Narrow(n.v))
                   IN  Announced(p, n, put(ReadStrings(f, n.p, 2 * Narrow(n.v))))
    IN  load(ReadLen(f, p))

(* A list of ziplists: the length is the number of their elements. *)
LoadQuickList(f, p, key, ttl) ==
    LET load(n) == LET put(r) == LET q == FlattenSeq([i \in DOMAIN r.q |-> r.q[i].q])
                                 IN  Loaded(r, key, "list", Single(q), ttl, Len(q))
                   IN  Announced(p, n, put(ReadStrings(f, n.p, Narrow(n.v))))
    IN  load(ReadLen(f, p))

RedisLoadListZipList(q, key, ttl) == [o |-> Object(key, "list", Empty, Single(q), ttl), size |-> Len(q)]
RedisLoadSetIntSet(q, key, ttl) == [o |-> Object(key, "set", Empty, Single(q), ttl), size |-> Len(q)]
(* Member and score alternate; a member without a score is dropped. *)
RedisLoadZSetZipList(q, key, ttl) == [o |-> Object(key, "zset", Empty, Pairs(q), ttl), size |-> Len(q) \div 2]
RedisLoadHashZipList(q, key, ttl) == [o |-> Object(key, "hash", Empty, Pairs(q), ttl), size |-> Len(q) \div 2]
LoadZipMap(q, key, ttl) == [o |-> Object(key, "hash", Empty, Pairs(q), ttl), size |-> Len(Pairs(q))]

Unpack(q, key, ttl, type) ==
    CASE type = 9 -> LoadZipMap(q, key, ttl)
      [] type = 10 -> RedisLoadListZipList(q, key, ttl)
      [] type = 11 -> RedisLoadSetIntSet(q, key, ttl)
      [] type = 12 -> RedisLoadZSetZipList(q, key, ttl)
      [] type = 13 -> RedisLoadHashZipList(q, key, ttl)
LoadPacked(f, p, key, ttl, type) ==
    LET put(r, x) == IF r.st # "ok" THEN Stop(r.st, p) ELSE Result("ok", r.p, x.o, x.size)
        unpack(r) == put(r, Unpack(r.t.q, key, ttl, type))
    IN  unpack(ReadString(f, p))

(* RedisLoadCheckModuleValue: skips a module's value, an opcode and an      *)
(* argument at a time.  At the end of the file it never stops, and a float  *)
(* that was read is taken for one that was not.                             *)
RECURSIVE RedisLoadCheckModuleValue(_, _)
RedisLoadCheckModuleValue(f, p) ==
    LET number(arg) == IF arg.v = Minus1 THEN Stop("fail", p) ELSE RedisLoadCheckModuleValue(f, arg.p)
        text(str) == IF str.st # "ok" THEN Stop(str.st, p) ELSE RedisLoadCheckModuleValue(f, str.p)
        float(q) == q <= Len(f) /\ f[q].b = -5
        skip(op) == CASE op.v = 0 -> Stop("ok", op.p)
                      [] op.v \in {1, 2} -> number(ReadLen(f, op.p))
                      [] op.v = 5 -> text(ReadString(f, op.p))
                      [] op.v \in {3, 4} -> IF float(op.p) THEN Stop("fail", p) ELSE RedisLoadCheckModuleValue(f, op.p)
                      [] op.p > Len(f) -> Stop("hang", p)
                      [] OTHER -> RedisLoadCheckModuleValue(f, op.p)
    IN  skip(ReadLen(f, p))

(* ObjectIO::RedisLoadObject.  The dump writes no elements for a stream:    *)
(* what RedisLoadStream reads after the length is the rest of the file.     *)
RedisLoadObject(f, p, type, key, ttl) ==
    CASE type = 0 -> LoadString(f, p, key, ttl)
      [] type \in {1, 2} -> LoadListSet(f, p, key, ttl, IF type = 1 THEN "list" ELSE "set")
      [] type \in {3, 5} -> LoadZSet(f, p, key, ttl, type = 5)
      [] type = 4 -> LoadHash(f, p, key, ttl)
      [] type \in 9 .. 13 -> LoadPacked(f, p, key, ttl, type)
      [] type = 14 -> LoadQuickList(f, p, key, ttl)
      [] type = 6 -> Stop("fail", p)
      [] type = 7 -> RedisLoadCheckModuleValue(f, ReadLen(f, p).p)
      [] type = 15 -> Stop("garbled", p)
      [] OTHER -> Stop("abort", p)

(* A file as Redis writes it (external): auxiliary fields, the sizes of the *)
(* database, and objects in the encoding o.enc.                             *)
Blob(q) == [Name("blob", LzfMin, 0) EXCEPT !.q = q]
Flat(els) == FlattenSeq([i \in DOMAIN els |-> els[i]])
Firsts(els) == [i \in DOMAIN els |-> els[i][1]]
ForeignBody(o) ==
    CASE o.enc = 0 -> WriteRawString(o.val)
      [] o.enc \in {1, 2} -> WriteLen(Len(o.els), 0) \o FlattenSeq([i \in DOMAIN o.els |-> WriteRawString(o.els[i][1])])
      [] o.enc = 5 -> WriteLen(Len(o.els), 0)
                      \o FlattenSeq([i \in DOMAIN o.els |-> WriteRawString(o.els[i][1]) \o <<[b |-> -5, s |-> o.els[i][2]]>>])
      [] o.enc \in {9, 12, 13} -> WriteRawString(Blob(Flat(o.els)))
      [] o.enc \in {10, 11} -> WriteRawString(Blob(Firsts(o.els)))
      [] o.enc = 14 -> WriteLen(2, 0) \o WriteRawString(Blob(<<Head(o.els)[1]>>)) \o WriteRawString(Blob(Firsts(Tail(o.els))))
      [] o.enc = 7 -> Bytes(<<1, 1, 3, 5>>) \o WriteRawString(o.val)
                      \o (IF o.els = <<>> THEN <<>> ELSE Bytes(<<4>>) \o <<[b |-> -5, s |-> o.val]>>) \o Bytes(<<0>>)
ForeignFile(objects) ==
    <<Chars(Magic("redis"))>> \o Bytes(<<AUX>>) \o WriteRawString(Name("ver", 3, 0)) \o WriteRawString(IntText(5))
    \o Bytes(<<SELECTDB>>) \o WriteLen(0, 0)
    \o Bytes(<<RESIZEDB>>) \o WriteLen(Len(objects), 0) \o WriteLen(0, 0)
    \o FlattenSeq([i \in DOMAIN objects |->
          (IF objects[i].ttl > 0 THEN Bytes(<<EXPIRETIME_MS>>) \o <<Time(objects[i].ttl)>> ELSE <<>>)
          \o Bytes(<<objects[i].enc>>) \o WriteRawString(objects[i].key) \o ForeignBody(objects[i])])
    \o Bytes(<<EOF>>) \o <<Chars(Checksum)>>

ReceiveForeign ==
    /\ sv.st = "idle" /\ ld.st = "idle"
    /\ \E os \in Foreign :
          /\ store' = <<[db |-> 0, name |-> IntText(0), objects |-> os]>>
          /\ file' = ForeignFile(os)
    /\ sv' = [Idle EXCEPT !.st = "done", !.fmt = "redis"]
    /\ UNCHANGED <<live, ld, loaded>>

(* Snapshot::Load: the type of the file is in its first units.  A copy of   *)
(* the file may have lost its end.                                          *)
BeginLoad ==
    /\ sv.st = "done" /\ ld.st = "idle"
    /\ \E c \in 0 .. Len(file) :
          /\ file' = Cut(file, c)
          /\ ld' = [StartLoad EXCEPT !.cut = c, !.st = IF c = Len(file) THEN "fail" ELSE "run", !.p = 2, !.kind = sv.fmt]
    /\ UNCHANGED <<store, live, sv, loaded>>

(* A step of the loop of Snapshot::RedisLoad: ReadType, and what follows    *)
(* the opcode or the type.                                                  *)
LoadTo(d, st, p) == [d |-> [d EXCEPT !.st = st, !.p = p], puts |-> <<>>]
LoadSelect(d, n) == IF Narrow(n.v) = LENERR THEN LoadTo(d, "fail", d.p) ELSE LoadTo([d EXCEPT !.db = n.v], "run", n.p)
LoadResize(d, n) ==
    LET second(m) == IF Narrow(n.v) = LENERR \/ Narrow(m.v) = LENERR THEN LoadTo(d, "fail", d.p) ELSE LoadTo(d, "run", m.p)
    IN  second(ReadLen(file, n.p))
\* "return false" is the code of success
LoadAux(d, ax) == IF ax.st # "ok" THEN LoadTo(d, "ok", d.p) ELSE LoadTo(d, "run", ax.p)
LoadKey(d, type, ttl, key) ==
    LET put(o) == [LoadTo(d, IF o.st = "ok" THEN "run" ELSE o.st, o.p) EXCEPT !.puts = o.puts]
    IN  IF key.st # "ok" THEN LoadTo(d, key.st, d.p) ELSE put(RedisLoadObject(file, key.p, type, key.t, ttl))
RedisLoadStep(d) ==
    LET p == d.p
        end == p > Len(file)
        op == file[p].b
        timed == ~end /\ op = EXPIRETIME_MS
        tp == IF timed THEN p + 2 ELSE p
    IN  IF end \/ tp > Len(file) THEN LoadTo(d, "fail", p)
        ELSE IF file[tp].b < 0 THEN LoadTo(d, "garbled", p)
        ELSE IF op = EOF THEN LoadTo(d, IF p + 1 <= Len(file) THEN "ok" ELSE "fail", p)
        ELSE IF op = SELECTDB THEN LoadSelect(d, ReadLen(file, p + 1))
        ELSE IF op = RESIZEDB THEN LoadResize(d, ReadLen(file, p + 1))
        ELSE IF op = AUX THEN LoadAux(d, ReadStrings(file, p + 1, 2))
        ELSE LoadKey(d, file[tp].b, IF timed THEN file[p + 1].s.n ELSE 0, ReadString(file, tp + 1))

RedisLoad ==
    /\ ld.st = "run" /\ ld.kind = "redis"
    /\ \E r \in {RedisLoadStep(ld)} : ld' = r.d /\ loaded' = loaded \cup In(ld.db, r.puts)
    /\ UNCHANGED <<store, live, sv, file>>

(* ArdbLoadChunk: a chunk that was not compressed is read into the space    *)
(* behind the write index, which does not move: nothing is found in it.     *)
ArdbLoadChunk(es, plain) == IF plain THEN <<>> ELSE es

(* Snapshot::ArdbLoad; a wrong checksum is only logged. *)
ArdbLoad ==
    /\ ld.st = "run" /\ ld.kind = "ardb"
    /\ LET p == ld.p
           ns == ReadString(file, p + 1)
           op == file[p].b
           es == IF op \in {1, 2} THEN file[p].es ELSE <<>>
       IN  IF p > Len(file) THEN ld' = [ld EXCEPT !.st = "fail"] /\ UNCHANGED loaded
           ELSE IF op = EOF THEN ld' = [ld EXCEPT !.st = IF p < Len(file) THEN "ok" ELSE "fail"] /\ UNCHANGED loaded
           ELSE IF op = 3
             THEN ld' = (IF ns.st = "ok" THEN [ld EXCEPT !.p = ns.p, !.db = ns.t.n] ELSE [ld EXCEPT !.st = "fail"]) /\ UNCHANGED loaded
           ELSE /\ loaded' = loaded \cup In(ld.db, ArdbLoadChunk(es, op = 1))
                /\ ld' = [ld EXCEPT !.p = p + 1, !.lost = IF op = 1 THEN @ \cup In(ld.db, es) ELSE @]
    /\ UNCHANGED <<store, live, sv, file>>

(* DUMP and RESTORE: ObjectBuffer::RedisSave walks the entries of one key   *)
(* under its lock and seals them with a version and a checksum.             *)
Seal(f) == f \o Bytes(<<9>>) \o <<[b |-> -6, s |-> Empty, q |-> f]>>
CheckReadPayload(f) == Len(f) >= 2 /\ Last(f).b = -6 /\ Last(f).q = SubSeq(f, 1, Len(f) - 2)
ObjectBufferSave(o) ==
    Seal(Bytes(<<WriteKeyType(o.type)>>)
         \o (IF o.type = "string" THEN WriteStringObject(o.val)
             ELSE IF o.type = "stream" THEN WriteLen(0, 8)
             ELSE WriteLen(Len(o.els), 0)
                  \o FlattenSeq([i \in DOMAIN o.els |->
                        WriteStringObject(o.els[i][1])
                        \o CASE o.type = "hash" -> WriteStringObject(o.els[i][2])
                             [] o.type = "zset" -> WriteDouble(o.els[i][2])
                             [] OTHER -> <<>>])))

DumpRestore ==
    /\ sv.st = "idle" /\ ld.st = "idle" /\ Len(store) = 1
    /\ \E i \in DOMAIN store[1].objects : LET o == store[1].objects[i] IN
       \E c \in 0 .. Len(ObjectBufferSave(o)) :
       \E f \in {Cut(ObjectBufferSave(o), c)} :
              /\ file' = f
              /\ store' = <<[store[1] EXCEPT !.objects = <<o>>]>>
              /\ IF ~CheckReadPayload(f) THEN ld' = [StartLoad EXCEPT !.st = "fail", !.cut = c] /\ UNCHANGED loaded
                 ELSE \E r \in {RedisLoadObject(f, 2, f[1].b, o.key, o.ttl)} :
                      /\ ld' = [StartLoad EXCEPT !.st = r.st, !.cut = c, !.kind = "restore"]
                      /\ loaded' = In(store[1].db, r.puts)
    /\ UNCHANGED <<live, sv>>

DumpNext ==
    \/ \E fmt \in {"redis", "ardb"} : BeginSave(fmt)
    \/ LiveWrite \/ DiskFull \/ SaveSelect \/ SaveStep \/ SaveEnd \/ ArdbSave \/ ArdbSaveEnd
    \/ ReceiveForeign \/ BeginLoad \/ RedisLoad \/ ArdbLoad \/ DumpRestore

-----------------------------------------------------------------------------
Streams == \E i \in DOMAIN store : \E o \in Range(store[i].objects) : o.type = "stream"
Distinct == \A i, j \in DOMAIN store : i # j => store[i].db # store[j].db
IsModule(o) == o.type = "module"
ToLoad(ns) == FlattenSeq([i \in DOMAIN ns.objects |-> IF IsModule(ns.objects[i]) THEN <<>> ELSE Entries(ns.objects[i])])
Expected == UNION {In(store[i].db, ToLoad(store[i])) : i \in DOMAIN store}
RedisFile == ld.kind \in {"redis", "restore"}

(* A file of Redis that is loaded without an error gives every key with its *)
(* type, its elements in their order and its time to live: a file of Redis  *)
(* in any encoding, a snapshot of ardb during which no client wrote, the    *)
(* payload of DUMP.  Streams are left out: RedisSave writes only their      *)
(* length.  Namespaces whose name is not a number all become database 0.    *)
SnapshotFaithful ==
    ld.st = "ok" /\ ld.cut = 0 /\ RedisFile /\ sv.calm /\ ~Streams /\ Distinct => loaded = Expected

(* Whatever clients write while RedisSave runs, the loader never takes the  *)
(* bytes of one key for elements of another: the length comes from the live *)
(* store and the elements from the snapshot, and the check before the next  *)
(* meta value must stop the save when they disagree.                        *)
NothingForeign ==
    ld.cut = 0 /\ RedisFile /\ ~Streams => \A x \in loaded : x.e.kind # "meta" => x \in Expected

(* A key is visible only with all its elements, also in the middle of a     *)
(* load and after one that failed: the meta value is written last.  Only    *)
(* the last key of a file that was cut may end in an empty string.          *)
VisibleComplete ==
    RedisFile /\ sv.calm /\ ~Streams /\ Distinct =>
        \A x \in loaded : x.e.kind = "meta" =>
            \/ \A y \in Expected : y.db = x.db /\ y.e.key = x.e.key => y \in loaded
            \/ ld.p > Len(file)

(* A file that lost its end is never reported as loaded, in either format.  *)
(* One that ends inside an auxiliary field is: RedisLoad returns false, the *)
(* code of success.                                                         *)
CutRefused == ld.st = "ok" /\ ld.cut > 0 => ld.kind = "redis" /\ file[ld.p].b = AUX

(* ardb's own format: a load that succeeds restores every entry except      *)
(* those in chunks that snappy could not compress.                          *)
ChunksFaithful == ld.kind = "ardb" /\ ld.st = "ok" => loaded = Expected \ ld.lost
=============================================================================
