------------------------------ MODULE HashType ------------------------------
(* The hash commands of t_hash.cpp.  A value is a pair: <<"i", n>> a Data   *)
(* in integer encoding, <<"f", n>> one in floating point, <<"s", n>> any    *)
(* other text.  "compat" is redis_compatible: FALSE for the commands whose  *)
(* name ends in 2, which write without reading.                             *)
EXTENDS Store

F(k, f) == E(k, "field", f)

(* The text a value is sent to a client as: the encoding is not visible. *)
AsText(v) == IF v[1] = "f" THEN <<"i", v[2]>> ELSE v

(* Ardb::MergeHSet on the meta value and on a field.  A known number of     *)
(* fields becomes unknown.                                                  *)
MergeHSetMeta(m, n) ==
    IF m.type = "none" THEN Fresh("hash", n)
    ELSE IF m.type # "hash" \/ m.size = -1 THEN m
    ELSE [m EXCEPT !.size = -1]
MergeHSetField(kv, x, nx, v) ==
    IF ~Has(kv, x) THEN [done |-> TRUE, val |-> v]
    ELSE IF nx \/ kv[x] = v THEN [done |-> FALSE, val |-> kv[x]]
    ELSE [done |-> TRUE, val |-> v]

PutFields(kv, k, fvs) ==
    FoldLeft(LAMBDA s, fv : SetKeyValue(s, F(k, fv[1]), fv[2]), kv, fvs)

HMSet(kv, now, k, fvs, compat) ==
    LET c == CheckMeta(kv, now, k, "hash")
        m == IF compat THEN c.meta ELSE NoMeta
        \* the deletion of an expired key and the new entries are one batch
        base == IF compat THEN c.kv ELSE kv
        new == [m EXCEPT !.type = "hash", !.size = -1]
    IN  IF compat /\ ~c.ok THEN Res(kv, WrongType)
        ELSE Res(PutFields(SetKeyValue(base, M(k), new), k, fvs), Ok)

(* HSET2 and HSETNX2: the fields are put, or merged in, and the meta value  *)
(* is overwritten whatever was there.                                       *)
HSetBlind(kv, k, nx, fvs) ==
    LET fs == IF nx THEN SelectSeq(fvs, LAMBDA fv : ~Has(kv, F(k, fv[1]))) ELSE fvs
    IN  Res(SetKeyValue(PutFields(kv, k, fs), M(k), Fresh("hash", -1)), Ok)

(* HSET and HSETNX.  Everything is read before anything is merged; the      *)
(* outcome of the last field decides whether anything is written; neither   *)
(* the type nor the time to live of the key is looked at.                   *)
HSetRead(kv, k, nx, fvs) ==
    LET merged == [i \in DOMAIN fvs |-> MergeHSetField(kv, F(k, fvs[i][1]), nx, fvs[i][2])]
        new == [i \in DOMAIN fvs |-> <<fvs[i][1], merged[i].val>>]
        meta == MergeHSetMeta(MetaOf(kv, k), 1)
    IN  IF ~Last(merged).done THEN Res(kv, Num(0))
        ELSE Res(PutFields(SetKeyValue(kv, M(k), meta), k, new),
                 Num(IF Has(kv, F(k, fvs[1][1])) THEN 0 ELSE 1))

HSet(kv, now, k, nx, fvs, compat) ==
    IF compat THEN HSetRead(kv, k, nx, fvs) ELSE HSetBlind(kv, k, nx, fvs)

HMGet(kv, now, k, fs) ==
    IF ~Has(kv, M(k)) THEN Res(kv, Arr([i \in DOMAIN fs |-> Null]))
    ELSE IF MetaOf(kv, k).type # "hash" THEN Res(kv, WrongType)
    ELSE Res(kv, Arr([i \in DOMAIN fs |->
                 IF Has(kv, F(k, fs[i])) THEN Str(AsText(kv[F(k, fs[i])])) ELSE Null]))

HGet(kv, now, k, f) ==
    IF ~Has(kv, M(k)) \/ ~Has(kv, F(k, f)) THEN Res(kv, Null)
    ELSE IF MetaOf(kv, k).type # "hash" THEN Res(kv, WrongType)
    ELSE Res(kv, Str(AsText(kv[F(k, f)])))

HExists(kv, now, k, f) ==
    LET c == CheckMeta(kv, now, k, "hash")
    IN  IF ~c.ok THEN Res(kv, WrongType)
        ELSE Res(c.kv, Num(IF Has(c.kv, F(k, f)) THEN 1 ELSE 0))

HLen(kv, now, k) == ObjectLen(kv, now, k, "hash")

(* HGETALL, HKEYS, HVALS: "what" picks fields, values or both. *)
HIterate(kv, now, k, what) ==
    LET c == CheckMeta(kv, now, k, "hash")
        fs == Iterate(c.kv, k, "field")
        one(f) == (IF what # "vals" THEN <<Str(<<"i", f>>)>> ELSE <<>>)
                  \o (IF what # "keys" THEN <<Str(AsText(c.kv[F(k, f)]))>> ELSE <<>>)
    IN  IF ~c.ok THEN Res(kv, WrongType)
        ELSE IF c.meta.type = "none" THEN Res(c.kv, Arr(<<>>))
        ELSE Res(c.kv, Arr(FlattenSeq([i \in DOMAIN fs |-> one(fs[i])])))

(* Ardb::MergeHIncrby: what the engine's merge operator makes of a field. A *)
(* field it cannot add to is left as it is.                                 *)
MergeHIncrby(kv, x, float, n) ==
    LET v == kv[x]
    IN  IF ~Has(kv, x) THEN <<IF float THEN "f" ELSE "i", n>>
        ELSE IF float THEN (IF v[1] = "s" THEN v ELSE <<"f", v[2] + n>>)
        ELSE IF v[1] = "i" THEN <<"i", v[2] + n>> ELSE v

HIncrbyMerge(kv, k, f, float, n) ==
    LET s == SetKeyValue(kv, M(k), Fresh("hash", -1))
    IN  Res(SetKeyValue(s, F(k, f), MergeHIncrby(kv, F(k, f), float, n)), Ok)

HIncrbyRead(kv, k, f, float, n) ==
    LET m0 == MetaOf(kv, k)
        m == IF m0.type = "none" THEN Fresh("hash", 0) ELSE m0
        isnew == ~Has(kv, F(k, f))
        old == kv[F(k, f)]
        v == IF isnew THEN <<IF float THEN "f" ELSE "i", n>>
             ELSE <<IF float THEN "f" ELSE "i", old[2] + n>>
        meta == IF isnew /\ m.size >= 0 THEN [m EXCEPT !.size = @ + 1] ELSE m
    IN  IF m.type # "hash" THEN Res(kv, WrongType)
        ELSE IF ~isnew /\ (old[1] = "s" \/ (~float /\ old[1] # "i")) THEN Res(kv, WrongType)
        ELSE Res(SetKeyValue(SetKeyValue(kv, M(k), meta), F(k, f), v),
                 IF float THEN Str(AsText(v)) ELSE Num(v[2]))

HIncrby(kv, now, k, f, float, n, compat) ==
    IF compat THEN HIncrbyRead(kv, k, f, float, n) ELSE HIncrbyMerge(kv, k, f, float, n)

HDel(kv, now, k, fs, compat) ==
    LET m == MetaOf(kv, k)
        gone == {F(k, f) : f \in Range(fs)}
        \* Exists reads the store, not the batch: a field named twice counts twice
        n == Len(SelectSeq(fs, LAMBDA f : Has(kv, F(k, f))))
        s == RemoveKeys(kv, gone)
    IN  IF ~compat THEN Res(SetKeyValue(s, M(k), Fresh("hash", -1)), Ok)
        ELSE IF m.type = "none" THEN Res(kv, Num(0))
        ELSE IF m.type # "hash" THEN Res(kv, WrongType)
        ELSE IF m.size <= 0 THEN Res(s, Num(n))
        ELSE IF m.size = n THEN Res(RemoveKey(s, M(k)), Num(n))
        ELSE Res(SetKeyValue(s, M(k), [m EXCEPT !.size = @ - n]), Num(n))

=============================================================================
