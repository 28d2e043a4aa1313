------------------------------ MODULE SetType ------------------------------
(* The set commands of t_set.cpp.  A member is a number, in the order of    *)
(* Data::Compare (integers first, then text).  The meta value of a set also *)
(* holds a lower and an upper bound of its members, which SINTER and SDIFF  *)
(* use to cut their iterations short and SPOP and SUNION to start them.     *)
EXTENDS Store

Mb(k, e) == E(k, "member", e)

PutMembers(kv, k, S) == [x \in {Mb(k, e) : e \in S} |-> Nil] @@ kv

(* SADD adds the members that are not there, each once; SADD2 puts them all *)
(* and overwrites the meta value.                                           *)
SAdd(kv, now, k, es, compat) ==
    LET c == CheckMeta(kv, now, k, "set")
        added == {e \in Range(es) : ~Has(c.kv, Mb(k, e))}
        n == Cardinality(added)
        bounds == FoldSet(LAMBDA e, m : SetMinMaxData(m, e), c.meta, added)
        meta == IF c.meta.type = "none" THEN [bounds EXCEPT !.type = "set", !.size = n]
                ELSE IF c.meta.size >= 0 THEN [bounds EXCEPT !.size = @ + n]
                ELSE bounds
    IN  IF ~compat THEN Res(SetKeyValue(PutMembers(kv, k, Range(es)), M(k), Fresh("set", -1)), Ok)
        ELSE IF ~c.ok THEN Res(kv, WrongType)
        ELSE Res(SetKeyValue(PutMembers(c.kv, k, added), M(k), meta), Num(n))

SCard(kv, now, k) == ObjectLen(kv, now, k, "set")

(* No look at the meta value. *)
SIsMember(kv, now, k, e) == Res(kv, Num(IF Has(kv, Mb(k, e)) THEN 1 ELSE 0))

AsReply(es) == Arr([i \in DOMAIN es |-> Str(es[i])])

(* SMEMBERS does not look at the time to live, and saves count and bounds   *)
(* when neither bound is known.                                             *)
SMembers(kv, now, k) ==
    LET m == MetaOf(kv, k)
        es == Iterate(kv, k, "member")
        counted == [m EXCEPT !.size = Len(es), !.min = es[1], !.max = Last(es)]
    IN  IF m.type = "none" THEN Res(kv, Arr(<<>>))
        ELSE IF m.type # "set" THEN Res(kv, WrongType)
        ELSE IF m.min = Nil /\ m.max = Nil /\ es # <<>>
          THEN Res(SetKeyValue(kv, M(k), counted), AsReply(es))
        ELSE Res(kv, AsReply(es))

(* SMOVE removes the member from the destination (ks[3]), where it meant    *)
(* the source (ks[2]), and puts it there again when it was missing.  The    *)
(* count of the source goes down all the same.                              *)
SMove(kv, now, src, dst, e) ==
    LET s == MetaOf(kv, src)
        d == MetaOf(kv, dst)
        kv1 == RemoveKey(kv, Mb(dst, e))
        kv2 == IF s.size <= 0 THEN kv1
               ELSE IF s.size = 1 THEN RemoveKey(kv1, M(src))
               ELSE SetKeyValue(kv1, M(src), [s EXCEPT !.size = @ - 1])
        wide == SetMinMaxData(d, e)
        d1 == IF d.type = "none" THEN [wide EXCEPT !.type = "set", !.size = 1]
              ELSE IF d.size > 0 THEN [wide EXCEPT !.size = @ + 1]
              ELSE wide
    IN  IF s.type \notin {"none", "set"} \/ d.type \notin {"none", "set"} THEN Res(kv, WrongType)
        ELSE IF s.type = "none" \/ ~Has(kv, Mb(src, e)) THEN Res(kv, Num(0))
        ELSE IF Has(kv, Mb(dst, e)) THEN Res(kv2, Num(1))
        ELSE Res(SetKeyValue(SetKeyValue(kv2, Mb(dst, e), Nil), M(dst), d1), Num(1))

(* SPOP takes the first members at or after the lower bound.  The meta      *)
(* value goes only when its count reaches 0.                                *)
SPopOf(kv, c, k, withcount, count) ==
    LET es == SelectSeq(Iterate(c.kv, k, "member"), LAMBDA e : c.meta.min = Nil \/ e >= c.meta.min)
        n == IF Len(es) < count THEN Len(es) ELSE count
        popped == SubSeq(es, 1, n)
        rest == RemoveKeys(c.kv, {Mb(k, e) : e \in Range(popped)})
        left == IF c.meta.size > 0 THEN [c.meta EXCEPT !.size = @ - n] ELSE c.meta
        meta == IF Len(es) > n THEN SetMinData(left, es[n + 1], FALSE) ELSE left
        reply == IF withcount THEN AsReply(popped) ELSE IF n = 0 THEN Null ELSE Str(popped[1])
    IN  IF ~c.ok THEN Res(kv, WrongType)
        ELSE IF c.meta.type = "none" THEN Res(c.kv, IF withcount THEN Arr(<<>>) ELSE Null)
        ELSE IF c.meta.size > 0 /\ n >= c.meta.size THEN Res(RemoveKey(rest, M(k)), reply)
        ELSE Res(SetKeyValue(rest, M(k), meta), reply)
SPop(kv, now, k, withcount, count) == SPopOf(kv, CheckMeta(kv, now, k, "set"), k, withcount, count)

(* SRANDMEMBER returns the first members; a negative count is filled up     *)
(* with random ones, here the least or the greatest ("high").               *)
SRandMember(kv, now, k, withcount, count, high) ==
    LET c == CheckMeta(kv, now, k, "set")
        es == Iterate(c.kv, k, "member")
        want == IF count < 0 THEN -count ELSE count
        got == SubSeq(es, 1, IF Len(es) < want THEN Len(es) ELSE want)
        pad == [i \in 1 .. want - Len(got) |-> IF high THEN Last(got) ELSE got[1]]
    IN  IF withcount /\ count = 0 THEN Res(kv, Arr(<<>>))
        ELSE IF ~c.ok THEN Res(kv, WrongType)
        ELSE IF ~withcount THEN Res(c.kv, IF c.meta.type = "none" \/ es = <<>> THEN Null ELSE Str(es[1]))
        ELSE IF c.meta.type = "none" THEN Res(c.kv, Arr(<<>>))
        ELSE Res(c.kv, AsReply(IF count < 0 /\ got # <<>> THEN got \o pad ELSE got))

(* SREM counts a member named twice twice (Exists does not see the batch);  *)
(* SREM2 overwrites the meta value.                                         *)
SRem(kv, now, k, es, compat) ==
    LET c == CheckMeta(kv, now, k, "set")
        n == Len(SelectSeq(es, LAMBDA e : Has(c.kv, Mb(k, e))))
        s == RemoveKeys(c.kv, {Mb(k, e) : e \in Range(es)})
        size == IF c.meta.size > n THEN c.meta.size - n ELSE 0
    IN  IF ~compat
          THEN Res(SetKeyValue(RemoveKeys(kv, {Mb(k, e) : e \in Range(es)}), M(k), Fresh("set", -1)), Ok)
        ELSE IF ~c.ok THEN Res(kv, WrongType)
        ELSE IF c.meta.type = "none" \/ n = 0 THEN Res(c.kv, Num(0))
        ELSE IF c.meta.size <= 0 THEN Res(s, Num(n))
        ELSE IF size = 0 THEN Res(RemoveKey(s, M(k)), Num(n))
        ELSE Res(SetKeyValue(s, M(k), [c.meta EXCEPT !.size = size]), Num(n))

---------------------------------------------------------------------------
(* SDIFF, SINTER and SUNION.  "how" is "reply", "store" or "count"; a       *)
(* destination must be a set or missing.                                    *)

(* The metas of the sources, with their bounds filled in and saved one      *)
(* after the other; a key that is not a set, or one without elements whose  *)
(* bounds are not known, fails.                                             *)
FetchBounds(kv, ks) ==
    FoldLeft(LAMBDA acc, k :
                 LET m == MetaOf(acc.kv, k)
                     g == GetMinMax(acc.kv, k, m)
                 IN  IF ~acc.ok \/ m.type \notin {"none", "set"} \/ ~g.ok THEN [acc EXCEPT !.ok = FALSE]
                     ELSE [ok |-> TRUE, kv |-> g.kv, metas |-> Append(acc.metas, g.meta)],
             [ok |-> TRUE, kv |-> kv, metas |-> <<>>], ks)

Within(kv, k, lo, hi) == {e \in Elements(kv, k, "member") : lo <= e /\ e <= hi}

(* The result of a STORE replaces the destination. *)
StoreSet(kv, dst, S) ==
    LET meta == [Fresh("set", Cardinality(S)) EXCEPT !.min = Min(S), !.max = Max(S)]
    IN  IF S = {} THEN DelKey(kv, dst)
        ELSE SetKeyValue(PutMembers(DelKey(kv, dst), dst, S), M(dst), meta)

SetReply(S) == AsReply(Sorted(S))

SDiffOf(b, ks, how, dst) ==
    LET first == b.metas[1]
        lower(i) == IF first.min > b.metas[i].min THEN first.min ELSE b.metas[i].min
        upper(i) == IF first.max < b.metas[i].max THEN first.max ELSE b.metas[i].max
        meets(i) == b.metas[i].type # "none" /\ b.metas[i].min <= first.max /\ b.metas[i].max >= first.min
        from1 == {e \in Elements(b.kv, ks[1], "member") : e >= first.min}
        S == from1 \ UNION {Within(b.kv, ks[i], lower(i), upper(i)) : i \in {j \in 2 .. Len(ks) : meets(j)}}
    IN  IF ~b.ok THEN Res(b.kv, WrongType)
        ELSE IF first.type = "none"
          THEN IF how = "reply" THEN Res(b.kv, Arr(<<>>))
               ELSE Res(IF how = "store" THEN DelKey(b.kv, dst) ELSE b.kv, Num(0))
        ELSE IF how = "store" THEN Res(StoreSet(b.kv, dst, S), Num(Cardinality(S)))
        ELSE IF how = "count" THEN Res(b.kv, Num(Cardinality(S)))
        \* an empty result adds no member to the reply, which stays nil
        ELSE Res(b.kv, IF S = {} THEN Null ELSE SetReply(S))
(* The key a result is stored in is looked at first. *)
Destination(kv, now, how, dst) == IF how = "store" THEN CheckMeta(kv, now, dst, "set") ELSE [ok |-> TRUE, kv |-> kv]
SDiff(kv, now, ks, how, dst) ==
    LET from(c) == IF ~c.ok THEN Res(kv, WrongType) ELSE SDiffOf(FetchBounds(c.kv, ks), ks, how, dst)
    IN  from(Destination(kv, now, how, dst))

(* SINTER stops at the first missing key. *)
SInterOf(b, missing, ks, how, dst) ==
    LET lo == Max({b.metas[i].min : i \in DOMAIN ks})
        hi == Min({b.metas[i].max : i \in DOMAIN ks})
        S == {e \in Within(b.kv, ks[1], lo, hi) : \A i \in DOMAIN ks : Has(b.kv, Mb(ks[i], e))}
        empty == missing # {} \/ lo > hi
    IN  IF ~b.ok THEN Res(b.kv, WrongType)
        ELSE IF empty
          THEN IF how = "reply" THEN Res(b.kv, Arr(<<>>))
               ELSE Res(IF how = "store" THEN DelKey(b.kv, dst) ELSE b.kv, Num(0))
        \* an empty intersection found by iterating leaves the destination
        ELSE IF how = "store" THEN Res(IF S = {} THEN b.kv ELSE StoreSet(b.kv, dst, S), Num(Cardinality(S)))
        ELSE IF how = "count" THEN Res(b.kv, Num(Cardinality(S)))
        ELSE Res(b.kv, IF S = {} THEN Null ELSE SetReply(S))
SInter(kv, now, ks, how, dst) ==
    LET seen(missing) == IF missing = {} THEN ks ELSE SubSeq(ks, 1, Min(missing))
        upTo(s, missing) == SInterOf(FetchBounds(s, seen(missing)), missing, ks, how, dst)
        from(c) == IF ~c.ok THEN Res(kv, WrongType)
                   ELSE upTo(c.kv, {i \in DOMAIN ks : MetaOf(c.kv, ks[i]).type = "none"})
    IN  from(Destination(kv, now, how, dst))

(* SUNION checks every key, the destination included. *)
SUnionOf(c, ks, how, dst) ==
    LET of(k) == {e \in Elements(c.kv, k, "member") :
                      MetaOf(c.kv, k).min = Nil \/ e >= MetaOf(c.kv, k).min}
        S == UNION {of(k) : k \in {j \in Range(ks) : MetaOf(c.kv, j).type # "none"}}
    IN  IF ~c.ok THEN Res(c.kv, WrongType)
        ELSE IF how = "store" THEN Res(StoreSet(c.kv, dst, S), IF S = {} THEN Null ELSE Num(Cardinality(S)))
        ELSE IF how = "count" THEN Res(c.kv, Num(Cardinality(S)))
        ELSE Res(c.kv, IF S = {} THEN Null ELSE SetReply(S))
SUnion(kv, now, ks, how, dst) ==
    LET next(d) == [ok |-> d.ok, kv |-> d.kv]
    IN  SUnionOf(FoldLeft(LAMBDA acc, k : IF acc.ok THEN next(CheckMeta(acc.kv, now, k, "set")) ELSE acc,
                          [ok |-> TRUE, kv |-> kv], IF how = "store" THEN <<dst>> \o ks ELSE ks),
                 ks, how, dst)

=============================================================================
