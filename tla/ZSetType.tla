------------------------------ MODULE ZSetType ------------------------------
(* The sorted set commands of t_zset.cpp.  A member has two entries: one    *)
(* under its name, that holds its score, and one under score and name, for  *)
(* the order.  The name is always stored as text, where a set stores the    *)
(* number n as a number: Text(n) is its text, which sorts after every       *)
(* number.                                                                  *)
EXTENDS Store

TextBase == 10
Text(n) == TextBase + n
Name(m) == IF m > TextBase THEN m - TextBase ELSE m   \* what a client reads
EncodingOf(m) == IF m > TextBase THEN "text" ELSE "int"

Dbl(s) == <<"dbl", s>>

Sc(k, m) == E(k, "score", m)
So(k, s, m) == E(k, "sort", <<s, m>>)

(* The sort entries ascending, as pairs <<score, member>>. *)
Below2(a, b) == a[1] < b[1] \/ (a[1] = b[1] /\ a[2] < b[2])
Ranked(kv, k) ==
    LET S == Elements(kv, k, "sort")
    IN  [i \in 1 .. Cardinality(S) |-> CHOOSE e \in S : Cardinality({x \in S : Below2(x, e)}) = i - 1]

(* The two entries of one member. *)
PutScore(kv, k, s, m) == SetKeyValue(SetKeyValue(kv, So(k, s, m), Nil), Sc(k, m), s)
(* The two entries of each of some members. *)
Pairs(kv, k, ps) == {So(k, p[1], p[2]) : p \in ps} \cup {Sc(k, p[2]) : p \in ps}

ZCard(kv, now, k) == ObjectLen(kv, now, k, "zset")

(* ZADD and ZINCRBY.  Each pair is looked up in the store, which does not   *)
(* show the pairs before it.                                                *)
ZAddOf(kv, c, k, nx, xx, ch, incr, pairs) ==
    LET meta == IF c.meta.type = "none" THEN Fresh("zset", 0) ELSE c.meta
        start == [kv |-> c.kv, meta |-> meta, added |-> 0, updated |-> 0, processed |-> 0, score |-> 0]
        add(acc, p) ==
            LET m == Text(p[2])
                old == Has(c.kv, Sc(k, m))
                cur == c.kv[Sc(k, m)]
                s == IF old /\ incr THEN cur + p[1] ELSE p[1]
                seen == [acc EXCEPT !.processed = @ + 1, !.score = s]
                base == IF old THEN RemoveKey(acc.kv, So(k, cur, m)) ELSE acc.kv
            IN  IF (old /\ nx) \/ (~old /\ xx) THEN acc
                ELSE IF old /\ s = cur THEN seen
                ELSE [seen EXCEPT !.kv = PutScore(base, k, s, m),
                                  !.meta = SetMinMaxData(@, m),
                                  !.added = IF old THEN @ ELSE @ + 1,
                                  !.updated = IF old THEN @ + 1 ELSE @]
        a == FoldLeft(add, start, pairs)
    IN  IF ~c.ok THEN Res(kv, WrongType)
        ELSE IF c.meta.type = "none" /\ xx THEN Res(c.kv, Null)
        ELSE Res(SetKeyValue(a.kv, M(k), [a.meta EXCEPT !.size = @ + a.added]),
                 IF ~incr THEN Num(IF ch THEN a.added + a.updated ELSE a.added)
                 ELSE IF a.processed = 0 THEN Null ELSE Dbl(a.score))
ZAdd(kv, now, k, nx, xx, ch, incr, pairs) == ZAddOf(kv, CheckMeta(kv, now, k, "zset"), k, nx, xx, ch, incr, pairs)

(* ZREM keeps the meta value of an emptied set. *)
ZRem(kv, now, k, es) ==
    LET c == CheckMeta(kv, now, k, "zset")
        hits == SelectSeq(es, LAMBDA e : Has(c.kv, Sc(k, Text(e))))
        n == Len(hits)
        rest == RemoveKeys(c.kv, Pairs(c.kv, k, {<<c.kv[Sc(k, Text(e))], Text(e)>> : e \in Range(hits)}))
    IN  IF ~c.ok THEN Res(kv, WrongType)
        ELSE IF c.meta.type = "none" \/ n = 0 THEN Res(c.kv, Num(0))
        ELSE Res(SetKeyValue(rest, M(k), [c.meta EXCEPT !.size = @ - n]), Num(n))

(* No look at the meta value. *)
ZScore(kv, now, k, e) ==
    Res(kv, IF Has(kv, Sc(k, Text(e))) THEN Dbl(kv[Sc(k, Text(e))]) ELSE Null)
ZRank(kv, now, k, e, reverse) ==
    LET r == IF reverse THEN Reverse(Ranked(kv, k)) ELSE Ranked(kv, k)
        at == {i \in DOMAIN r : r[i][2] = Text(e)}
    IN  Res(kv, IF ZScore(kv, now, k, e).r = Null \/ at = {} THEN Null ELSE Num(Min(at) - 1))

---------------------------------------------------------------------------
(* The three walks over a range, which answer, count or remove ("how") what *)
(* they meet.  "found" is the sequence of pairs met, in the order met.      *)

WithScores(ps, scores) ==
    Arr(FlattenSeq([i \in DOMAIN ps |->
        IF scores THEN <<Str(Name(ps[i][2])), Dbl(ps[i][1])>> ELSE <<Str(Name(ps[i][2]))>>]))
NothingFound(how) == IF how = "reply" THEN Arr(<<>>) ELSE Num(0)

Finish(c, k, how, scores, found) ==
    LET n == Len(found)
        m == [c.meta EXCEPT !.size = @ - n]
        rest == RemoveKeys(c.kv, Pairs(c.kv, k, Range(found)))
    IN  CASE how = "reply" -> Res(c.kv, WithScores(found, scores))
          [] how = "count" -> Res(c.kv, Num(n))
          [] how = "remove" ->
               Res(IF n = 0 THEN c.kv
                   ELSE IF m.size = 0 THEN RemoveKey(rest, M(k)) ELSE SetKeyValue(rest, M(k), m), Num(n))

(* LIMIT offset count: the walk is left after a pair is taken, so a count   *)
(* of 0 or less takes one.  <<>> is no limit.                               *)
Limited(ps, limit) ==
    IF limit = <<>> THEN ps
    ELSE SubSeq(ps, limit[1] + 1, Min({Len(ps), limit[1] + Max({1, limit[2]})}))

ZIterateByRank(kv, now, k, start, end, reverse, how, scores) ==
    LET c == CheckMeta(kv, now, k, "zset")
        r == IF reverse THEN Reverse(Ranked(c.kv, k)) ELSE Ranked(c.kv, k)
        s == Max({0, IF start < 0 THEN c.meta.size + start ELSE start})
        e == IF end < 0 THEN c.meta.size + end ELSE end
        found == SubSeq(r, s + 1, Min({e, c.meta.size - 1, Len(r) - 1}) + 1)
    IN  IF ~c.ok THEN Res(kv, WrongType)
        ELSE IF c.meta.type = "none" \/ s > e \/ s >= c.meta.size THEN Res(c.kv, NothingFound(how))
        ELSE Finish(c, k, how, scores, found)

(* ZRangeSpec: a range of scores, each end included or not. *)
InRange(x, range) ==
    IF x < range.min \/ (x = range.min /\ ~range.incmin) THEN -1
    ELSE IF x > range.max \/ (x = range.max /\ ~range.incmax) THEN 1 ELSE 0

(* A walk down starts at the first entry at or above the upper end; among   *)
(* several members with that score this is the first of them, and the walk  *)
(* goes on below.  When both ends are the same the upper one is raised by   *)
(* DBL_EPSILON first, which makes a difference up to the score 2.           *)
ZIterateByScore(kv, now, k, range, limit, reverse, how, scores) ==
    LET c == CheckMeta(kv, now, k, "zset")
        r == Ranked(c.kv, k)
        raised == reverse /\ range.min = range.max /\ range.max < 2
        in(p) == IF raised THEN p[1] = range.min /\ range.incmin ELSE InRange(p[1], range) = 0
        above == {i \in DOMAIN r : IF raised THEN r[i][1] > range.max ELSE r[i][1] >= range.max}
        top == IF above = {} THEN Len(r) ELSE Min(above)
        walk == IF reverse THEN Reverse(SubSeq(r, 1, top)) ELSE r
        found == Limited(SelectSeq(walk, in), limit)
    IN  IF range.min > range.max THEN Res(kv, Err("min or max is not a float"))
        ELSE IF ~c.ok THEN Res(kv, WrongType)
        ELSE IF c.meta.type = "none" THEN Res(c.kv, NothingFound(how))
        ELSE Finish(c, k, how, scores, found)

(* ZLexRangeSpec over the entries under their names.  The lower end "-" is  *)
(* the empty text; the upper end "+" is the empty text too (0 here), and a  *)
(* walk down starts from there.                                             *)
ZIterateByLex(kv, now, k, range, limit, reverse, how) ==
    LET c == CheckMeta(kv, now, k, "zset")
        es == SelectSeq(Iterate(c.kv, k, "score"), LAMBDA m : EncodingOf(m) = "text")
        max == IF range.max = 0 THEN Text(99) ELSE Text(range.max)
        in(m) == InRange(m, [min |-> Text(range.min), max |-> max,
                             incmin |-> range.incmin, incmax |-> range.incmax]) = 0
        above == {i \in DOMAIN es : es[i] >= Text(range.max)}
        top == IF above = {} THEN Len(es) ELSE Min(above)
        walk == IF reverse THEN Reverse(SubSeq(es, 1, top)) ELSE es
        names == Limited(SelectSeq(walk, in), limit)
        found == [i \in DOMAIN names |-> <<c.kv[Sc(k, names[i])], names[i]>>]
    IN  IF range.min > range.max /\ range.max # 0 THEN Res(kv, Err("min or max is not valid"))
        ELSE IF ~c.ok THEN Res(kv, WrongType)
        ELSE IF c.meta.type = "none" THEN Res(c.kv, NothingFound(how))
        ELSE Finish(c, k, how, FALSE, found)

---------------------------------------------------------------------------
(* ZPOPMIN and ZPOPMAX; a reply names the score before the member. *)
ZPop(kv, now, k, count, reverse, emitkey) ==
    LET c == CheckMeta(kv, now, k, "zset")
        r == IF reverse THEN Reverse(Ranked(c.kv, k)) ELSE Ranked(c.kv, k)
        ps == SubSeq(r, 1, Min({count, Len(r)}))
        m == [c.meta EXCEPT !.size = @ - Len(ps)]
        rest == RemoveKeys(c.kv, Pairs(c.kv, k, Range(ps)))
        reply == (IF emitkey THEN <<Str(k)>> ELSE <<>>)
                 \o FlattenSeq([i \in DOMAIN ps |-> <<Dbl(ps[i][1]), Str(Name(ps[i][2]))>>])
    IN  IF ~c.ok THEN Res(kv, WrongType)
        ELSE IF c.meta.type = "none" THEN Res(c.kv, Arr(<<>>))
        ELSE Res(IF m.size = 0 THEN RemoveKey(rest, M(k)) ELSE SetKeyValue(rest, M(k), m), Arr(reply))

(* BZPOPMIN and BZPOPMAX while one of the keys has members: the first such  *)
(* key is popped, a key before it of another type is an error.              *)
Blocks == <<"blocks">>
BZPop(kv, now, ks, reverse) ==
    LET checks == [i \in DOMAIN ks |-> CheckMeta(kv, now, ks[i], "zset")]
        stop == {i \in DOMAIN ks : ~checks[i].ok \/ checks[i].meta.size > 0}
        seen == SubSeq(ks, 1, IF stop = {} THEN Len(ks) ELSE Min(stop))
        clean == FoldLeft(LAMBDA s, k : CheckMeta(s, now, k, "zset").kv, kv, seen)
    IN  IF stop = {} THEN Res(clean, Blocks)
        ELSE IF ~checks[Min(stop)].ok THEN Res(clean, WrongType)
        ELSE ZPop(clean, now, ks[Min(stop)], 1, reverse, TRUE)

---------------------------------------------------------------------------
(* ZUNIONSTORE and ZINTERSTORE over sorted sets and sets, whose members     *)
(* count with score 1.                                                      *)

zunionInterAggregate(a, b, aggregate) ==
    CASE aggregate = "sum" -> a + b
      [] aggregate = "min" -> Min({a, b})
      [] aggregate = "max" -> Max({a, b})

Source(kv, k, weight) ==
    LET m == MetaOf(kv, k)
    IN  [e \in Elements(kv, k, element_type(m.type)) |->
            weight * (IF m.type = "zset" THEN kv[Sc(k, e)] ELSE 1)]

ZUnion(kv, srcs, weights, aggregate) ==
    FoldLeft(LAMBDA acc, i :
                 LET s == Source(kv, srcs[i], weights[i])
                 IN  [e \in DOMAIN acc \cup DOMAIN s |->
                         IF e \notin DOMAIN acc THEN s[e]
                         ELSE IF e \notin DOMAIN s THEN acc[e]
                         ELSE zunionInterAggregate(s[e], acc[e], aggregate)],
             <<>>, [i \in DOMAIN srcs |-> i])

(* The bounds of the sources, filled in where they are not known, cut the   *)
(* walks short.  Bounds of which one is a number and the other a text are   *)
(* not used; the names are then all turned to text.  A source that was not  *)
(* reached while the bounds were collected, or has none, has no iterator.   *)
ZInterMet(kv, known, lo, hi, srcs, weights, aggregate, missed) ==
    LET mixed == known > 0 /\ EncodingOf(lo) # EncodingOf(hi)
        within(s) == IF mixed THEN [e \in {Text(Name(x)) : x \in DOMAIN s} |-> IF e \in DOMAIN s THEN s[e] ELSE s[Name(e)]]
                     ELSE [e \in {x \in DOMAIN s : lo <= x /\ x <= hi} |-> s[e]]
        src(i) == within(Source(kv, srcs[i], weights[i]))
        meet(acc, s) == [e \in DOMAIN acc \cap DOMAIN s |-> zunionInterAggregate(s[e], acc[e], aggregate)]
    IN  IF mixed /\ known < Len(srcs) THEN [crash |-> TRUE, kv |-> kv, z |-> <<>>]
        ELSE IF missed /\ ~mixed THEN [crash |-> FALSE, kv |-> kv, z |-> <<>>]
        ELSE [crash |-> FALSE, kv |-> kv,
              z |-> FoldLeft(LAMBDA acc, i : meet(acc, src(i)), src(1), [i \in 1 .. Len(srcs) - 1 |-> i + 1])]

ZInterOf(kv0, metas, srcs, weights, aggregate) ==
    LET lo(j) == Max({metas[i].min : i \in 1 .. j})
        hi(j) == Min({metas[i].max : i \in 1 .. j})
        missing == {j \in DOMAIN srcs : metas[j].type = "none"}
        reach == IF missing = {} THEN Len(srcs) ELSE Min(missing) - 1
        crossed == {j \in 1 .. reach : lo(j) > hi(j)}
        saved(n) == FoldLeft(LAMBDA s, i : SetKeyValue(s, M(srcs[i]), metas[i]), kv0, [i \in 1 .. n |-> i])
        met(known) == ZInterMet(saved(known), known, IF known > 0 THEN lo(known) ELSE 0, IF known > 0 THEN hi(known) ELSE 0,
                                srcs, weights, aggregate, missing # {} \/ crossed # {})
    IN  met(IF crossed = {} THEN reach ELSE Min(crossed))   \* the sources with an iterator

ZInter(kv, srcs, weights, aggregate) ==
    LET inter(fill) == IF \E i \in DOMAIN srcs : ~fill[i].ok THEN [crash |-> TRUE, kv |-> kv, z |-> <<>>]
                       ELSE ZInterOf(kv, [i \in DOMAIN srcs |-> fill[i].meta], srcs, weights, aggregate)
    IN  inter([i \in DOMAIN srcs |-> GetMinMax(kv, srcs[i], MetaOf(kv, srcs[i]))])

ZStored(base, dst, z) ==
    LET put == FoldSet(LAMBDA e, s : PutScore(s, dst, z[e], e), base, DOMAIN z)
        meta == [Fresh("zset", Cardinality(DOMAIN z)) EXCEPT !.min = Min(DOMAIN z), !.max = Max(DOMAIN z)]
    IN  IF DOMAIN z = {} THEN Res(base, Num(0))
        ELSE Res(SetKeyValue(put, M(dst), meta), Num(Cardinality(DOMAIN z)))

ZStore(kv, now, dst, srcs, weights, aggregate, inter) ==
    LET check(s, k) == CheckMeta(s, now, k, IF MetaOf(s, k).type = "set" THEN "set" ELSE "zset")
        next(d) == [ok |-> d.ok, kv |-> d.kv]
        stored(i) == IF i.crash THEN Res(i.kv, Err("no iterator")) ELSE ZStored(DelKey(i.kv, dst), dst, i.z)
        from(c) == IF ~c.ok THEN Res(c.kv, WrongType)
                   ELSE IF inter THEN stored(ZInter(c.kv, srcs, weights, aggregate))
                   ELSE ZStored(DelKey(c.kv, dst), dst, ZUnion(c.kv, srcs, weights, aggregate))
    IN  from(FoldLeft(LAMBDA acc, k : IF acc.ok THEN next(check(acc.kv, k)) ELSE acc, [ok |-> TRUE, kv |-> kv], srcs))

=============================================================================
