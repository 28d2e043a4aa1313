------------------------------- MODULE Redis -------------------------------
(* What the commands promise: the data types of Redis as operators on       *)
(* abstract values, without meta values, entries, counts or bounds.  The    *)
(* value of a key is <<type, content, time to live>>; a hash is a function  *)
(* from fields to values, a set a set, a list a sequence, a sorted set a    *)
(* function from members to scores.  No key holds an empty collection.      *)
EXTENDS StringType

Absent == <<"none", Nil, 0>>

Out(A, r) == [db |-> A, r |-> r]

(* A command on the content of key k of type T; Step gives the new content  *)
(* and the reply.  A key of another type is refused, an empty one removed.  *)
On(A, k, T, empty, Step(_)) ==
    LET s == Step(IF A[k][1] = "none" THEN empty ELSE A[k][2])
    IN  IF A[k][1] \notin {"none", T} THEN Out(A, WrongType)
        ELSE IF s.v = empty THEN Out([A EXCEPT ![k] = Absent], s.r)
        ELSE Out([A EXCEPT ![k] = <<T, s.v, @[3]>>], s.r)

To(v, r) == [v |-> v, r |-> r]

---------------------------------------------------------------------------
(* Hashes *)

OnHash(A, k, Step(_)) == On(A, k, "hash", <<>>, Step)

SetFields(h, fvs) == FoldLeft(LAMBDA g, fv : (fv[1] :> fv[2]) @@ g, h, fvs)

RHMSet(A, k, fvs) == OnHash(A, k, LAMBDA h : To(SetFields(h, fvs), Ok))
RHSet(A, k, nx, f, v) ==
    OnHash(A, k, LAMBDA h :
        IF nx /\ f \in DOMAIN h THEN To(h, Num(0))
        ELSE To((f :> v) @@ h, Num(IF f \in DOMAIN h THEN 0 ELSE 1)))
RHMGet(A, k, fs) ==
    OnHash(A, k, LAMBDA h :
        To(h, Arr([i \in DOMAIN fs |-> IF fs[i] \in DOMAIN h THEN Str(h[fs[i]]) ELSE Null])))
RHGet(A, k, f) ==
    OnHash(A, k, LAMBDA h : To(h, IF f \in DOMAIN h THEN Str(h[f]) ELSE Null))
RHExists(A, k, f) ==
    OnHash(A, k, LAMBDA h : To(h, Num(IF f \in DOMAIN h THEN 1 ELSE 0)))
RHLen(A, k) == OnHash(A, k, LAMBDA h : To(h, Num(Cardinality(DOMAIN h))))
RHIterate(A, k, what) ==
    OnHash(A, k, LAMBDA h :
        To(h, Arr(FlattenSeq([i \in 1 .. Cardinality(DOMAIN h) |->
            LET f == Sorted(DOMAIN h)[i]
            IN  (IF what # "vals" THEN <<Str(<<"i", f>>)>> ELSE <<>>)
                \o (IF what # "keys" THEN <<Str(h[f])>> ELSE <<>>)]))))
RHIncrby(A, k, f, float, n) ==
    OnHash(A, k, LAMBDA h :
        IF f \in DOMAIN h /\ h[f][1] = "s" THEN To(h, Err("not a number"))
        ELSE LET v == IF f \in DOMAIN h THEN h[f][2] + n ELSE n
             IN  To((f :> <<"i", v>>) @@ h, IF float THEN Str(<<"i", v>>) ELSE Num(v)))
RHDel(A, k, fs) ==
    OnHash(A, k, LAMBDA h :
        To(Restrict(h, DOMAIN h \ Range(fs)), Num(Cardinality(DOMAIN h \cap Range(fs)))))

---------------------------------------------------------------------------
(* Sets.  The order of a reply and the choice of a random member are free:  *)
(* a set is returned in ascending order, a choice is given by "picked".     *)

OnSet(A, k, Step(_)) == On(A, k, "set", {}, Step)
Ascending(S) == Arr([i \in 1 .. Cardinality(S) |-> Str(Sorted(S)[i])])
SetOf(A, k) == IF A[k][1] = "none" THEN {} ELSE A[k][2]
NotSet(A, k) == A[k][1] \notin {"none", "set"}

RSAdd(A, k, es) ==
    OnSet(A, k, LAMBDA S : To(S \cup Range(es), Num(Cardinality(Range(es) \ S))))
RSRem(A, k, es) ==
    OnSet(A, k, LAMBDA S : To(S \ Range(es), Num(Cardinality(Range(es) \cap S))))
RSCard(A, k) == OnSet(A, k, LAMBDA S : To(S, Num(Cardinality(S))))
RSIsMember(A, k, e) == OnSet(A, k, LAMBDA S : To(S, Num(IF e \in S THEN 1 ELSE 0)))
RSMembers(A, k) == OnSet(A, k, LAMBDA S : To(S, Ascending(S)))
RSMove(A, src, dst, e) ==
    IF NotSet(A, src) \/ NotSet(A, dst) THEN Out(A, WrongType)
    ELSE IF e \notin SetOf(A, src) THEN Out(A, Num(0))
    ELSE Out(RSAdd(RSRem(A, src, <<e>>).db, dst, <<e>>).db, Num(1))

(* A choice of "count" members that are all different, or of that many with *)
(* repetitions; all of the set when it has fewer.                           *)
Chosen(S, picked, count) ==
    IF count < 0 THEN Range(picked) \subseteq S /\ Len(picked) = (IF S = {} THEN 0 ELSE -count)
    ELSE /\ Range(picked) \subseteq S
         /\ IsInjective(picked)
         /\ Len(picked) = Min({count, Cardinality(S)})
PickReply(withcount, picked) ==
    IF withcount THEN Arr([i \in DOMAIN picked |-> Str(picked[i])])
    ELSE IF picked = <<>> THEN Null ELSE Str(picked[1])
RSPop(A, k, withcount, count, picked) ==
    OnSet(A, k, LAMBDA S : To(S \ Range(picked),
        IF Chosen(S, picked, count) THEN PickReply(withcount, picked) ELSE Err("choice")))
RSRandMember(A, k, withcount, count, picked) ==
    OnSet(A, k, LAMBDA S : To(S,
        IF Chosen(S, picked, count) THEN PickReply(withcount, picked) ELSE Err("choice")))

(* The three set operations, answered, counted or stored. *)
Answer(A, how, dst, S) ==
    CASE how = "reply" -> Out(A, Ascending(S))
      [] how = "count" -> Out(A, Num(Cardinality(S)))
      [] how = "store" -> Out([A EXCEPT ![dst] = IF S = {} THEN Absent ELSE <<"set", S, 0>>],
                              Num(Cardinality(S)))
RSDiff(A, ks, how, dst) ==
    IF \E k \in Range(ks) : NotSet(A, k) THEN Out(A, WrongType)
    ELSE Answer(A, how, dst, SetOf(A, ks[1]) \ UNION {SetOf(A, ks[i]) : i \in 2 .. Len(ks)})
RSUnion(A, ks, how, dst) ==
    IF \E k \in Range(ks) : NotSet(A, k) THEN Out(A, WrongType)
    ELSE Answer(A, how, dst, UNION {SetOf(A, k) : k \in Range(ks)})
RSInter(A, ks, how, dst) ==
    LET missing == {i \in DOMAIN ks : A[ks[i]][1] = "none"}
        bad == {i \in DOMAIN ks : NotSet(A, ks[i])}
    IN  IF bad # {} /\ (missing = {} \/ Min(bad) < Min(missing)) THEN Out(A, WrongType)
        ELSE IF missing # {} THEN Answer(A, how, dst, {})
        ELSE Answer(A, how, dst, {e \in SetOf(A, ks[1]) : \A k \in Range(ks) : e \in SetOf(A, k)})

---------------------------------------------------------------------------
(* Lists *)

OnList(A, k, Step(_)) == On(A, k, "list", <<>>, Step)
ListOf(A, k) == IF A[k][1] = "none" THEN <<>> ELSE A[k][2]

RPushes(A, k, left, xx, vs) ==
    OnList(A, k, LAMBDA L :
        IF xx /\ L = <<>> THEN To(L, Num(0))
        ELSE To(IF left THEN Reverse(vs) \o L ELSE L \o vs, Num(Len(L) + Len(vs))))
RPops(A, k, left) ==
    OnList(A, k, LAMBDA L :
        IF L = <<>> THEN To(L, Null)
        ELSE IF left THEN To(Tail(L), Str(Head(L))) ELSE To(Front(L), Str(Last(L))))
RLInsert(A, k, before, pivot, v) ==
    OnList(A, k, LAMBDA L :
        LET hits == {n \in DOMAIN L : L[n] = pivot}
        IN  IF L = <<>> THEN To(L, Num(0))
            ELSE IF hits = {} THEN To(L, Num(-1))
            ELSE To(InsertAt(L, IF before THEN Min(hits) ELSE Min(hits) + 1, v), Num(Len(L) + 1)))
Counted(L, n) == IF n < 0 THEN Len(L) + n + 1 ELSE n + 1   \* a position of L, if there is one
RLLen(A, k) == OnList(A, k, LAMBDA L : To(L, Num(Len(L))))
RLIndex(A, k, n) ==
    OnList(A, k, LAMBDA L : To(L, IF Counted(L, n) \in DOMAIN L THEN Str(L[Counted(L, n)]) ELSE Null))
RLSet(A, k, n, v) ==
    OnList(A, k, LAMBDA L :
        IF Counted(L, n) \in DOMAIN L THEN To([L EXCEPT ![Counted(L, n)] = v], Ok)
        ELSE To(L, Err("out of range")))
Slice(L, start, end) == SubSeq(L, Max({1, Counted(L, start)}), Min({Len(L), Counted(L, end)}))
RLRange(A, k, start, end) ==
    OnList(A, k, LAMBDA L : To(L, Arr([n \in DOMAIN Slice(L, start, end) |-> Str(Slice(L, start, end)[n])])))
RLTrim(A, k, start, end) == OnList(A, k, LAMBDA L : To(Slice(L, start, end), Ok))
RLRem(A, k, count, v) ==
    OnList(A, k, LAMBDA L :
        LET hits == {n \in DOMAIN L : L[n] = v}
            before(n) == Cardinality({j \in hits : j < n})
            after(n) == Cardinality({j \in hits : j > n})
            gone == {n \in hits : \/ count = 0
                                  \/ count > 0 /\ before(n) < count
                                  \/ count < 0 /\ after(n) < -count}
            kept == Sorted(DOMAIN L \ gone)
        IN  To([n \in DOMAIN kept |-> L[kept[n]]], Num(Cardinality(gone))))
(* The value moves in one step, the target is checked first. *)
RRPopLPush(A, src, dst) ==
    LET p == RPops(A, src, FALSE)
        v == Last(ListOf(A, src))
        q == IF src = dst THEN [A EXCEPT ![src][2] = <<v>> \o Front(@)]
             ELSE RPushes(p.db, dst, TRUE, FALSE, <<v>>).db
    IN  IF p.r[1] # "str" THEN p
        ELSE IF A[dst][1] \notin {"none", "list"} THEN Out(A, WrongType)
        ELSE Out(q, p.r)

---------------------------------------------------------------------------
(* Sorted sets, ordered by score and, with the same score, by name *)

OnZSet(A, k, Step(_)) == On(A, k, "zset", <<>>, Step)
Double(s) == <<"dbl", s>>

Order(z, reverse) ==
    LET before(a, b) == z[a] < z[b] \/ (z[a] = z[b] /\ a < b)
        up == [i \in 1 .. Cardinality(DOMAIN z) |->
                  CHOOSE e \in DOMAIN z : Cardinality({x \in DOMAIN z : before(x, e)}) = i - 1]
    IN  IF reverse THEN Reverse(up) ELSE up

RZAdd(A, k, nx, xx, ch, incr, pairs) ==
    OnZSet(A, k, LAMBDA z :
        LET old(p) == p[2] \in DOMAIN z
            taken == SelectSeq(pairs, LAMBDA p : ~(nx /\ old(p)) /\ ~(xx /\ ~old(p)))
            score(p) == IF incr /\ old(p) THEN z[p[2]] + p[1] ELSE p[1]
            new == FoldLeft(LAMBDA y, p : (p[2] :> score(p)) @@ y, z, taken)
            added == Cardinality(DOMAIN new \ DOMAIN z)
            moved == Cardinality({e \in DOMAIN z : new[e] # z[e]})
        IN  To(new, IF ~incr THEN Num(IF ch THEN added + moved ELSE added)
                    ELSE IF taken = <<>> THEN Null ELSE Double(score(taken[1]))))
RZRem(A, k, es) ==
    OnZSet(A, k, LAMBDA z :
        To(Restrict(z, DOMAIN z \ Range(es)), Num(Cardinality(DOMAIN z \cap Range(es)))))
RZCard(A, k) == OnZSet(A, k, LAMBDA z : To(z, Num(Cardinality(DOMAIN z))))
RZScore(A, k, e) == OnZSet(A, k, LAMBDA z : To(z, IF e \in DOMAIN z THEN Double(z[e]) ELSE Null))
RZRank(A, k, e, reverse) ==
    OnZSet(A, k, LAMBDA z :
        To(z, IF e \notin DOMAIN z THEN Null
              ELSE Num((CHOOSE i \in DOMAIN Order(z, reverse) : Order(z, reverse)[i] = e) - 1)))

(* What is done with the members a range selects, in their order. *)
Handled(z, es, how, scores) ==
    CASE how = "count" -> To(z, Num(Len(es)))
      [] how = "remove" -> To(Restrict(z, DOMAIN z \ Range(es)), Num(Len(es)))
      [] how = "reply" -> To(z, Arr(FlattenSeq([i \in DOMAIN es |->
             IF scores THEN <<Str(es[i]), Double(z[es[i]])>> ELSE <<Str(es[i])>>])))
RZRangeByRank(A, k, start, end, reverse, how, scores) ==
    OnZSet(A, k, LAMBDA z : Handled(z, Slice(Order(z, reverse), start, end), how, scores))
Window(es, limit) ==
    IF limit = <<>> THEN es
    ELSE SubSeq(es, limit[1] + 1, IF limit[2] < 0 THEN Len(es) ELSE Min({Len(es), limit[1] + limit[2]}))
RZRangeByScore(A, k, range, limit, reverse, how, scores) ==
    OnZSet(A, k, LAMBDA z :
        LET in(e) == /\ z[e] > range.min \/ (z[e] = range.min /\ range.incmin)
                     /\ z[e] < range.max \/ (z[e] = range.max /\ range.incmax)
        IN  Handled(z, Window(SelectSeq(Order(z, reverse), in), limit), how, scores))
RZRangeByLex(A, k, range, limit, reverse, how) ==
    OnZSet(A, k, LAMBDA z :
        LET names == [e \in DOMAIN z |-> e]
            in(e) == /\ e > range.min \/ (e = range.min /\ range.incmin)
                     /\ range.max = 0 \/ e < range.max \/ (e = range.max /\ range.incmax)
        IN  Handled(z, Window(SelectSeq(Order(names, reverse), in), limit), how, FALSE))
RZPop(A, k, count, reverse, front) ==
    OnZSet(A, k, LAMBDA z :
        LET es == SubSeq(Order(z, reverse), 1, Min({count, Cardinality(DOMAIN z)}))
        IN  To(Restrict(z, DOMAIN z \ Range(es)),
               Arr((IF es = <<>> THEN <<>> ELSE front)
                   \o FlattenSeq([i \in DOMAIN es |-> <<Str(es[i]), Double(z[es[i]])>>]))))
RBZPop(A, ks, reverse) ==
    LET stop == {i \in DOMAIN ks : A[ks[i]][1] # "none"}
    IN  IF stop = {} THEN Out(A, <<"blocks">>)
        ELSE RZPop(A, ks[Min(stop)], 1, reverse, <<Str(ks[Min(stop)])>>)

Weighted(A, k, w) ==
    CASE A[k][1] = "none" -> <<>>
      [] A[k][1] = "zset" -> [e \in DOMAIN A[k][2] |-> w * A[k][2][e]]
      [] A[k][1] = "set" -> [e \in A[k][2] |-> w]
RZStore(A, dst, srcs, weights, aggregate, inter) ==
    LET of(i) == Weighted(A, srcs[i], weights[i])
        have(e) == {i \in DOMAIN srcs : e \in DOMAIN of(i)}
        es == {e \in UNION {DOMAIN of(i) : i \in DOMAIN srcs} : ~inter \/ have(e) = DOMAIN srcs}
        score(e) == CASE aggregate = "sum" -> MapThenSumSet(LAMBDA i : of(i)[e], have(e))
                      [] aggregate = "min" -> Min({of(i)[e] : i \in have(e)})
                      [] aggregate = "max" -> Max({of(i)[e] : i \in have(e)})
    IN  IF \E k \in Range(srcs) : A[k][1] \notin {"none", "zset", "set"} THEN Out(A, WrongType)
        ELSE Out([A EXCEPT ![dst] = IF es = {} THEN Absent ELSE <<"zset", [e \in es |-> score(e)], 0>>],
                 Num(Cardinality(es)))

---------------------------------------------------------------------------
(* Strings and keys of any type *)

Present(A, k) == A[k][1] # "none"
IsText(A, k) == A[k][1] \in {"none", "string"}
TextAt(A, k) == IF Present(A, k) THEN A[k][2] ELSE <<>>

RGet(A, k) == IF ~IsText(A, k) THEN Out(A, WrongType)
              ELSE Out(A, IF Present(A, k) THEN Str(A[k][2]) ELSE Null)
RMGet(A, ks) ==
    Out(A, Arr([i \in DOMAIN ks |-> IF A[ks[i]][1] = "string" THEN Str(A[ks[i]][2]) ELSE Null]))
RStrlen(A, k) == IF ~IsText(A, k) THEN Out(A, WrongType) ELSE Out(A, Num(Len(TextAt(A, k))))
RGetRange(A, k, start, end) ==
    LET t == TextAt(A, k)
        pos(i) == IF i < 0 THEN Len(t) + i ELSE i
        in == {i \in DOMAIN t : i - 1 >= pos(start) /\ i - 1 <= Max({pos(end), 0})}
    IN  IF ~IsText(A, k) THEN Out(A, WrongType)
        ELSE Out(A, Str(IF in = {} THEN <<>> ELSE SubSeq(t, Min(in), Max(in))))

(* SET and its options; it forgets the old value, type and time to live. *)
RSet(A, k, cs, op, ttl) ==
    IF (op = "nx" /\ Present(A, k)) \/ (op = "xx" /\ ~Present(A, k)) THEN Out(A, Null)
    ELSE Out([A EXCEPT ![k] = <<"string", cs, ttl>>], Ok)
RMSet(A, kvs, nx) ==
    IF nx /\ \E i \in DOMAIN kvs : Present(A, kvs[i][1]) THEN Out(A, Num(0))
    ELSE Out(FoldLeft(LAMBDA B, p : [B EXCEPT ![p[1]] = <<"string", p[2], 0>>], A, kvs),
             IF nx THEN Num(1) ELSE Ok)
RGetSet(A, k, cs) ==
    IF ~IsText(A, k) THEN Out(A, WrongType)
    ELSE Out([A EXCEPT ![k] = <<"string", cs, 0>>], IF Present(A, k) THEN Str(A[k][2]) ELSE Null)

(* A change of the text that keeps the time to live. *)
Rewrite(A, k, cs, r) ==
    IF ~IsText(A, k) THEN Out(A, WrongType)
    ELSE Out([A EXCEPT ![k] = <<"string", cs, @[3]>>], r)
RAppend(A, k, cs) ==
    LET t == TextAt(A, k) \o cs IN Rewrite(A, k, t, Num(Len(t)))
RSetRange(A, k, offset, cs) ==
    LET t == TextAt(A, k)
        n == Max({Len(t), offset + Len(cs)})
        new == [i \in 1 .. n |-> IF i - offset \in DOMAIN cs THEN cs[i - offset]
                                 ELSE IF i \in DOMAIN t THEN t[i] ELSE NulChar]
    IN  Rewrite(A, k, new, Num(n))
RIncrby(A, k, n, float) ==
    LET t == TextAt(A, k)
        v == Numeral((IF Present(A, k) THEN NumberOf(t) ELSE 0) + n)
    IN  IF ~IsText(A, k) \/ (Present(A, k) /\ ~IsNumeral(t)) THEN Out(A, Err("not a number"))
        ELSE Rewrite(A, k, v, IF float THEN Str(v) ELSE Num(NumberOf(v)))

(* Bitmaps: a string is the sequence of its bits, zero from its end on. *)
BitIn(t, n) == IF n + 1 \in DOMAIN Bits(t) THEN Bits(t)[n + 1] ELSE 0
Packed(n, bit(_)) ==
    [j \in 1 .. n |-> MapThenSumSet(LAMBDA i : 2 ^ (ByteBits - 1 - i) * bit(ByteBits * (j - 1) + i), 0 .. ByteBits - 1)]
RSetBit(A, k, offset, on) ==
    LET t == TextAt(A, k)
    IN  Rewrite(A, k, Packed(Max({Len(t), (offset \div ByteBits) + 1}),
                             LAMBDA n : IF n = offset THEN on ELSE BitIn(t, n)), Num(BitIn(t, offset)))
RGetBit(A, k, offset) == IF ~IsText(A, k) THEN Out(A, WrongType) ELSE Out(A, Num(BitIn(TextAt(A, k), offset)))

(* The bits of a range of bytes, by position. *)
InBytes(t, range) ==
    LET pos(i) == IF i < 0 THEN Max({0, Len(t) + i}) ELSE i
        s == IF range = <<>> THEN 0 ELSE pos(range[1])
        e == IF Len(range) = 2 THEN Min({Len(t) - 1, pos(range[2])}) ELSE Len(t) - 1
    IN  ByteBits * s .. ByteBits * (e + 1) - 1
RBitcount(A, k, range) ==
    LET t == TextAt(A, k)
    IN  IF ~IsText(A, k) THEN Out(A, WrongType)
        ELSE Out(A, Num(Cardinality({n \in InBytes(t, range) : BitIn(t, n) = 1})))
(* Without an end the zeros that follow the string count as found. *)
RBitpos(A, k, bit, range) ==
    LET t == TextAt(A, k)
        in == InBytes(t, range)
        hits == {n \in in : BitIn(t, n) = bit}
    IN  IF ~IsText(A, k) THEN Out(A, WrongType)
        ELSE IF ~Present(A, k) THEN Out(A, Num(-bit))
        ELSE Out(A, Num(IF hits # {} THEN Min(hits)
                        ELSE IF in = {} \/ bit = 1 \/ Len(range) = 2 THEN -1 ELSE Max(in) + 1))
RBitop(A, op, store, dst, srcs) ==
    LET n == Max({Len(TextAt(A, k)) : k \in Range(srcs)})
        ones(p) == Cardinality({i \in DOMAIN srcs : BitIn(TextAt(A, srcs[i]), p) = 1})
        bit(p) == CASE op = "and" -> IF ones(p) = Len(srcs) THEN 1 ELSE 0
                    [] op = "or" -> IF ones(p) > 0 THEN 1 ELSE 0
                    [] op = "xor" -> ones(p) % 2
                    [] op = "not" -> 1 - ones(p)
    IN  IF \E k \in Range(srcs) : ~IsText(A, k) THEN Out(A, WrongType)
        ELSE IF ~store THEN Out(A, Num(popcount(Packed(n, bit))))
        ELSE Out([A EXCEPT ![dst] = IF n = 0 THEN Absent ELSE <<"string", Packed(n, bit), 0>>], Num(n))

RDel(A, ks) ==
    Out([k \in DOMAIN A |-> IF k \in Range(ks) THEN Absent ELSE A[k]],
        Num(Cardinality({k \in Range(ks) : Present(A, k)})))
RExists(A, k) == Out(A, Num(IF Present(A, k) THEN 1 ELSE 0))
RType(A, k) == Out(A, Str(A[k][1]))
RTouch(A, ks) == Out(A, Num(Len(SelectSeq(ks, LAMBDA k : Present(A, k)))))
RExpire(A, k, persist, time, t) ==
    IF ~Present(A, k) \/ (persist /\ A[k][3] = 0) THEN Out(A, Num(0))
    ELSE IF persist THEN Out([A EXCEPT ![k][3] = 0], Num(1))
    ELSE IF time < t THEN Out([A EXCEPT ![k] = Absent], Num(1))
    ELSE Out([A EXCEPT ![k][3] = time], Num(1))
RPTTL(A, k, t) ==
    Out(A, Num(IF ~Present(A, k) THEN -2 ELSE IF A[k][3] = 0 THEN -1 ELSE A[k][3] - t))
RRename(A, src, dst, nx) ==
    IF ~Present(A, src) THEN Out(A, Err("no such key"))
    ELSE IF nx /\ Present(A, dst) THEN Out(A, Num(0))
    ELSE Out([[A EXCEPT ![src] = Absent] EXCEPT ![dst] = A[src]], IF nx THEN Num(1) ELSE Ok)
RRandomkey(A, k) ==
    Out(A, IF \A j \in DOMAIN A : ~Present(A, j) THEN Null
           ELSE IF k \in DOMAIN A /\ Present(A, k) THEN Str(k) ELSE Err("choice"))
RKeys(A, pattern) ==
    LET S == {k \in pattern : Present(A, k)}
    IN  Out(A, Arr([i \in 1 .. Cardinality(S) |-> Str(Sorted(S)[i])]))

=============================================================================
