------------------------------ MODULE ListType ------------------------------
(* The list commands of t_list.cpp.  An element is an entry under its index *)
(* and the meta value holds a lower and an upper bound of the indexes.      *)
(* While the list is sequential its indexes are the integers between the    *)
(* bounds, and an element is found by arithmetic; LINSERT puts an element   *)
(* half way between two others, LREM leaves holes, and from then on the     *)
(* list is walked.  An index is counted in units of 1 / Scale: a double     *)
(* cannot halve the distance of two indexes forever.                        *)
EXTENDS Store

CONSTANT Scale   \* the indexes a double still tells apart from one integer to the next

ASSUME ScaleAssumption == Scale \in Nat \ {0}

It(k, i) == E(k, "item", i)
Indexes(kv, k) == Elements(kv, k, "item")
Items(kv, k) == LET is == Iterate(kv, k, "item") IN [n \in DOMAIN is |-> kv[It(k, is[n])]]

(* (int64_t) of a double: towards 0. *)
Truncate(i) == IF i >= 0 THEN (i \div Scale) * Scale ELSE -(((-i) \div Scale) * Scale)

(* Where a walk begins that goes up from the lower bound or down from the   *)
(* upper one: Find, and JumpToLast when there is nothing at or above it.    *)
WalkStart(kv, k, m, up) ==
    LET at(b) == {i \in Indexes(kv, k) : i >= b}
    IN  IF up THEN Min(at(m.min))
        ELSE IF at(m.max) # {} THEN Min(at(m.max)) ELSE Max(Indexes(kv, k))
WalkFrom(kv, k, m, up) ==
    LET is == Iterate(kv, k, "item")
        s == WalkStart(kv, k, m, up)
    IN  IF up THEN SelectSeq(is, LAMBDA i : i >= s)
        ELSE Reverse(SelectSeq(is, LAMBDA i : i <= s))

Saved(kv, k, m) == IF m.size = 0 THEN RemoveKey(kv, M(k)) ELSE SetKeyValue(kv, M(k), m)

LLen(kv, now, k) == ObjectLen(kv, now, k, "list")

ListPush(kv, now, k, left, xx, vs) ==
    LET c == CheckMeta(kv, now, k, "list")
        new == [Fresh("list", 0) EXCEPT !.min = 0, !.max = 0, !.seq = TRUE]
        push(acc, v) ==
            LET m == acc.meta
                idx == IF m.size = 0 THEN 0
                       ELSE IF left THEN Truncate(m.min) - Scale ELSE Truncate(m.max) + Scale
                m1 == IF m.size = 0 THEN m
                      ELSE IF left THEN [m EXCEPT !.min = idx] ELSE [m EXCEPT !.max = idx]
            IN  [kv |-> SetKeyValue(acc.kv, It(k, idx), v), meta |-> [m1 EXCEPT !.size = @ + 1]]
        p == FoldLeft(push, [kv |-> c.kv, meta |-> IF c.meta.type = "none" THEN new ELSE c.meta], vs)
    IN  IF ~c.ok THEN Res(kv, WrongType)
        ELSE IF xx /\ c.meta.type = "none" THEN Res(c.kv, Num(0))
        ELSE Res(SetKeyValue(p.kv, M(k), p.meta), Num(p.meta.size))

(* The other end of the walk becomes the bound, when there is one. *)
ListPopOf(kv, c, k, left) ==
    LET m == [c.meta EXCEPT !.size = @ - 1]
        walk == WalkFrom(c.kv, k, c.meta, left)
        at == IF c.meta.seq THEN IF left THEN c.meta.min ELSE c.meta.max ELSE walk[1]
        next == IF c.meta.seq THEN IF left THEN at + Scale ELSE at - Scale
                ELSE IF Len(walk) > 1 THEN walk[2] ELSE at
        m1 == IF left THEN [m EXCEPT !.min = next] ELSE [m EXCEPT !.max = next]
    IN  IF ~c.ok THEN Res(kv, WrongType)
        ELSE IF c.meta.type = "none" \/ c.meta.size = 0 THEN Res(c.kv, Null)
        ELSE Res(Saved(RemoveKey(c.kv, It(k, at)), k, m1), Str(c.kv[It(k, at)]))
ListPop(kv, now, k, left) == ListPopOf(kv, CheckMeta(kv, now, k, "list"), k, left)

(* The new index lies between the pivot and its neighbour, or one beyond    *)
(* the pivot at either end.                                                 *)
LInsertAt(c, k, before, walk, p, v) ==
    LET q == IF before THEN p - 1 ELSE p + 1
        idx == IF q \in DOMAIN walk THEN (walk[p] + walk[q]) \div 2
               ELSE IF before THEN walk[p] - Scale ELSE walk[p] + Scale
        saved(m) == Res(SetKeyValue(SetKeyValue(c.kv, It(k, idx), v), M(k), m), Num(m.size))
    IN  saved(SetMinMaxData([c.meta EXCEPT !.size = @ + 1, !.seq = FALSE], idx))
LInsertOf(kv, c, k, before, pivot, v) ==
    LET at(walk, hits) == IF hits = {} THEN Res(c.kv, Num(-1)) ELSE LInsertAt(c, k, before, walk, Min(hits), v)
        from(walk) == at(walk, {n \in DOMAIN walk : c.kv[It(k, walk[n])] = pivot})
    IN  IF ~c.ok THEN Res(kv, WrongType)
        ELSE IF c.meta.type = "none" THEN Res(c.kv, Num(0))
        ELSE from(WalkFrom(c.kv, k, c.meta, TRUE))
LInsert(kv, now, k, before, pivot, v) == LInsertOf(kv, CheckMeta(kv, now, k, "list"), k, before, pivot, v)

(* Entry number n, counted from 0 and from the end when negative. *)
Position(m, n) == IF n < 0 THEN m.size + n ELSE n
EntryAt(kv, k, m, pos) ==
    IF m.seq THEN m.min + Scale * pos ELSE WalkFrom(kv, k, m, TRUE)[pos + 1]

LIndex(kv, now, k, n) ==
    LET c == CheckMeta(kv, now, k, "list")
        pos == Position(c.meta, n)
    IN  IF ~c.ok THEN Res(kv, WrongType)
        ELSE IF c.meta.type = "none" \/ pos < 0 \/ pos >= c.meta.size THEN Res(c.kv, Null)
        ELSE Res(c.kv, Str(c.kv[It(k, EntryAt(c.kv, k, c.meta, pos))]))

LSet(kv, now, k, n, v) ==
    LET c == CheckMeta(kv, now, k, "list")
        pos == Position(c.meta, n)
    IN  IF ~c.ok THEN Res(kv, WrongType)
        ELSE IF c.meta.type = "none" THEN Res(c.kv, Null)
        ELSE IF pos < 0 \/ pos >= c.meta.size THEN Res(c.kv, Err("out of range"))
        ELSE Res(SetKeyValue(c.kv, It(k, EntryAt(c.kv, k, c.meta, pos)), v), Ok)

(* The range start .. end of positions as <<first, last>>, <<>> when empty. *)
Bounds(m, start, end) ==
    LET s == Max({0, Position(m, start)})
        e == Position(m, end)
    IN  IF s > e \/ s >= m.size THEN <<>> ELSE <<s, Min({e, m.size - 1})>>

LRange(kv, now, k, start, end) ==
    LET c == CheckMeta(kv, now, k, "list")
        b == Bounds(c.meta, start, end)
    IN  IF ~c.ok THEN Res(kv, WrongType)
        ELSE IF c.meta.type = "none" \/ b = <<>> THEN Res(c.kv, Arr(<<>>))
        ELSE Res(c.kv, Arr([n \in 1 .. b[2] - b[1] + 1 |->
                               Str(c.kv[It(k, EntryAt(c.kv, k, c.meta, b[1] + n - 1))])]))

(* Mutant: a list with holes is still taken for a sequential one. *)
LRemStaysSequential(kv, now, k, count, v) ==
    LET c == CheckMeta(kv, now, k, "list")
        want == IF count = 0 THEN c.meta.size ELSE IF count < 0 THEN -count ELSE count
        hits == SelectSeq(WalkFrom(c.kv, k, c.meta, count >= 0), LAMBDA i : c.kv[It(k, i)] = v)
        gone == {It(k, hits[n]) : n \in 1 .. Min({want, Len(hits)})}
    IN  IF ~c.ok THEN Res(kv, WrongType)
        ELSE IF c.meta.type = "none" THEN Res(c.kv, Num(0))
        ELSE Res(Saved(RemoveKeys(c.kv, gone), k, [c.meta EXCEPT !.size = @ - Cardinality(gone)]),
                 Num(Cardinality(gone)))

(* LREM keeps the bounds: the iterators that look for new ones do not see   *)
(* the deletions of the batch.  The list is walked from now on.             *)
LRemOf(kv, c, k, count, v) ==
    LET want == IF count = 0 THEN c.meta.size ELSE IF count < 0 THEN -count ELSE count
        hits == SelectSeq(WalkFrom(c.kv, k, c.meta, count >= 0), LAMBDA i : c.kv[It(k, i)] = v)
        gone == {It(k, hits[n]) : n \in 1 .. Min({want, Len(hits)})}
        m == [c.meta EXCEPT !.size = @ - Cardinality(gone), !.seq = FALSE]
    IN  IF ~c.ok THEN Res(kv, WrongType)
        ELSE IF c.meta.type = "none" THEN Res(c.kv, Num(0))
        ELSE Res(Saved(RemoveKeys(c.kv, gone), k, m), Num(Cardinality(gone)))
LRem(kv, now, k, count, v) == LRemOf(kv, CheckMeta(kv, now, k, "list"), k, count, v)

(* LTRIM cuts "ltrim" elements on the left and those after number "rtrim"   *)
(* on the right; rtrim = 0 stands for no cut on the right, also when the    *)
(* range is the first element alone.                                        *)
LTrimOf(kv, c, k, start, end) ==
    LET b == Bounds(c.meta, start, end)
        ltrim == IF b = <<>> THEN c.meta.size ELSE b[1]
        rtrim == IF b = <<>> THEN 0 ELSE b[2]
        cut(n) == n < ltrim \/ (rtrim > 0 /\ n > rtrim)
        entry(n) == EntryAt(c.kv, k, c.meta, n)
        gone == {n \in 0 .. c.meta.size - 1 : cut(n)}
        m == [c.meta EXCEPT !.size = @ - Cardinality(gone)]
        m1 == IF ltrim > 0 /\ ltrim < c.meta.size THEN [m EXCEPT !.min = entry(ltrim)] ELSE m
        m2 == IF rtrim > 0 THEN [m1 EXCEPT !.max = entry(rtrim)] ELSE m1
    IN  IF ~c.ok THEN Res(kv, WrongType)
        ELSE IF c.meta.type = "none" THEN Res(c.kv, Ok)
        ELSE Res(Saved(RemoveKeys(c.kv, {It(k, entry(n)) : n \in gone}), k, m2), Ok)
LTrim(kv, now, k, start, end) == LTrimOf(kv, CheckMeta(kv, now, k, "list"), k, start, end)

(* RPOP, then LPUSH of what it returned; an error of the second is the reply. *)
RPopLPush(kv, now, src, dst) ==
    LET pushed(p, q) == Res(q.kv, IF q.r[1] = "err" THEN q.r ELSE p.r)
        push(p) == IF p.r[1] # "str" THEN p ELSE pushed(p, ListPush(p.kv, now, dst, TRUE, FALSE, <<p.r[2]>>))
    IN  push(ListPop(kv, now, src, FALSE))

=============================================================================
