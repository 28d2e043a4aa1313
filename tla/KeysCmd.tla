------------------------------ MODULE KeysCmd ------------------------------
(* The commands of keys.cpp that work on keys of any type. *)
EXTENDS StringType

AllKeys(kv) == {x[1] : x \in {y \in DOMAIN kv : y[2] = "meta"}}

Del(kv, now, ks) ==
    LET d == FoldLeft(LAMBDA acc, k :
                 [kv |-> DelKey(acc.kv, k), n |-> acc.n + (IF Has(acc.kv, M(k)) THEN 1 ELSE 0)],
                 [kv |-> kv, n |-> 0], ks)
    IN  Res(d.kv, Num(d.n))

Exists(kv, now, k) ==
    LET c == CheckMeta(kv, now, k, "any")
    IN  Res(c.kv, Num(IF c.meta.type = "none" THEN 0 ELSE 1))

TypeCmd(kv, now, k) == LET c == CheckMeta(kv, now, k, "any") IN Res(c.kv, Str(c.meta.type))

Touch(kv, now, ks) ==
    LET d == FoldLeft(LAMBDA acc, k :
                 LET c == CheckMeta(acc.kv, now, k, "any")
                 IN  [kv |-> c.kv, n |-> acc.n + (IF c.meta.type = "none" THEN 0 ELSE 1)],
                 [kv |-> kv, n |-> 0], ks)
    IN  Res(d.kv, Num(d.n))

(* EXPIRE and its forms with an absolute time, and PERSIST with 0. A time   *)
(* in the past deletes the key.                                             *)
PExpireat(kv, now, k, persist, time, compat) ==
    LET ttl == IF persist THEN 0 ELSE time
        past == ~persist /\ now > time /\ (~compat \/ Has(kv, M(k)))
        c == CheckMeta(kv, now, k, "any")
        g == MergeExpire(c.meta, ttl)
    IN  IF past THEN Res(DelKey(kv, k), Num(0))
        ELSE IF ~compat THEN Res(ApplyMerge(kv, k, MergeExpire(MetaOf(kv, k), ttl)), Ok)
        ELSE Res(ApplyMerge(c.kv, k, g), Num(IF g.err = "" THEN 1 ELSE 0))

PTTL(kv, now, k) ==
    LET m == MetaOf(kv, k)
    IN  IF m.type = "none" THEN Res(kv, Num(-2))
        ELSE IF m.ttl = 0 THEN Res(kv, Num(-1))
        ELSE IF m.ttl < now THEN Res(DelKey(kv, k), Num(-2))
        ELSE Res(kv, Num(m.ttl - now))

(* RENAME and RENAMENX: the destination goes first, then every entry of the *)
(* source is moved.  A source that is missing is no error.                  *)
MoveKey(kv, now, src, dst, nx) ==
    LET base == IF Has(kv, M(dst)) THEN DelKey(kv, dst) ELSE kv
        moving == {x \in DOMAIN base : x[1] = src}
        moved == [x \in {<<dst, y[2], y[3]>> : y \in moving} |-> base[<<src, x[2], x[3]>>]]
    IN  IF nx /\ Has(kv, M(dst)) THEN Res(kv, Num(0))
        ELSE Res(moved @@ RemoveKeys(base, moving),
                 IF ~nx THEN Ok ELSE Num(IF moving = {} THEN 0 ELSE 1))

(* The first key; KEYS lists every meta entry that matches. *)
Randomkey(kv, now) ==
    Res(kv, IF DOMAIN kv = {} THEN Null ELSE Str(Min({x[1] : x \in DOMAIN kv})))
KeysMatching(kv, now, pattern) ==
    LET ks == Sorted(AllKeys(kv) \cap pattern)
    IN  Res(kv, Arr([i \in DOMAIN ks |-> Str(ks[i])]))

=============================================================================
