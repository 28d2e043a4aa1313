------------------------------- MODULE Store -------------------------------
(* The key space of one namespace as the commands see it: an ordered map of *)
(* meta values and of element entries, with the helpers of db.cpp and       *)
(* keys.cpp that every data type uses.  A key's meta value holds its type,  *)
(* its time to live, its number of elements (-1 when a command did not      *)
(* count them) and a lower and an upper bound of its elements; each element *)
(* is an entry of its own.  Commands are operators from a store to a store  *)
(* and a reply: each runs under the lock of its keys, so it is one step.    *)
(* The reply of a command is a tuple that starts with its kind.             *)
EXTENDS Integers, Sequences, FiniteSets, SequencesExt, FiniteSetsExt, Functions, TLC

CONSTANTS Keys,   \* the keys, numbers in the order the engine keeps them
          Nil     \* the empty Data

(* A value no entry holds: ValueObject of type 0. *)
NoMeta == [type |-> "none", ttl |-> 0, size |-> 0, min |-> Nil, max |-> Nil,
           seq |-> FALSE, val |-> Nil]

Fresh(type, size) == [NoMeta EXCEPT !.type = type, !.size = size]

(* The entries of a key: its meta value, and element e of kind T. *)
M(k) == <<k, "meta", Nil>>
E(k, T, e) == <<k, T, e>>

Ok == <<"ok">>
Null == <<"nil">>
Num(n) == <<"int", n>>
Str(d) == <<"str", d>>
Arr(s) == <<"arr", s>>
Err(e) == <<"err", e>>
WrongType == Err("WRONGTYPE")

Res(kv, r) == [kv |-> kv, r |-> r]

Get(kv, x) == kv[x]
Has(kv, x) == x \in DOMAIN kv
MetaOf(kv, k) == IF Has(kv, M(k)) THEN kv[M(k)] ELSE NoMeta
SetKeyValue(kv, x, v) == (x :> v) @@ kv
RemoveKey(kv, x) == Restrict(kv, DOMAIN kv \ {x})
RemoveKeys(kv, S) == Restrict(kv, DOMAIN kv \ S)

(* What an iterator finds: the elements of a key of one kind, ascending.    *)
(* Every loop over an iterator in the commands stops where the kind or the  *)
(* key of the entry changes.                                                *)
Elements(kv, k, T) == {x[3] : x \in {y \in DOMAIN kv : y[1] = k /\ y[2] = T}}
Sorted(S) == [i \in 1 .. Cardinality(S) |-> CHOOSE e \in S : Cardinality({x \in S : x < e}) = i - 1]
Iterate(kv, k, T) == Sorted(Elements(kv, k, T))

element_type(type) ==
    CASE type = "hash" -> "field"
      [] type = "list" -> "item"
      [] type = "set"  -> "member"
      [] type = "zset" -> "score"
      [] OTHER -> "none"

Expired(m, now) == m.ttl > 0 /\ m.ttl < now

(* Ardb::DelKey: the meta value of a string; meta value and all elements of *)
(* anything else.                                                           *)
DelKey(kv, k) ==
    IF MetaOf(kv, k).type = "none" THEN kv
    ELSE IF MetaOf(kv, k).type = "string" THEN RemoveKey(kv, M(k))
    ELSE RemoveKeys(kv, {x \in DOMAIN kv : x[1] = k})

(* Ardb::CheckMeta: the type is compared before the time to live, and an    *)
(* expired key is deleted and reported as missing.                          *)
CheckMeta(kv, now, k, type) ==
    LET m == MetaOf(kv, k)
    IN  IF m.type # "none" /\ type # "any" /\ m.type # type
          THEN [ok |-> FALSE, kv |-> kv, meta |-> m]
        ELSE IF m.type # "none" /\ Expired(m, now)
          THEN [ok |-> TRUE, kv |-> DelKey(kv, k), meta |-> NoMeta]
        ELSE [ok |-> TRUE, kv |-> kv, meta |-> m]

(* Ardb::ObjectLen (HLEN, SCARD, ZCARD): the count of the meta value, or a  *)
(* walk over the elements when it is -1.                                    *)
ObjectLen(kv, now, k, type) ==
    LET c == CheckMeta(kv, now, k, type)
    IN  IF ~c.ok THEN Res(kv, WrongType)
        ELSE IF c.meta.type = "none" THEN Res(c.kv, Num(0))
        ELSE IF c.meta.size >= 0 THEN Res(c.kv, Num(c.meta.size))
        ELSE Res(c.kv, Num(Cardinality(Elements(kv, k, element_type(type)))))

(* ValueObject::SetMinData, SetMaxData: the bounds only widen, unless they  *)
(* are overwritten.                                                         *)
SetMinData(m, v, overwrite) ==
    IF overwrite \/ m.min = Nil THEN [m EXCEPT !.min = v]
    ELSE IF m.min > v THEN [m EXCEPT !.min = v] ELSE m
SetMaxData(m, v, overwrite) ==
    IF overwrite \/ m.max = Nil THEN [m EXCEPT !.max = v]
    ELSE IF m.max < v THEN [m EXCEPT !.max = v] ELSE m
SetMinMaxData(m, v) == SetMaxData(SetMinData(m, v, FALSE), v, FALSE)

(* Ardb::GetMinMax: the bounds of the meta value, filled in and saved from  *)
(* the first and the last element when one is not known.  It fails on a     *)
(* key with unknown bounds and no elements.                                 *)
GetMinMax(kv, k, m) ==
    LET es == Iterate(kv, k, element_type(m.type))
        m1 == IF m.min = Nil THEN [m EXCEPT !.min = Head(es)] ELSE m
        m2 == IF m.max = Nil THEN [m1 EXCEPT !.max = Last(es)] ELSE m1
        \* an iterator that starts at the lower bound
        from == SelectSeq(es, LAMBDA e : m.min = Nil \/ e >= m.min)
    IN  IF m.type = "none" \/ (m.min # Nil /\ m.max # Nil)
          THEN [ok |-> TRUE, kv |-> kv, meta |-> m]
        ELSE IF from = <<>> THEN [ok |-> FALSE, kv |-> kv, meta |-> m]
        ELSE [ok |-> TRUE, kv |-> SetKeyValue(kv, M(k), m2), meta |-> m2]

=============================================================================
