------------------------------- MODULE Codec -------------------------------
(* Data, keys and values: how they are compared (types.cpp, codec.cpp,      *)
(* engine.cpp) and how they are written to the engine and read back.  A     *)
(* Data is [enc, n, s]: nothing, a W-bit integer, a floating point number  *)
(* of P significant bits, or a text.  A behaviour looks at one choice of    *)
(* values; the order, the bounds and the round trip must hold for all.      *)
EXTENDS Integers, Sequences, FiniteSets, SequencesExt

CONSTANTS W,          \* bits of an integer (64)
          P,          \* significant bits of a floating point number (53)
          Byte,       \* values of a byte (256)
          Datas, Texts, KeyNames, TypesUsed, Scores

VARIABLES look,       \* what is looked at
          seen        \* the values looked at

cvars == <<look, seen>>

NilData == [enc |-> "nil", n |-> 0, s |-> <<>>]
IntData(n) == [enc |-> "int", n |-> n, s |-> <<>>]
FloatData(n) == [enc |-> "float", n |-> n, s |-> <<>>]
TextData(s) == [enc |-> "text", n |-> 0, s |-> s]
IsNil(d) == d.enc = "nil"
IsNumber(d) == d.enc \in {"int", "float"}

Sign(n) == IF n > 0 THEN 1 ELSE IF n < 0 THEN -1 ELSE 0
Abs(n) == IF n < 0 THEN -n ELSE n

(* A difference of two integers keeps W bits. *)
Wrapped(n) == ((n + 2^(W - 1)) % 2^W) - 2^(W - 1)
(* An integer as floating point: to the nearest, ties to even. *)
ToFloat(n) == LET u == IF Abs(n) < 2^P THEN 1 ELSE IF Abs(n) < 2^(P + 1) THEN 2 ELSE 4
                  q == Abs(n) \div u
                  r == Abs(n) % u
                  m == IF 2 * r > u \/ (2 * r = u /\ q % 2 = 1) THEN q + 1 ELSE q
              IN  (IF n < 0 THEN -1 ELSE 1) * m * u
GetFloat64(d) == IF d.enc = "float" THEN d.n ELSE IF d.enc = "int" THEN ToFloat(d.n) ELSE 0

(* memcmp over the shorter length, then the lengths. *)
TextCompare(s, t) ==
    LET n == IF Len(s) < Len(t) THEN Len(s) ELSE Len(t)
        diff == {i \in 1..n : s[i] # t[i]}
    IN  IF diff = {} THEN Len(s) - Len(t)
        ELSE LET i == CHOOSE j \in diff : \A x \in diff : j <= x IN Sign(s[i] - t[i])

(* Data::Compare without alpha_cmp, as elements and values are compared. *)
DataCompare(l, r) ==
    CASE IsNil(l) \/ IsNil(r) -> (IF IsNil(r) THEN 1 ELSE 0) - (IF IsNil(l) THEN 1 ELSE 0)
      [] l.enc = "int" /\ r.enc = "int" -> Sign(Wrapped(l.n - r.n))
      [] IsNumber(l) /\ IsNumber(r) -> Sign(GetFloat64(l) - GetFloat64(r))
      [] IsNumber(l) /\ ~IsNumber(r) -> -1
      [] ~IsNumber(l) /\ IsNumber(r) -> 1
      [] OTHER -> TextCompare(l.s, r.s)

---------------------------------------------------------------------------
(* Keys: [key, type, elements], the key a text.  KeyType's numbers. *)
KEY_META == 1
KEY_END == 31
ElementsOf(type) ==
    CASE type \in {4, 6, 8, 11, 13} -> 1     \* hash field, list element, set member, zset score, stream element
      [] type \in {10, 14} -> 2              \* zset sort, stream pel
      [] type = 29 -> 3                      \* ttl sort
      [] OTHER -> 0

(* KeyObject::SetType of a new key makes room for its elements. *)
SetType(key, type) == [key |-> key, type |-> type, elements |-> [i \in 1..ElementsOf(type) |-> NilData]]

CompareFrom(a, b) ==
    LET diff == {i \in DOMAIN a : DataCompare(a[i], b[i]) # 0}
    IN  IF diff = {} THEN 0 ELSE LET i == CHOOSE j \in diff : \A x \in diff : j <= x IN DataCompare(a[i], b[i])

(* KeyObject::Compare *)
KeyCompare(x, y) ==
    LET k == DataCompare(TextData(x.key), TextData(y.key)) IN
    IF k # 0 THEN k
    ELSE IF x.type # y.type THEN x.type - y.type
    ELSE IF Len(x.elements) # Len(y.elements) THEN Len(x.elements) - Len(y.elements)
    ELSE CompareFrom(x.elements, y.elements)

(* Data::Encode and Decode: a tag, then a number, or a length and the text. *)
EncodeData(d) ==
    CASE IsNumber(d) -> <<d.enc, d.n>>
      [] d.enc = "text" -> <<"text", Len(d.s)>> \o d.s
      [] OTHER -> <<"nil">>
DecodeData(b) ==
    CASE b[1] \in {"int", "float"} -> [d |-> [enc |-> b[1], n |-> b[2], s |-> <<>>], rest |-> SubSeq(b, 3, Len(b))]
      [] b[1] = "text" -> [d |-> TextData(SubSeq(b, 3, b[2] + 2)), rest |-> SubSeq(b, b[2] + 3, Len(b))]
      [] OTHER -> [d |-> NilData, rest |-> Tail(b)]

EncodeAll(ds) == FoldLeft(LAMBDA b, d : b \o EncodeData(d), <<>>, ds)
DecodeAll(n, b) ==
    FoldLeft(LAMBDA acc, i : LET x == DecodeData(acc.rest) IN [ds |-> Append(acc.ds, x.d), rest |-> x.rest],
             [ds |-> <<>>, rest |-> b], [i \in 1..n |-> i])

(* KeyObject::Encode and Decode *)
EncodeKey(x) == <<Len(x.key)>> \o x.key \o <<x.type, Len(x.elements) % Byte>> \o EncodeAll(x.elements)
DecodeKey(b) ==
    LET n == b[1]
        e == DecodeAll(b[n + 3], SubSeq(b, n + 4, Len(b)))
    IN  [key |-> SubSeq(b, 2, n + 1), type |-> b[n + 2], elements |-> e.ds]

(* compare_keys: on what is decoded, part by part; a meta key's elements    *)
(* are not looked at.                                                       *)
compare_keys(b, c) ==
    LET x == DecodeKey(b)
        y == DecodeKey(c)
        k == TextCompare(x.key, y.key)
    IN  IF k # 0 THEN k
        ELSE IF x.type # y.type THEN x.type - y.type
        ELSE IF x.type = KEY_META THEN 0
        ELSE IF Len(x.elements) # Len(y.elements) THEN Len(x.elements) - Len(y.elements)
        ELSE CompareFrom(x.elements, y.elements)

(* Mutant: the bound keeps the type. *)
UpperBoundSame(x) == SetType(x.key, x.type)

(* The bound Find gives an iterator. *)
UpperBound(x) == SetType(x.key, IF x.type = KEY_META THEN KEY_END ELSE x.type + 1)

(* What MetaObject::Encode or the merge operation writes after the type. *)
Header(m) ==
    CASE m.type = "merge" -> <<m.head>>
      [] m.type \in {"string", "hash", "set", "zset", "list", "stream"} ->
            <<m.ttl>> \o (IF m.type = "string" THEN <<>> ELSE <<m.size>>)
                     \o (IF m.type \in {"list", "stream"} THEN <<m.head>> ELSE <<>>)
      [] OTHER -> <<>>

(* ValueObject::Encode: the number of values is one byte. *)
EncodeValue(m) == <<m.type>> \o Header(m) \o <<Len(m.vals) % Byte>> \o EncodeAll(m.vals)

(* ValueObject::Decode, with the defaults of what is not written. *)
NewValue(type) == [type |-> type, ttl |-> 0, size |-> -1, head |-> 1, vals |-> <<>>]
DecodeValue(b) ==
    LET t == b[1]
        at == CASE t = "merge" -> 3 [] t = "string" -> 3 [] t \in {"hash", "set", "zset"} -> 4
                [] t \in {"list", "stream"} -> 5 [] OTHER -> 2
    IN  [type |-> t,
         ttl  |-> IF t = "merge" \/ at = 2 THEN 0 ELSE b[2],
         size |-> IF at \in {4, 5} THEN b[3] ELSE -1,
         head |-> IF t = "merge" THEN b[2] ELSE IF at = 5 THEN b[4] ELSE 1,
         vals |-> DecodeAll(b[at], SubSeq(b, at + 1, Len(b))).ds]

(* StreamID::Encode: both halves big endian. *)
Half(n) == <<n \div Byte, n % Byte>>
EncodeID(id) == Half(id[1]) \o Half(id[2])
IDCompare(a, b) == IF a[1] # b[1] THEN Sign(a[1] - b[1]) ELSE Sign(a[2] - b[2])

---------------------------------------------------------------------------
(* ZRangeSpec: -inf and +inf are parsed as the greatest finite numbers. *)
MaxScore == 2^P
Infinite == MaxScore + 1
ParseScore(s) == IF Abs(s) = Infinite THEN Sign(s) * MaxScore ELSE s

InRange(spec, d) ==
    LET r == IF d < spec.min THEN -1 ELSE IF d <= spec.max THEN 0 ELSE 1
    IN  IF r = 0 /\ ~spec.contain_max /\ d = spec.max THEN 1
        ELSE IF r = 0 /\ ~spec.contain_min /\ d = spec.min THEN -1 ELSE r

(* ZLexRangeSpec::Parse of "-", "+" or <<open or closed, text>>, and InRange. *)
LexParse(lo, hi) ==
    [min |-> IF lo \in {<<"-">>, <<"+">>} THEN <<>> ELSE lo[2],
     max |-> IF hi \in {<<"-">>, <<"+">>} THEN <<>> ELSE hi[2],
     include_min |-> lo = <<"-">> \/ lo[1] = "[",
     include_max |-> hi = <<"+">> \/ hi[1] = "["]
LexRefused(s) == TextCompare(s.min, s.max) > 0 /\ s.max # <<>>

LexInRange(s, t) ==
    LET r == IF TextCompare(t, s.min) < 0 THEN -1
             ELSE IF s.max # <<>> /\ TextCompare(t, s.max) > 0 THEN 1 ELSE 0
    IN  IF r = 0 /\ ~s.include_min /\ t = s.min THEN -1
        ELSE IF r = 0 /\ ~s.include_max /\ t = s.max THEN 1 ELSE r

---------------------------------------------------------------------------
(* What is looked at. *)
KeysUsed == UNION {{[key |-> k, type |-> t, elements |-> e] : e \in [1..ElementsOf(t) -> Datas \ {NilData}]}
                   : k \in KeyNames, t \in TypesUsed}
ValuesUsed == {[NewValue(t) EXCEPT !.ttl = IF t \in {"merge", "field"} THEN 0 ELSE l, !.size = IF t \in {"hash", "list", "stream"} THEN l - 1 ELSE -1,
                                   !.head = IF t \in {"merge", "list", "stream"} THEN l % 2 ELSE 1, !.vals = vs]
               : t \in {"string", "hash", "list", "stream", "merge", "field"}, l \in 0..2,
                 vs \in {<<>>} \cup [1..1 -> Datas] \cup [1..2 -> Datas] \cup {[i \in 1..Byte |-> NilData]}}
Specs == {s \in [min : Scores, max : Scores, contain_min : BOOLEAN, contain_max : BOOLEAN] :
              ParseScore(s.min) <= ParseScore(s.max)}
Ends == {<<"-">>, <<"+">>} \cup {<<o, t>> : o \in {"(", "["}, t \in Texts}

LookOrder == \E a, b, c \in Datas : look' = "order" /\ seen' = <<a, b, c>>
LookKeys == \E x, y \in KeysUsed : look' = "keys" /\ seen' = <<x, y>>
LookValue == \E m \in ValuesUsed : look' = "value" /\ seen' = m
LookScore == \E s \in Specs, d \in Scores : look' = "score" /\ seen' = <<s, d>>
LookLex == \E lo, hi \in Ends, t \in Texts : look' = "lex" /\ seen' = <<lo, hi, t>>
LookID == \E a, b \in (0..(Byte + 1)) \X (0..(Byte + 1)) : look' = "id" /\ seen' = <<a, b>>

CodecInit == look = "none" /\ seen = <<>>
CodecNext == look = "none" /\ (LookOrder \/ LookKeys \/ LookValue \/ LookScore \/ LookLex \/ LookID)
CodecSpec == CodecInit /\ [][CodecNext]_cvars

---------------------------------------------------------------------------
(* Integers so far apart that their difference overflows; integers that     *)
(* floating point cannot tell apart, next to a floating point number.       *)
Wide(a, b) == a.enc = "int" /\ b.enc = "int" /\ Wrapped(a.n - b.n) # a.n - b.n
Blurred(ds) == (\E i \in DOMAIN ds : ds[i].enc = "float")
               /\ (\E i \in DOMAIN ds : ds[i].enc = "int" /\ ToFloat(ds[i].n) # ds[i].n)
Unordered(ds) == Blurred(ds) \/ \E i, j \in DOMAIN ds : Wide(ds[i], ds[j])

(* Data::Compare, by which every engine orders members, fields and scores,  *)
(* is a total order whose equals are the same number or the same text, but  *)
(* for integers whose difference overflows and for integers beyond the      *)
(* precision of a floating point number they are compared with.             *)
OrderTotal ==
    (look = "order" /\ ~Unordered(seen)) =>
        LET a == seen[1]
            b == seen[2]
            c == seen[3]
        IN  /\ Sign(DataCompare(a, b)) = -Sign(DataCompare(b, a))
            /\ (DataCompare(a, b) <= 0 /\ DataCompare(b, c) <= 0) => DataCompare(a, c) <= 0
            /\ DataCompare(a, b) = 0 => (a = b \/ (IsNumber(a) /\ IsNumber(b) /\ a.n = b.n))

(* The engine's order on encoded keys is KeyObject's order on the keys, and *)
(* the bound of an iterator is above every entry of its key and kind and    *)
(* of nothing that follows them: a scan of a hash ends with the hash.       *)
BoundRight ==
    look = "keys" =>
        LET x == seen[1]
            y == seen[2]
            c == compare_keys(EncodeKey(y), EncodeKey(UpperBound(x)))
        IN  /\ Sign(compare_keys(EncodeKey(x), EncodeKey(y))) = Sign(KeyCompare(x, y))
            /\ (y.key = x.key /\ (y.type = x.type \/ x.type = KEY_META)) => c < 0
            /\ (TextCompare(y.key, x.key) > 0 \/ (y.key = x.key /\ y.type > x.type /\ x.type # KEY_META)) => c >= 0

(* What is written is read back: keys, and values of every type, as long as *)
(* the number of values fits a byte; stream ids, in the order of the ids.   *)
RoundTrip ==
    /\ look = "keys" => DecodeKey(EncodeKey(seen[1])) = seen[1]
    /\ (look = "value" /\ Len(seen.vals) < Byte) => DecodeValue(EncodeValue(seen)) = seen
    /\ look = "id" => Sign(TextCompare(EncodeID(seen[1]), EncodeID(seen[2]))) = IDCompare(seen[1], seen[2])

Parsed(s) == [s EXCEPT !.min = ParseScore(s.min), !.max = ParseScore(s.max)]

(* A score range holds the scores between its ends, the ends as their       *)
(* brackets say, and tells on which side another lies, by which a scan      *)
(* stops; infinite scores are outside even of -inf +inf.  So does a lexical *)
(* range whose upper end is not empty or "-" and whose lower is not "+".    *)
RangesRight ==
    /\ (look = "score" /\ Abs(seen[2]) # Infinite) =>
          LET s == seen[1]
              d == seen[2]
              low == d < s.min \/ (d = s.min /\ ~s.contain_min)
              high == d > s.max \/ (d = s.max /\ ~s.contain_max)
          IN  InRange(Parsed(s), d) = IF high THEN 1 ELSE IF low THEN -1 ELSE 0
    /\ (look = "lex" /\ seen[1] # <<"+">> /\ seen[2] \notin {<<"-">>, <<"(", <<>>>>, <<"[", <<>>>>}
        /\ ~LexRefused(LexParse(seen[1], seen[2]))) =>
          LET lo == seen[1]
              hi == seen[2]
              t == seen[3]
              low == Len(lo) = 2 /\ (TextCompare(t, lo[2]) < 0 \/ (t = lo[2] /\ lo[1] = "("))
              high == Len(hi) = 2 /\ (TextCompare(t, hi[2]) > 0 \/ (t = hi[2] /\ hi[1] = "("))
          IN  LexInRange(LexParse(lo, hi), t) = IF low THEN -1 ELSE IF high THEN 1 ELSE 0

(* Keys and values are ordered, bounded, stored and found again as what     *)
(* they are (types.cpp, codec.cpp, compare_keys).                           *)
CodecRight == OrderTotal /\ BoundRight /\ RoundTrip /\ RangesRight

===========================================================================
