----------------------------- MODULE StringType -----------------------------
(* The string commands of t_string.cpp.  The value of a string is in the    *)
(* meta entry: <<encoding, characters>>, where a character is a number, 1   *)
(* to 10 the digits, and the encoding is "i" (integer), "f" (floating       *)
(* point) or "s" (text).  Without "compat" a command is a merge that the engine    *)
(* applies later: here at once, and without a look at the time to live.     *)
EXTENDS Store, Bitwise

Digits == 1 .. 10   \* the characters '0' to '9'
NulChar == 0

IsNumeral(cs) == /\ Len(cs) \in 1 .. 2 /\ Range(cs) \subseteq Digits
                 /\ (Len(cs) > 1 => cs[1] # 1)
NumberOf(cs) == FoldLeft(LAMBDA n, d : 10 * n + d - 1, 0, cs)
Numeral(n) == IF n < 10 THEN <<n + 1>> ELSE <<(n \div 10) + 1, (n % 10) + 1>>

(* Data::SetString: with try_int a numeral is stored as an integer. *)
SetString(cs, try_int) == <<IF try_int /\ IsNumeral(cs) THEN "i" ELSE "s", cs>>

(* The string of a value; none for a missing one. *)
TextOf(m) == IF m.type = "string" THEN m.val[2] ELSE <<>>
AsString(m, v) == [m EXCEPT !.type = "string", !.val = v]

StringGet(kv, now, k) ==
    LET c == CheckMeta(kv, now, k, "string")
    IN  IF ~c.ok THEN Res(kv, WrongType)
        ELSE Res(c.kv, IF c.meta.type = "none" THEN Null ELSE Str(c.meta.val[2]))

(* MGET reads the values as they are. *)
MGet(kv, now, ks) ==
    Res(kv, Arr([i \in DOMAIN ks |-> IF MetaOf(kv, ks[i]).type = "string"
                                     THEN Str(MetaOf(kv, ks[i]).val[2]) ELSE Null]))

Strlen(kv, now, k) ==
    LET c == CheckMeta(kv, now, k, "string")
    IN  IF ~c.ok THEN Res(kv, WrongType) ELSE Res(c.kv, Num(Len(TextOf(c.meta))))

GetRange(kv, now, k, start, end) ==
    LET m == MetaOf(kv, k)
        n == Len(TextOf(m))
        s0 == IF start < 0 THEN n + start ELSE start
        e0 == IF end < 0 THEN n + end ELSE end
        s == IF s0 < 0 THEN 0 ELSE s0
        e1 == IF e0 < 0 THEN 0 ELSE e0
        e == IF e1 >= n THEN n - 1 ELSE e1
    IN  IF m.type = "none" THEN Res(kv, Str(<<>>))
        ELSE IF m.type # "string" THEN Res(kv, WrongType)
        ELSE Res(kv, Str(IF s > e \/ n = 0 THEN <<>> ELSE SubSeq(m.val[2], s + 1, e + 1)))

(* The Merge operations: a new meta value, or none with the error. *)
Merged(m) == [err |-> "", meta |-> m]
Failed(e, m) == [err |-> e, meta |-> m]

MergeAppend(m, cs) ==
    IF m.type \notin {"none", "string"} THEN Failed("WRONGTYPE", m)
    ELSE Merged(AsString(m, SetString(TextOf(m) \o cs, FALSE)))

MergeIncrBy(m, n) ==
    IF m.type # "none" /\ (m.type # "string" \/ m.val[1] # "i") THEN Failed("WRONGTYPE", m)
    ELSE Merged(AsString(m, <<"i", Numeral((IF m.type = "none" THEN 0 ELSE NumberOf(m.val[2])) + n)>>))

MergeIncrByFloat(m, n) ==
    IF m.type # "none" /\ (m.type # "string" \/ m.val[1] = "s") THEN Failed("WRONGTYPE", m)
    ELSE Merged(AsString(m, <<"f", Numeral((IF m.type = "none" THEN 0 ELSE NumberOf(m.val[2])) + n)>>))

MergeSetRange(m, offset, cs) ==
    LET old == TextOf(m)
        size == IF Len(old) < offset + Len(cs) THEN offset + Len(cs) ELSE Len(old)
        at(i) == IF i > offset /\ i <= offset + Len(cs) THEN cs[i - offset]
                 ELSE IF i <= Len(old) THEN old[i] ELSE NulChar
    IN  IF m.type \notin {"none", "string"} THEN Failed("WRONGTYPE", m)
        ELSE Merged(AsString(m, SetString([i \in 1 .. size |-> at(i)], FALSE)))

(* Ardb::MergeExpire *)
MergeExpire(m, ttl) ==
    IF m.type = "none" \/ m.ttl = ttl THEN Failed("NOTPERFORMED", m)
    ELSE Merged([m EXCEPT !.ttl = ttl])

(* op is "set", "nx" or "xx"; a time to live of 0 leaves the old one. *)
MergeSet(m, op, v, ttl) ==
    LET s == AsString(m, v)
    IN  IF m.type \notin {"none", "string"} THEN Failed("WRONGTYPE", m)
        ELSE IF (op = "nx" /\ m.type # "none") \/ (op = "xx" /\ m.type = "none")
          THEN Failed("NOTPERFORMED", m)
        ELSE Merged(IF ttl > 0 THEN MergeExpire(s, ttl).meta ELSE s)

(* What the engine's merge operator leaves of a merge that failed: the value. *)
ApplyMerge(kv, k, g) ==
    IF g.err # "" THEN kv ELSE SetKeyValue(kv, M(k), g.meta)

Append2(kv, now, k, cs, compat) ==
    LET c == CheckMeta(kv, now, k, "string")
        g == MergeAppend(c.meta, cs)
    IN  IF ~compat THEN Res(ApplyMerge(kv, k, MergeAppend(MetaOf(kv, k), cs)), Ok)
        ELSE IF ~c.ok THEN Res(kv, WrongType)
        ELSE Res(SetKeyValue(c.kv, M(k), g.meta), Num(Len(g.meta.val[2])))

(* INCR, DECR and their forms: a read and a write without a look at the     *)
(* time to live.                                                            *)
IncrDecrCommand(kv, now, k, n, compat) ==
    LET g == MergeIncrBy(MetaOf(kv, k), n)
    IN  IF ~compat THEN Res(ApplyMerge(kv, k, g), Ok)
        ELSE IF g.err # "" THEN Res(kv, Err(g.err))
        ELSE Res(SetKeyValue(kv, M(k), g.meta), Num(NumberOf(g.meta.val[2])))

IncrbyFloat(kv, now, k, n, compat) ==
    LET g == MergeIncrByFloat(MetaOf(kv, k), n)
    IN  IF ~compat THEN Res(ApplyMerge(kv, k, g), Ok)
        ELSE IF g.err # "" THEN Res(kv, Err(g.err))
        ELSE Res(SetKeyValue(kv, M(k), g.meta), Str(g.meta.val[2]))

SetRange(kv, now, k, offset, cs, compat) ==
    LET g == MergeSetRange(MetaOf(kv, k), offset, cs)
    IN  IF ~compat THEN Res(ApplyMerge(kv, k, g), Ok)
        ELSE IF g.err # "" THEN Res(kv, Err(g.err))
        ELSE Res(SetKeyValue(kv, M(k), g.meta), Num(Len(g.meta.val[2])))

(* GETSET does not create a key. *)
GetSet(kv, now, k, cs) ==
    LET m == MetaOf(kv, k)
    IN  IF m.type = "none" THEN Res(kv, Null)
        ELSE IF m.type # "string" THEN Res(kv, WrongType)
        ELSE Res(SetKeyValue(kv, M(k), [m EXCEPT !.val = SetString(cs, TRUE)]), Str(m.val[2]))

(* Ardb::SetString behind SET, SETNX, SETEX.  With merges, a time to live   *)
(* turns SET NX and SET XX into a SETEX, of which MergeOperation drops the  *)
(* time to live.                                                            *)
SetCommand(kv, now, k, cs, op, ttl, compat) ==
    LET c == CheckMeta(kv, now, k, "string")
        v == SetString(cs, TRUE)
        g == MergeSet(c.meta, op, v, ttl)
        m == MetaOf(kv, k)
        reply(e) == IF e = "" THEN Ok ELSE IF e = "NOTPERFORMED" THEN Null ELSE Err(e)
    IN  IF compat
          THEN IF ~c.ok THEN Res(kv, WrongType)
               ELSE Res(ApplyMerge(c.kv, k, g), reply(g.err))
        ELSE IF op = "set"
          THEN Res(SetKeyValue(kv, M(k), [AsString(NoMeta, v) EXCEPT !.ttl = ttl]), Ok)
        ELSE Res(ApplyMerge(kv, k, MergeSet(m, IF ttl > 0 THEN "set" ELSE op, v, 0)), Ok)

(* Mutant: the batch is kept when a key stops it. *)
MSetKept(kv, now, kvs, nx, compat) ==
    LET put(s, p) == SetKeyValue(s, M(p[1]), AsString(NoMeta, SetString(p[2], TRUE)))
        bad(p) == LET c == CheckMeta(kv, now, p[1], "string")
                  IN  ~c.ok \/ (nx /\ c.meta.type # "none")
        fit == SelectSeq(kvs, LAMBDA p : ~bad(p))
    IN  Res(FoldLeft(put, kv, fit), IF compat /\ nx THEN Num(IF Len(fit) < Len(kvs) THEN 0 ELSE 1) ELSE Ok)

(* MSET and MSETNX: one batch, given up as a whole by the first key that is *)
(* not a string, or exists under NX.  MSET replies OK all the same.         *)
MSet(kv, now, kvs, nx, compat) ==
    LET put(s, p, m) == SetKeyValue(s, M(p[1]), AsString(NoMeta, SetString(p[2], TRUE)))
        bad(p) == LET c == CheckMeta(kv, now, p[1], "string")
                  IN  ~c.ok \/ (nx /\ c.meta.type # "none")
        checked == FoldLeft(LAMBDA s, p : put(CheckMeta(s, now, p[1], "any").kv, p, NoMeta), kv, kvs)
        blind == FoldLeft(LAMBDA s, p :
                     IF nx THEN ApplyMerge(s, p[1], MergeSet(MetaOf(s, p[1]), "nx", SetString(p[2], TRUE), 0))
                     ELSE put(s, p, NoMeta), kv, kvs)
        failed == \E i \in DOMAIN kvs : bad(kvs[i])
    IN  IF ~compat THEN Res(blind, Ok)
        ELSE Res(IF failed THEN kv ELSE checked,
                 IF nx THEN Num(IF failed THEN 0 ELSE 1) ELSE Ok)

-----------------------------------------------------------------------------
(* The bitmap commands of t_bitset.cpp on strings.  A byte is a character   *)
(* of ByteBits bits, the first bit the most significant one.                *)

ByteBits == 4

BitAt(c, i) == (c \div 2 ^ (ByteBits - 1 - i)) % 2
Bits(cs) == [n \in 1 .. ByteBits * Len(cs) |->
                BitAt(cs[((n - 1) \div ByteBits) + 1], (n - 1) % ByteBits)]

popcount(cs) == Cardinality({n \in DOMAIN Bits(cs) : Bits(cs)[n] = 1})

(* The first bit of that value; a string is padded with zeros. *)
bitpos(cs, bit) ==
    LET hits == {n \in DOMAIN Bits(cs) : Bits(cs)[n] = bit}
    IN  IF hits # {} THEN Min(hits) - 1 ELSE IF bit = 1 THEN -1 ELSE ByteBits * Len(cs)

(* The string grows to hold the bit; a number becomes its digits. *)
MergeSetBit(m, offset, on) ==
    LET byte == offset \div ByteBits
        i == offset % ByteBits
        old == TextOf(m)
        bytes == [n \in 1 .. Max({Len(old), byte + 1}) |-> IF n <= Len(old) THEN old[n] ELSE NulChar]
        bitval == BitAt(bytes[byte + 1], i)
        new == [bytes EXCEPT ![byte + 1] = @ + (on - bitval) * 2 ^ (ByteBits - 1 - i)]
    IN  IF m.type \notin {"none", "string"} THEN Failed("WRONGTYPE", m)
        ELSE Merged(AsString(m, <<"s", new>>))
OldBit(m, offset) ==
    LET byte == offset \div ByteBits
    IN  IF byte < Len(TextOf(m)) THEN BitAt(TextOf(m)[byte + 1], offset % ByteBits) ELSE 0

SetBit(kv, now, k, offset, on, compat) ==
    LET c == CheckMeta(kv, now, k, "string")
    IN  IF ~compat THEN Res(ApplyMerge(kv, k, MergeSetBit(MetaOf(kv, k), offset, on)), Ok)
        ELSE IF ~c.ok THEN Res(kv, WrongType)
        ELSE Res(SetKeyValue(c.kv, M(k), MergeSetBit(c.meta, offset, on).meta),
                 Num(OldBit(c.meta, offset)))

(* A byte right behind the end of a text is read too: "beyond" is the bit   *)
(* found there.  Behind the digits of a number there is a zero.             *)
GetBit(kv, now, k, offset, beyond) ==
    LET c == CheckMeta(kv, now, k, "string")
        byte == offset \div ByteBits
        text == TextOf(c.meta)
    IN  IF ~c.ok THEN Res(kv, WrongType)
        ELSE IF byte = Len(text) /\ c.meta.type = "string" /\ c.meta.val[1] = "s"
          THEN Res(c.kv, Num(beyond))
        ELSE Res(c.kv, Num(OldBit(c.meta, offset)))

(* BITCOUNT and BITPOS take a range of bytes, counted from either end. *)
ByteRange(n, start, end) ==
    LET s0 == IF start < 0 THEN n + start ELSE start
        e0 == IF end < 0 THEN n + end ELSE end
        e1 == IF e0 < 0 THEN 0 ELSE e0
    IN  <<IF s0 < 0 THEN 0 ELSE s0, IF e1 >= n THEN n - 1 ELSE e1>>

Bitcount(kv, now, k, range) ==
    LET c == CheckMeta(kv, now, k, "string")
        text == TextOf(c.meta)
        r == IF range = <<>> THEN <<0, Len(text) - 1>> ELSE ByteRange(Len(text), range[1], range[2])
    IN  IF ~c.ok THEN Res(kv, WrongType)
        ELSE Res(c.kv, Num(IF r[1] > r[2] THEN 0 ELSE popcount(SubSeq(text, r[1] + 1, r[2] + 1))))

(* range is <<>>, <<start>> or <<start, end>>.  A missing key is answered   *)
(* with nil.                                                                *)
Bitpos(kv, now, k, bit, range) ==
    LET c == CheckMeta(kv, now, k, "string")
        text == TextOf(c.meta)
        n == Len(text)
        r == ByteRange(n, IF range = <<>> THEN 0 ELSE range[1], IF Len(range) = 2 THEN range[2] ELSE n - 1)
        bytes == SubSeq(text, r[1] + 1, r[2] + 1)
        pos == bitpos(bytes, bit)
    IN  IF ~c.ok THEN Res(kv, WrongType)
        ELSE IF c.meta.type = "none" THEN Res(c.kv, Null)
        ELSE IF r[1] > r[2] THEN Res(c.kv, Num(-1))
        ELSE IF Len(range) = 2 /\ bit = 0 /\ pos = ByteBits * Len(bytes) THEN Res(c.kv, Num(-1))
        ELSE Res(c.kv, Num(IF pos = -1 THEN -1 ELSE pos + ByteBits * r[1]))

BitOp(op, a, b) ==
    CASE op = "and" -> a & b
      [] op = "or"  -> a | b
      [] op = "xor" -> a ^^ b

(* BITOP into dst, and BITOPCOUNT, which counts the bits of the result and  *)
(* has no dst.  The bytes of a third source are taken from the second; junk *)
(* is what lies behind its end.                                             *)
Bitop(kv, now, op, store, dst, srcs, junk) ==
    LET first == IF store THEN dst ELSE srcs[1]
        text(i) == TextOf(MetaOf(kv, srcs[i]))
        maxlen == Max({Len(text(i)) : i \in DOMAIN srcs})
        byte(i, j) == IF Len(text(i)) < j THEN NulChar
                      ELSE IF i = 1 THEN text(1)[j]
                      ELSE IF Len(text(2)) < j THEN junk ELSE text(2)[j]
        all(j) == FoldLeft(LAMBDA b, i : BitOp(op, b, byte(i, j)), byte(1, j), [i \in 1 .. Len(srcs) - 1 |-> i + 1])
        res == [j \in 1 .. maxlen |-> IF op = "not" THEN 2 ^ ByteBits - 1 - byte(1, j) ELSE all(j)]
        bad(k) == MetaOf(kv, k).type \notin {"none", "string"}
    IN  IF (store /\ bad(dst)) \/ \E k \in Range(srcs) : bad(k) THEN Res(kv, WrongType)
        ELSE IF maxlen = 0 THEN Res(RemoveKey(kv, M(first)), Num(0))
        ELSE IF store THEN Res(SetKeyValue(kv, M(dst), AsString(MetaOf(kv, dst), SetString(res, FALSE))), Num(maxlen))
        ELSE Res(kv, Num(popcount(res)))
=============================================================================
