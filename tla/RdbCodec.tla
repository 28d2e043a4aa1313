----------------------------- MODULE RdbCodec ------------------------------
(* The primitives of the dump formats (snapshot.cpp, ObjectIO): lengths,    *)
(* integers, strings and scores.  A file is a sequence of units.  A unit is *)
(* a byte of ByteBits bits (8 in the code; every threshold of the code is a *)
(* power of the size of a byte, and stays one here) or the characters of a  *)
(* text, plain or compressed, which are read and written as one.            *)
EXTENDS Integers, Sequences, SequencesExt

CONSTANTS ByteBits,    \* bits of a byte, at least 5: the opcodes stay apart
          LzfMin,      \* WriteRawString compresses texts longer than this (20)
          IntTextMax,  \* longest text tried as an integer (11)
          Texts,       \* texts that are not canonical integers
          Numbers,     \* integers that are looked at
          Scores       \* finite scores, with the length of their text

VARIABLES prim, got    \* a value that was written, and what is read back

rvars == <<prim, got>>

B == 2 ^ ByteBits
Tag == 2 ^ (ByteBits - 2)      \* the two high bits of the first byte
LENERR == B ^ 4 - 1            \* REDIS_RDB_LENERR, UINT_MAX
Minus1 == -1                   \* the uint64 -1 of a failed read

(* A text: the canonical form of an integer, or a name with a length and    *)
(* the size lzf_compress gives it, 0 when that saves fewer than 4 bytes.    *)
(* A text may be a packed collection of Redis: q holds its elements.        *)
RECURSIVE DigitsOf(_)
DigitsOf(n) == IF n < 0 THEN 1 + DigitsOf(-n) ELSE IF n < 10 THEN 1 ELSE 1 + DigitsOf(n \div 10)
IntText(n) == [num |-> TRUE, n |-> n, id |-> "", len |-> DigitsOf(n), pack |-> 0, q |-> <<>>]
Name(id, len, pack) == [num |-> FALSE, n |-> 0, id |-> id, len |-> len, pack |-> pack, q |-> <<>>]
Empty == Name("", 0, 0)

Byte(n) == [b |-> n, s |-> Empty]
Chars(t) == [b |-> -1, s |-> t]
Packed(t) == [b |-> -2, s |-> t]
Bytes(s) == [i \in DOMAIN s |-> Byte(s[i])]

LittleEndian(n, k) == [i \in 1 .. k |-> (n \div (B ^ (i - 1))) % B]
BigEndian(n, k) ==
    FoldLeft(LAMBDA a, i : <<a[1] \div B, <<a[1] % B>> \o a[2]>>, <<n, <<>>>>, [i \in 1 .. k |-> i])[2]

(* Reading k units from position p of file f, and single bytes. *)
At(f, p) == f[p].b
Has(f, p, k) == p + k - 1 <= Len(f) /\ \A i \in p .. p + k - 1 : f[i].b >= 0
Number(f, p, k) == FoldLeft(LAMBDA a, i : a * B + i, 0, [i \in 1 .. k |-> At(f, p + i - 1)])
\* 64 bits, read as a signed number
Number64(f, p) == LET high == Number(f, p, 4)
                  IN  (IF high = B ^ 4 - 1 THEN -1 ELSE high) * B ^ 4 + Number(f, p + 4, 4)

-----------------------------------------------------------------------------
(* WriteLen: 6, 14, 32 or 64 bits; fixlen 8 forces the last. *)
WriteLen(len, fixlen) ==
    IF fixlen = 0 /\ len >= 0 /\ len < Tag THEN Bytes(<<len>>)
    ELSE IF fixlen = 0 /\ len >= 0 /\ len < Tag * B THEN Bytes(<<Tag + len \div B, len % B>>)
    ELSE IF fixlen = 0 /\ len >= 0 /\ len <= LENERR THEN Bytes(<<2 * Tag>> \o BigEndian(len, 4))
    ELSE Bytes(<<2 * Tag + 1>> \o BigEndian(len, 8))

(* ReadLen: the value, the next position, and whether it is the number of a *)
(* special encoding.  A file that ends gives LENERR or -1.                  *)
ReadLen(f, p) ==
    LET r(v, k, e) == [v |-> v, p |-> p + k, enc |-> e]
    IN  IF ~Has(f, p, 1) THEN r(LENERR, 0, FALSE)
        ELSE LET t == At(f, p) \div Tag
             IN  IF t = 3 THEN r(At(f, p) % Tag, 1, TRUE)
                 ELSE IF t = 0 THEN r(At(f, p), 1, FALSE)
                 ELSE IF t = 1 THEN IF Has(f, p, 2) THEN r((At(f, p) % Tag) * B + At(f, p + 1), 2, FALSE)
                                    ELSE r(LENERR, 1, FALSE)
                 ELSE IF At(f, p) = 2 * Tag /\ Has(f, p, 5) THEN r(Number(f, p + 1, 4), 5, FALSE)
                 ELSE IF At(f, p) = 2 * Tag + 1 /\ Has(f, p, 9) THEN r(Number64(f, p + 1), 9, FALSE)
                 ELSE r(Minus1, 1, FALSE)

(* The callers that keep a length in 32 bits. *)
Narrow(v) == v % (B ^ 4)

Within(v, k) == v >= -((B ^ k) \div 2) /\ v <= (B ^ k) \div 2 - 1

(* EncodeInteger: 8, 16 or 32 bits after a byte that says which; nothing    *)
(* when the value does not fit.                                             *)
EncodeInteger(v) ==
    LET k == IF Within(v, 1) THEN 1 ELSE IF Within(v, 2) THEN 2 ELSE 4
    IN  IF ~Within(v, 4) THEN <<>>
        ELSE Bytes(<<3 * Tag + (CASE k = 1 -> 0 [] k = 2 -> 1 [] OTHER -> 2)>> \o LittleEndian(v, k))

(* ReadInteger: the sign comes with the cast. *)
ReadInteger(f, p, enctype) ==
    LET k == CASE enctype = 0 -> 1 [] enctype = 1 -> 2 [] OTHER -> 4
        u == Number(Reverse(SubSeq(f, p, p + k - 1)), 1, k)
    IN  IF ~Has(f, p, k) THEN [ok |-> FALSE, p |-> Len(f) + 1, v |-> 0]
        ELSE [ok |-> TRUE, p |-> p + k, v |-> IF u >= (B ^ k) \div 2 THEN u - B ^ k ELSE u]

(* TryIntegerEncoding: only the canonical text of an integer that fits. *)
TryIntegerEncoding(t) == IF t.num THEN EncodeInteger(t.n) ELSE <<>>

(* WriteLzfStringObject: nothing when 4 bytes are not saved. *)
WriteLzfStringObject(t) ==
    IF t.len <= 4 \/ t.pack = 0 THEN <<>>
    ELSE Bytes(<<3 * Tag + 3>>) \o WriteLen(t.pack, 0) \o WriteLen(t.len, 0) \o <<Packed(t)>>

(* What an encoding wrote, or the next one when it wrote nothing. *)
Else(out, next) == IF out # <<>> THEN out ELSE next
WriteRawString(t) ==
    Else(IF t.len > 0 /\ t.len <= IntTextMax THEN TryIntegerEncoding(t) ELSE <<>>,
         Else(IF t.len > LzfMin THEN WriteLzfStringObject(t) ELSE <<>>,
              WriteLen(t.len, 0) \o (IF t.len > 0 THEN <<Chars(t)>> ELSE <<>>)))

WriteLongLongAsStringObject(v) == Else(EncodeInteger(v), WriteLen(DigitsOf(v), 0) \o <<Chars(IntText(v))>>)

(* WriteStringObject: a value the engine keeps as an integer needs no text. *)
WriteStringObject(t) == IF t.num THEN WriteLongLongAsStringObject(t.n) ELSE WriteRawString(t)

(* The characters of a text of the length that was announced. *)
TextAt(f, p, kind, len) == p <= Len(f) /\ f[p].b = kind /\ (IF kind = -1 THEN f[p].s.len ELSE f[p].s.pack) = len

LzfText(f, p, clen, len) ==
    IF Narrow(clen.v) = LENERR \/ Narrow(len.v) = LENERR THEN [st |-> "fail", t |-> Empty, p |-> p]
    ELSE IF ~TextAt(f, len.p, -2, clen.v) \/ f[len.p].s.len # len.v THEN [st |-> "fail", t |-> Empty, p |-> p]
    ELSE [st |-> "ok", t |-> f[len.p].s, p |-> len.p + 1]
ReadLzfStringObject(f, p) ==
    LET compressed(clen) == LzfText(f, p, clen, ReadLen(f, clen.p))
    IN  compressed(ReadLen(f, p))

(* ReadString: an integer that cannot be read gives the empty string, and   *)
(* an unknown encoding ends the program.                                    *)
IntegerText(i) == [st |-> "ok", t |-> IF i.ok THEN IntText(i.v) ELSE Empty, p |-> i.p]
StringOf(f, p, l) ==
    IF l.enc /\ l.v \in 0 .. 2 THEN IntegerText(ReadInteger(f, l.p, l.v))
    ELSE IF l.enc /\ l.v = 3 THEN ReadLzfStringObject(f, l.p)
    ELSE IF l.enc THEN [st |-> "abort", t |-> Empty, p |-> p]
    ELSE IF Narrow(l.v) = LENERR THEN [st |-> "fail", t |-> Empty, p |-> p]
    ELSE IF l.v = 0 THEN [st |-> "ok", t |-> Empty, p |-> l.p]
    ELSE IF TextAt(f, l.p, -1, Narrow(l.v)) THEN [st |-> "ok", t |-> f[l.p].s, p |-> l.p + 1]
    ELSE [st |-> "fail", t |-> Empty, p |-> p]
ReadString(f, p) == StringOf(f, p, ReadLen(f, p))

(* WriteDouble: three codes, or the length of the text and the text.  The   *)
(* 17 digits of the text determine the score.                               *)
Infinities == [neg |-> B - 1, pos |-> B - 2, nan |-> B - 3]
WriteDouble(s) ==
    IF s.id \in DOMAIN Infinities THEN Bytes(<<Infinities[s.id]>>)
    ELSE Bytes(<<s.len>>) \o <<Chars(s)>>

ReadDoubleValue(f, p) ==
    IF ~Has(f, p, 1) THEN [ok |-> FALSE, v |-> Empty, p |-> p]
    ELSE IF \E k \in DOMAIN Infinities : Infinities[k] = At(f, p)
      THEN [ok |-> TRUE, v |-> Name(CHOOSE k \in DOMAIN Infinities : Infinities[k] = At(f, p), 0, 0), p |-> p + 1]
    ELSE IF TextAt(f, p + 1, -1, At(f, p)) THEN [ok |-> TRUE, v |-> f[p + 1].s, p |-> p + 2]
    ELSE [ok |-> FALSE, v |-> Empty, p |-> p]

-----------------------------------------------------------------------------
Nothing == [kind |-> "none", n |-> 0, t |-> Empty, cut |-> 0]
RdbInit == prim = Nothing /\ got = Nothing

(* One value is written and read back, from the whole file or from a file   *)
(* that lost its last unit.                                                 *)
Cut(f, c) == SubSeq(f, 1, Len(f) - c)

CopyLen == \E n \in Numbers, c \in 0 .. 1 :
    /\ n >= 0
    /\ prim' = [kind |-> "len", n |-> n, t |-> Empty, cut |-> c]
    /\ got' = [Nothing EXCEPT !.kind = "len", !.n = ReadLen(Cut(WriteLen(n, 0), c), 1).v]

CopyFixedLen == \E n \in Numbers :
    /\ n >= 0
    /\ prim' = [kind |-> "fixed", n |-> n, t |-> Empty, cut |-> 0]
    /\ got' = [Nothing EXCEPT !.kind = "fixed", !.n = ReadLen(WriteLen(n, 8), 1).v]

CopyString == \E t \in Texts \cup {IntText(n) : n \in Numbers}, c \in 0 .. 1, data \in BOOLEAN :
    \E r \in {ReadString(Cut(IF data THEN WriteStringObject(t) ELSE WriteRawString(t), c), 1)} :
        /\ prim' = [kind |-> "text", n |-> 0, t |-> t, cut |-> c]
        /\ got' = [kind |-> r.st, n |-> 0, t |-> r.t, cut |-> 0]

CopyDouble == \E s \in Scores, c \in 0 .. 1 :
    LET r == ReadDoubleValue(Cut(WriteDouble(s), c), 1)
    IN  /\ prim' = [kind |-> "double", n |-> 0, t |-> s, cut |-> c]
        /\ got' = [kind |-> IF r.ok THEN "ok" ELSE "fail", n |-> 0, t |-> r.v, cut |-> 0]

RdbNext == prim = Nothing /\ (CopyLen \/ CopyFixedLen \/ CopyString \/ CopyDouble)

(* What WriteLen, WriteRawString, WriteStringObject and WriteDouble write   *)
(* is what ReadLen, ReadString and ReadDoubleValue return.  One length is   *)
(* taken for an error: UINT_MAX, which is REDIS_RDB_LENERR.                 *)
PrimitivesRight ==
    prim.cut = 0 =>
        CASE prim.kind \in {"len", "fixed"} -> got.n = prim.n
          [] prim.kind \in {"text", "double"} -> got.kind = "ok" /\ got.t = prim.t
          [] OTHER -> TRUE

(* A file that ends inside a value is noticed: ReadLen gives an error       *)
(* value, ReadString and ReadDoubleValue fail.  An integer that is cut is   *)
(* the exception: ReadString returns true with the empty string.            *)
CutNoticed ==
    prim.cut = 1 =>
        CASE prim.kind = "len" -> Narrow(got.n) = LENERR
          [] prim.kind = "text" -> got.kind = "fail" \/ (prim.t.num /\ got.t = Empty)
          [] prim.kind = "double" -> got.kind = "fail"
          [] OTHER -> TRUE
=============================================================================
