----------------------------- MODULE Listpack ------------------------------
(* The listpack (common/redis/listpack.c): elements one after the other,    *)
(* each followed by its own length, written so that it can be read from the *)
(* back.  Bytes have LpBits bits (8 in the code); the masks of the code are *)
(* powers of the size of a byte.  The characters of a string are one unit.  *)
EXTENDS Integers, Sequences, SequencesExt

CONSTANTS LpBits,       \* bits of a byte, at least 7
          LpElements,   \* elements: [int, n, id, len]; int: the text of the number n
          LpMax,        \* bound on the number of elements
          LpUnknown,    \* LP_HDR_NUMELE_UNKNOWN (65535)
          LpBytesMax    \* UINT32_MAX

VARIABLES lp, lpref   \* the listpack: bytes, num, els of [enc, size, back]; the list it should be

lpvars == <<lp, lpref>>

LB == 2 ^ LpBits
LP_HDR_SIZE == 6
LpFirst(k) == LB - (LB \div (2 ^ k))      \* k one bits, then zeros
LpLow(n, k) == [i \in 1 .. k |-> (n \div (LB ^ (i - 1))) % LB]
\* 8 bytes: the high half of a number of TLC's range is its sign
LpLow8(n) == LpLow(n, 4) \o LpLow(n \div (LB ^ 4), 4)
LpValue(bs) == FoldRight(LAMBDA b, a : a * LB + b, bs, 0)

LpFits(n, size) == n >= -(size \div 2) /\ n < size \div 2
Lp13 == (LB \div 8) * LB               \* 2^13

(* lpEncodeGetType and lpEncodeString: the bytes in front of the characters *)
(* and the length of all.                                                   *)
lpEncode(e) ==
    LET n == e.n
        r(b, extra) == [bs |-> b, size |-> Len(b) + extra]
    IN  IF e.int
          THEN IF n >= 0 /\ n < LB \div 2 THEN r(<<n>>, 0)
               ELSE IF LpFits(n, Lp13) THEN LET v == n % Lp13 IN r(<<LpFirst(2) + (v \div LB), v % LB>>, 0)
               ELSE IF LpFits(n, LB ^ 2) THEN r(<<LpFirst(4) + 1>> \o LpLow(n, 2), 0)
               ELSE IF LpFits(n, LB ^ 3) THEN r(<<LpFirst(4) + 2>> \o LpLow(n, 3), 0)
               ELSE IF LpFits(n, LB ^ 4) THEN r(<<LpFirst(4) + 3>> \o LpLow(n, 4), 0)
               ELSE r(<<LpFirst(4) + 4>> \o LpLow8(n), 0)
        ELSE IF e.len < LB \div 4 THEN r(<<(LB \div 2) + e.len>>, e.len)
        ELSE IF e.len < (LB \div 16) * LB THEN r(<<LpFirst(3) + (e.len \div LB), e.len % LB>>, e.len)
        ELSE r(<<LpFirst(4)>> \o LpLow(e.len, 4), e.len)

(* lpEncodeBacklen: 7 bits a byte, the first byte without the mark.  The    *)
(* limits are one below what would fit, except for the first.               *)
LpHalf == LB \div 2
lpEncodeBacklen(l) ==
    LET k == IF l < LpHalf THEN 1
             ELSE CHOOSE i \in 2 .. 5 : (i = 5 \/ l < LpHalf ^ i - 1) /\ \A j \in 2 .. i - 1 : l >= LpHalf ^ j - 1
    IN  [i \in 1 .. k |-> ((l \div (LpHalf ^ (k - i))) % LpHalf) + (IF i = 1 THEN 0 ELSE LpHalf)]

(* lpDecodeBacklen: from the last byte, until one has no mark. *)
lpDecodeBacklen(bs) ==
    LET rev == Reverse(bs)
        stop == CHOOSE i \in DOMAIN rev : rev[i] < LpHalf /\ \A j \in 1 .. i - 1 : rev[j] >= LpHalf
    IN  [v |-> FoldRight(LAMBDA b, a : a * LpHalf + (b % LpHalf), SubSeq(rev, 1, stop), 0), k |-> stop]

(* lpCurrentEncodedSize, from the first bytes. *)
lpCurrentEncodedSize(bs) ==
    LET b == bs[1]
    IN  IF b < LpFirst(1) THEN 1
        ELSE IF b < LpFirst(2) THEN 1 + (b % (LB \div 4))
        ELSE IF b < LpFirst(3) THEN 2
        ELSE IF b < LpFirst(4) THEN 2 + (b % (LB \div 16)) * LB + bs[2]
        ELSE CASE b = LpFirst(4) -> 5 + LpValue(SubSeq(bs, 2, 5))
               [] b = LpFirst(4) + 4 -> 9
               [] b \in LpFirst(4) + 1 .. LpFirst(4) + 3 -> b - LpFirst(4) + 2
               [] OTHER -> 1

(* lpGet: two's complement by subtraction. *)
LpSigned(u, size) == IF u >= size \div 2 THEN -(size - 1 - u) - 1 ELSE u
lpGet(bs) ==
    LET b == bs[1]
        k == b - LpFirst(4) + 1
        high == LpValue(SubSeq(bs, 6, 9))
    IN  IF b < LpFirst(1) THEN [int |-> TRUE, n |-> b]
        ELSE IF b >= LpFirst(2) /\ b < LpFirst(3)
          THEN [int |-> TRUE, n |-> LpSigned((b % (LB \div 8)) * LB + bs[2], Lp13)]
        ELSE IF b = LpFirst(4) + 4
          THEN [int |-> TRUE, n |-> (IF high >= LB ^ 4 \div 2 THEN high - LB ^ 4 ELSE high) * (LB ^ 4) + LpValue(SubSeq(bs, 2, 5))]
        ELSE IF b \in LpFirst(4) + 1 .. LpFirst(4) + 3
          THEN [int |-> TRUE, n |-> LpSigned(LpValue(SubSeq(bs, 2, k + 1)), LB ^ k)]
        ELSE [int |-> FALSE, n |-> lpCurrentEncodedSize(bs) - Len(bs)]

-----------------------------------------------------------------------------
(* Pointers are byte offsets; the elements know how many bytes they take.   *)
LpTotal(x) == lpCurrentEncodedSize(x.bs) + Len(x.back)
LpOffset(l, k) == LP_HDR_SIZE + FoldLeft(LAMBDA a, x : a + x.size + Len(x.back), 0, SubSeq(l.els, 1, k - 1))
LpAt(l, p) == CHOOSE k \in 1 .. Len(l.els) + 1 : LpOffset(l, k) = p

lpNew == [bytes |-> LP_HDR_SIZE + 1, num |-> 0, els |-> <<>>]

(* lpSkip and lpNext; lpPrev reads the length that ends in front of p.  An  *)
(* offset, 0 for NULL.                                                      *)
lpNext(l, p) ==
    LET x == l.els[LpAt(l, p)]
        q == p + lpCurrentEncodedSize(x.bs) + Len(lpEncodeBacklen(lpCurrentEncodedSize(x.bs)))
    IN  IF q = l.bytes - 1 THEN 0 ELSE q
lpPrev(l, p) ==
    IF p = LP_HDR_SIZE THEN 0
    ELSE LET d == lpDecodeBacklen(l.els[LpAt(l, p) - 1].back) IN p - d.v - Len(lpEncodeBacklen(d.v))
lpFirst(l) == IF l.els = <<>> THEN 0 ELSE LP_HDR_SIZE
lpLast(l) == lpPrev(l, l.bytes - 1)

(* lpInsert at element k: in front of it, or in its place; "none" deletes.  *)
lpInsert(l, e, k, replace) ==
    LET delete == e.len < 0
        c == lpEncode(e)
        x == [bs |-> c.bs, size |-> c.size, back |-> lpEncodeBacklen(c.size), e |-> e]
        new == IF delete THEN <<>> ELSE <<x>>
        old == IF replace THEN LpTotal(l.els[k]) ELSE 0
        bytes == l.bytes - old + (IF delete THEN 0 ELSE c.size + Len(x.back))
    IN  IF bytes > LpBytesMax THEN l
        ELSE [bytes |-> bytes,
              num |-> IF (replace /\ ~delete) \/ l.num = LpUnknown THEN l.num ELSE IF delete THEN l.num - 1 ELSE l.num + 1,
              els |-> SubSeq(l.els, 1, k - 1) \o new \o SubSeq(l.els, IF replace THEN k + 1 ELSE k, Len(l.els))]

(* lpLength counts when the header cannot tell, and may repair it. *)
lpLength(l) ==
    IF l.num # LpUnknown THEN [n |-> l.num, l |-> l]
    ELSE [n |-> Len(l.els), l |-> IF Len(l.els) < LpUnknown THEN [l EXCEPT !.num = Len(l.els)] ELSE l]

(* lpSeek goes from the nearer end; without a number it goes from the end   *)
(* the index is given from.                                                 *)
RECURSIVE LpWalk(_, _, _, _)
LpWalk(l, p, n, forward) ==
    IF n <= 0 \/ p = 0 THEN p ELSE LpWalk(l, IF forward THEN lpNext(l, p) ELSE lpPrev(l, p), n - 1, forward)
lpSeek(l, index) ==
    LET i == IF index < 0 THEN l.num + index ELSE index
    IN  IF l.num = LpUnknown
          THEN IF index < 0 THEN LpWalk(l, lpLast(l), -index - 1, FALSE) ELSE LpWalk(l, lpFirst(l), index, TRUE)
        ELSE IF i < 0 \/ i >= l.num THEN 0
        ELSE IF i > l.num \div 2 THEN LpWalk(l, lpLast(l), l.num - i - 1, FALSE)
        ELSE LpWalk(l, lpFirst(l), i, TRUE)

-----------------------------------------------------------------------------
LpInit == lp = lpNew /\ lpref = <<>>

LpNone == [int |-> FALSE, n |-> 0, id |-> "", len |-> -1]

(* lpInsert before, after (as before the next) and in place; lpAppend.  One *)
(* that does not fit leaves the listpack as it is.                          *)
LpPut == \E k \in 1 .. Len(lpref) + 1, e \in LpElements, replace \in BOOLEAN :
    /\ replace => k <= Len(lpref)
    /\ replace \/ Len(lpref) < LpMax
    /\ lp' = lpInsert(lp, e, k, replace)
    /\ lpref' = IF lp'.bytes = lp.bytes /\ lp' = lp THEN lpref
                ELSE SubSeq(lpref, 1, k - 1) \o <<e>> \o SubSeq(lpref, IF replace THEN k + 1 ELSE k, Len(lpref))
LpDelete == \E k \in 1 .. Len(lpref) :
    /\ lp' = lpInsert(lp, LpNone, k, TRUE)
    /\ lpref' = RemoveAt(lpref, k)
LpCount ==
    /\ lp' = lpLength(lp).l
    /\ UNCHANGED lpref
LpNext == LpPut \/ LpDelete \/ LpCount

(* Each element is read as it was written, the bytes in the header are      *)
(* right, and the length behind an element is the one its first bytes give: *)
(* lpNext and lpPrev meet at the same places.                               *)
ListpackSound ==
    /\ lp.bytes = LpOffset(lp, Len(lp.els) + 1) + 1
    /\ \A k \in DOMAIN lp.els : LET x == lp.els[k] IN
          /\ lpCurrentEncodedSize(x.bs) = x.size
          /\ lpGet(x.bs) = [int |-> x.e.int, n |-> IF x.e.int THEN x.e.n ELSE x.e.len]
          /\ lpPrev(lp, LpOffset(lp, k + 1)) = LpOffset(lp, k)
          /\ lpNext(lp, LpOffset(lp, k)) = (IF k < Len(lp.els) THEN LpOffset(lp, k + 1) ELSE 0)

(* lpSeek from either end and lpLength give what the list of elements says, *)
(* also while the number of elements is not known.                          *)
ListpackReads ==
    LET n == Len(lpref) IN
    /\ [k \in DOMAIN lp.els |-> lp.els[k].e] = lpref
    /\ lpLength(lp).n = n
    /\ \A i \in -n - 1 .. n :
          lpSeek(lp, i) = (IF i >= n \/ i < -n THEN 0 ELSE LpOffset(lp, IF i >= 0 THEN i + 1 ELSE n + i + 1))
=============================================================================
