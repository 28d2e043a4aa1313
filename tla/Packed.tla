------------------------------- MODULE Packed ------------------------------
(* Three of the packed forms that dumps of Redis hold: the intset, the      *)
(* zipmap and LZF compression (common/redis).  They do not depend on each   *)
(* other.                                                                   *)
EXTENDS Integers, Sequences, SequencesExt, FiniteSets

-----------------------------------------------------------------------------
(* The sorted array of integers (common/redis/intset.c).  The elements take *)
(* 2, 4 or 8 bytes each in one block of memory; adding an element that is   *)
(* too large for the others widens all of them in place.  A byte has IsBits *)
(* bits (8 in the code).                                                    *)

CONSTANTS IsBits, IsValues, IsMax

VARIABLES is, isref   \* [enc, len, mem]; the set it should be

isvars == <<is, isref>>

IB == 2 ^ IsBits
IsJunk == 0    \* what realloc leaves in new bytes

intset_ValueEncoding(v) ==
    IF v < -((IB ^ 4) \div 2) \/ v > (IB ^ 4) \div 2 - 1 THEN 8
    ELSE IF v < -((IB ^ 2) \div 2) \/ v > (IB ^ 2) \div 2 - 1 THEN 4
    ELSE 2

(* Reading and writing at position pos with elements of enc bytes. *)
intset_GetEncoded(s, pos, enc) ==
    LET u[i \in 0 .. enc] == IF i = 0 THEN 0 ELSE u[i - 1] + s.mem[pos * enc + i] * (IB ^ (i - 1))
    IN  IF u[enc] >= (IB ^ enc) \div 2 THEN u[enc] - IB ^ enc ELSE u[enc]
intset_Get(s, pos) == intset_GetEncoded(s, pos, s.enc)
intset_Set(s, pos, v) ==
    [s EXCEPT !.mem = [i \in DOMAIN @ |-> IF i \in pos * s.enc + 1 .. (pos + 1) * s.enc
                                            THEN (v \div (IB ^ (i - pos * s.enc - 1))) % IB ELSE @[i]]]
intsetResize(s, len) ==
    [s EXCEPT !.mem = [i \in 1 .. len * s.enc |-> IF i \in DOMAIN @ THEN @[i] ELSE IsJunk]]

(* intsetSearch: beyond the last or before the first, else by halves. *)
intsetSearch(s, v) ==
    LET go[min \in 0 .. s.len, max \in -1 .. s.len - 1] ==
            LET mid == (min + max) \div 2
                cur == intset_Get(s, mid)
            IN  IF max < min THEN [found |-> FALSE, pos |-> min]
                ELSE IF v > cur THEN go[mid + 1, max]
                ELSE IF v < cur THEN go[min, mid - 1]
                ELSE [found |-> TRUE, pos |-> mid]
    IN  IF s.len = 0 THEN [found |-> FALSE, pos |-> 0]
        ELSE IF v > intset_Get(s, s.len - 1) THEN [found |-> FALSE, pos |-> s.len]
        ELSE IF v < intset_Get(s, 0) THEN [found |-> FALSE, pos |-> 0]
        ELSE go[0, s.len - 1]

(* intsetUpgradeAndAdd: from the last element to the first, so that none is *)
(* overwritten before it is read.                                           *)
intsetUpgradeAndAdd(s, v) ==
    LET prepend == IF v < 0 THEN 1 ELSE 0
        wide == intsetResize([s EXCEPT !.enc = intset_ValueEncoding(v)], s.len + 1)
        up[k \in 0 .. s.len] ==
            IF k = s.len THEN wide ELSE intset_Set(up[k + 1], k + prepend, intset_GetEncoded(up[k + 1], k, s.enc))
    IN  [intset_Set(up[0], IF prepend = 1 THEN 0 ELSE s.len, v) EXCEPT !.len = @ + 1]

(* intsetMoveTail: memmove of the elements from position from on; in        *)
(* intsetAdd the memory has grown, len has not.                             *)
intsetMoveTail(s, from, to) ==
    [s EXCEPT !.mem = [i \in DOMAIN @ |->
        IF i \in to * s.enc + 1 .. (to + s.len - from) * s.enc THEN @[i + (from - to) * s.enc] ELSE @[i]]]

intsetAdd(s, v) ==
    LET p == intsetSearch(s, v)
        big == intsetResize(s, s.len + 1)
        gap == IF p.pos < s.len THEN intsetMoveTail(big, p.pos, p.pos + 1) ELSE big
    IN  IF intset_ValueEncoding(v) > s.enc THEN intsetUpgradeAndAdd(s, v)
        ELSE IF p.found THEN s
        ELSE [intset_Set(gap, p.pos, v) EXCEPT !.len = @ + 1]

intsetRemove(s, v) ==
    LET p == intsetSearch(s, v)
        closed == IF p.pos < s.len - 1 THEN intsetMoveTail(s, p.pos + 1, p.pos) ELSE s
    IN  IF intset_ValueEncoding(v) <= s.enc /\ p.found
          THEN [intsetResize(closed, s.len - 1) EXCEPT !.len = @ - 1]
        ELSE s

intsetFind(s, v) == intset_ValueEncoding(v) <= s.enc /\ intsetSearch(s, v).found

-----------------------------------------------------------------------------
IsInit == is = [enc |-> 2, len |-> 0, mem |-> <<>>] /\ isref = {}

IsAdd == \E v \in IsValues :
    /\ Cardinality(isref \cup {v}) <= IsMax
    /\ is' = intsetAdd(is, v)
    /\ isref' = isref \cup {v}
IsRemove == \E v \in IsValues :
    /\ is' = intsetRemove(is, v)
    /\ isref' = isref \ {v}
IsNext == IsAdd \/ IsRemove

(* The array holds exactly the integers that were added and not removed,    *)
(* each once, in ascending order, in a block of just the right size: a      *)
(* widening in place destroys none of them.                                 *)
IntsetSorted ==
    /\ is.len = Cardinality(isref) /\ Len(is.mem) = is.len * is.enc
    /\ {intset_Get(is, i) : i \in 0 .. is.len - 1} = isref
    /\ \A i \in 1 .. is.len - 1 : intset_Get(is, i - 1) < intset_Get(is, i)

(* intsetFind answers for every integer, wider ones included. *)
IntsetFinds == \A v \in IsValues : intsetFind(is, v) = (v \in isref)

-----------------------------------------------------------------------------
(* The zipmap (common/redis/zipmap.c), a map in one block of memory: keys   *)
(* and values with their lengths in 1 or 5 bytes, and up to 3 unused bytes  *)
(* behind a value.  An entry is [k, v, free]; lengths are those of the      *)
(* code, the bytes of keys and values are not looked at.                    *)

CONSTANTS ZmTexts,       \* keys and values: [id, len]
          ZmKeys,        \* those used as keys
          ZmCountMax     \* ZIPMAP_BIGLEN as the limit of the count in the header

VARIABLES zm, zmref   \* [count, bytes, ents]; the map it should be

zmvars == <<zm, zmref>>

ZIPMAP_BIGLEN == 254
ZIPMAP_VALUE_MAX_FREE == 4

zipmapEncodeLength(len) == IF len < ZIPMAP_BIGLEN THEN 1 ELSE 5
zipmapRequiredLength(k, v) ==
    k.len + v.len + 3 + (IF k.len >= ZIPMAP_BIGLEN THEN 4 ELSE 0) + (IF v.len >= ZIPMAP_BIGLEN THEN 4 ELSE 0)
zipmapRawKeyLength(e) == zipmapEncodeLength(e.k.len) + e.k.len
zipmapRawValueLength(e) == zipmapEncodeLength(e.v.len) + e.free + 1 + e.v.len
zipmapRawEntryLength(e) == zipmapRawKeyLength(e) + zipmapRawValueLength(e)

(* zipmapLookupRaw: the first entry with the key, 0 for none, and the size  *)
(* of the block.                                                            *)
zipmapLookupRaw(z, k) ==
    LET hits == {i \in DOMAIN z.ents : z.ents[i].k = k}
    IN  [at |-> IF hits = {} THEN 0 ELSE CHOOSE i \in hits : \A j \in hits : i <= j,
         totlen |-> 2 + FoldLeft(LAMBDA a, e : a + zipmapRawEntryLength(e), 0, z.ents)]

(* zipmapSet: at the end, or in the place of the old entry, which is        *)
(* widened when it is too small and cut when it leaves too much unused.     *)
zipmapSet(z, k, v) ==
    LET l == zipmapLookupRaw(z, k)
        req == zipmapRequiredLength(k, v)
        free == IF l.at = 0 THEN req ELSE zipmapRawEntryLength(z.ents[l.at])
        freelen == IF free < req THEN req ELSE free
        zmlen == IF l.at = 0 THEN l.totlen + req ELSE IF free < req THEN l.totlen - free + req ELSE l.totlen
        empty == freelen - req
        cut == empty >= ZIPMAP_VALUE_MAX_FREE
        e == [k |-> k, v |-> v, free |-> IF cut THEN 0 ELSE empty]
    IN  [count |-> IF l.at = 0 /\ z.count < ZmCountMax THEN z.count + 1 ELSE z.count,
         bytes |-> IF cut THEN zmlen - empty ELSE zmlen,
         ents |-> IF l.at = 0 THEN Append(z.ents, e) ELSE [z.ents EXCEPT ![l.at] = e]]

zipmapDel(z, k) ==
    LET l == zipmapLookupRaw(z, k)
    IN  IF l.at = 0 THEN z
        ELSE [count |-> IF z.count < ZmCountMax THEN z.count - 1 ELSE z.count,
              bytes |-> l.totlen - zipmapRawEntryLength(z.ents[l.at]),
              ents |-> RemoveAt(z.ents, l.at)]

(* zipmapGet; zipmapLen counts when the header cannot tell. *)
zipmapGet(z, k) == LET l == zipmapLookupRaw(z, k) IN IF l.at = 0 THEN {} ELSE {z.ents[l.at].v}
zipmapLen(z) ==
    IF z.count < ZmCountMax THEN [n |-> z.count, z |-> z]
    ELSE [n |-> Len(z.ents), z |-> IF Len(z.ents) < ZmCountMax THEN [z EXCEPT !.count = Len(z.ents)] ELSE z]

-----------------------------------------------------------------------------
ZmInit == zm = [count |-> 0, bytes |-> 2, ents |-> <<>>] /\ zmref = [k \in ZmKeys |-> {}]

ZmSet == \E k \in ZmKeys, v \in ZmTexts :
    /\ zm' = zipmapSet(zm, k, v)
    /\ zmref' = [zmref EXCEPT ![k] = {v}]
ZmDel == \E k \in ZmKeys :
    /\ zm' = zipmapDel(zm, k)
    /\ zmref' = [zmref EXCEPT ![k] = {}]
ZmCount ==
    /\ zm' = zipmapLen(zm).z
    /\ UNCHANGED zmref
ZmNext == ZmSet \/ ZmDel \/ ZmCount

(* The block is as large as its entries say: a value that is overwritten by *)
(* a shorter or a longer one leaves its neighbours where they are found.    *)
ZipmapSound ==
    /\ zm.bytes = zipmapLookupRaw(zm, CHOOSE k \in ZmKeys : TRUE).totlen
    /\ \A i \in DOMAIN zm.ents : zm.ents[i].free < ZIPMAP_VALUE_MAX_FREE

(* zipmapGet and zipmapLen answer as the map does. *)
ZipmapReads ==
    /\ \A k \in ZmKeys : zipmapGet(zm, k) = zmref[k]
    /\ zipmapLen(zm).n = Cardinality({k \in ZmKeys : zmref[k] # {}})

-----------------------------------------------------------------------------
(* lzf_compress and lzf_decompress (common/redis/lzf_c.c, lzf_d.c), a step  *)
(* for each round of the loop.  The table of hashes starts uninitialised    *)
(* (INIT_HTAB is 0) and hashes collide: the position it gives is any        *)
(* earlier one, or none that is usable, and only the comparison of the      *)
(* bytes decides.  A control byte holds a length and the high part of a     *)
(* distance; the fields are narrower here than in the code.                 *)

CONSTANTS LzInputs,    \* sequences of symbols
          LzSlack,     \* differences of the output's size to the input's (-4 in ardb)
          MAX_LIT,     \* longest literal run (32)
          LzOff,       \* values of the low byte of a distance (256)
          LzLen,       \* the length that says that another byte follows (7)
          LzUnroll     \* rounds of the unrolled comparison (16)

VARIABLES lz   \* the compression: input, ip, out, lit, op, room, state, peak

MAX_OFF == MAX_LIT * LzOff
MAX_REF == LzOff + LzLen + 1

(* The output: op is the number of bytes behind which the next is written.  *)
LzWrite(out, op, b) == IF op < Len(out) THEN [out EXCEPT ![op + 1] = b] ELSE Append(out, b)
LzAhead(out, op) == IF op < Len(out) THEN out ELSE Append(out, 0)   \* op++: a place for the control byte

LzMax(a, b) == IF a > b THEN a ELSE b
\* op[-lit - 1] = lit - 1 ends a run; a run of length 0 is taken back
LzEndRun(z) == [z EXCEPT !.out = IF z.lit = 0 THEN SubSeq(@, 1, z.op - 1) ELSE [@ EXCEPT ![z.op - z.lit] = z.lit - 1],
                         !.op = IF z.lit = 0 THEN @ - 1 ELSE @,
                         !.peak = LzMax(@, z.op - z.lit)]
LzStartRun(z) == [z EXCEPT !.lit = 0, !.out = LzAhead(@, z.op), !.op = @ + 1]
LzLiteral(z) ==
    LET y == [z EXCEPT !.lit = @ + 1, !.out = LzWrite(@, z.op, z.in[z.ip + 1]), !.op = @ + 1, !.ip = @ + 1, !.peak = LzMax(@, z.op + 1)]
    IN  IF y.lit = MAX_LIT THEN LzStartRun([y EXCEPT !.out = [@ EXCEPT ![y.op - y.lit] = y.lit - 1]]) ELSE y

Same(z, ref, i) == z.in[ref + i + 1] = z.in[z.ip + i + 1]

(* The length of a match: the unrolled rounds compare past maxlen. *)
LzMatch(z, ref) ==
    LET rest == Len(z.in) - z.ip - 2
        maxlen == IF rest > MAX_REF THEN MAX_REF ELSE rest
        differs == {i \in 3 .. 2 + LzUnroll : i <= rest + 1 /\ ~Same(z, ref, i)}
        start == IF maxlen > LzUnroll THEN 2 + LzUnroll ELSE 2
        loop[len \in 0 .. rest + LzUnroll + 4] == IF len < maxlen /\ Same(z, ref, len) THEN loop[len + 1] ELSE len
    IN  IF maxlen > LzUnroll /\ differs # {} THEN CHOOSE i \in differs : \A j \in differs : i <= j
        ELSE loop[start + 1]

LzUsable(z, ref) ==
    /\ ref > 0 /\ z.ip - ref - 1 < MAX_OFF
    /\ z.ip + 4 < Len(z.in)
    /\ \A i \in 0 .. 2 : Same(z, ref, i)

Refer(off, len) ==
    IF len < LzLen THEN <<off \div LzOff + len * MAX_LIT, off % LzOff>>
    ELSE <<off \div LzOff + LzLen * MAX_LIT, len - LzLen, off % LzOff>>

(* A back reference: the room is looked at after the run has been ended. *)
LzRefer(z, ref) ==
    LET len == LzMatch(z, ref)
        y == LzEndRun(z)
        code == Refer(z.ip - ref - 1, len - 2)
        w == [y EXCEPT !.out = SubSeq(@, 1, y.op) \o code, !.op = @ + Len(code), !.ip = @ + len, !.peak = LzMax(@, y.op + Len(code))]
    IN  IF y.op + 3 + 1 >= y.room THEN [y EXCEPT !.state = "full"]
        ELSE [LzStartRun(w) EXCEPT !.state = IF w.ip >= Len(w.in) - 2 THEN "tail" ELSE @]

(* The last bytes, after a look at the room for 3 of them. *)
LzFinish(z) ==
    LET go[n \in 0 .. 3] == IF n = 0 THEN z ELSE IF go[n - 1].ip < Len(z.in) THEN LzLiteral(go[n - 1]) ELSE go[n - 1]
    IN  IF z.op + 3 > z.room THEN [z EXCEPT !.state = "full"] ELSE [LzEndRun(go[3]) EXCEPT !.state = "done"]

-----------------------------------------------------------------------------
(* lzf_decompress: the output, or an error. *)
LzRefuse == [ok |-> FALSE, out |-> <<>>]
(* Byte by byte: a reference may reach into what it writes. *)
LzCopy(out, from, n) ==
    LET c[i \in 0 .. n] == IF i = 0 THEN out ELSE Append(c[i - 1], c[i - 1][from + i]) IN c[n]
RECURSIVE LzDecode(_, _, _, _)
LzDecode(in, room, ip, out) ==
    LET ctrl == in[ip]
        run == ctrl + 1
        long == ctrl \div MAX_LIT = LzLen
        len == IF long THEN LzLen + in[ip + 1] ELSE ctrl \div MAX_LIT
        lo == IF long THEN ip + 2 ELSE ip + 1
        ref == Len(out) - (ctrl % MAX_LIT) * LzOff - 1 - in[lo]
    IN  IF ip > Len(in) THEN [ok |-> TRUE, out |-> out]
        ELSE IF ctrl < MAX_LIT
          THEN IF Len(out) + run > room \/ ip + run > Len(in) THEN LzRefuse
               ELSE LzDecode(in, room, ip + run + 1, out \o SubSeq(in, ip + 1, ip + run))
        ELSE IF lo > Len(in) THEN LzRefuse
        ELSE IF Len(out) + len + 2 > room \/ ref < 0 THEN LzRefuse
        ELSE LzDecode(in, room, lo + 1, LzCopy(out, ref, len + 2))
lzf_decompress(in, room) == LzDecode(in, room, 1, <<>>)

-----------------------------------------------------------------------------
LzIdle == [in |-> <<>>, ip |-> 0, out |-> <<>>, lit |-> 0, op |-> 0, room |-> 0, state |-> "idle", peak |-> 0]
LzInit == lz = LzIdle

LzBegin == \E in \in LzInputs, slack \in LzSlack :
    /\ lz.state = "idle" /\ Len(in) + slack > 0
    /\ lz' = LzStartRun([LzIdle EXCEPT !.in = in, !.room = Len(in) + slack, !.state = "run"])
LzStep ==
    /\ lz.state = "run" /\ lz.ip < Len(lz.in) - 2
    /\ \/ \E ref \in 1 .. lz.ip - 1 : LzUsable(lz, ref) /\ lz' = LzRefer(lz, ref)
       \/ lz' = IF lz.op >= lz.room THEN [lz EXCEPT !.state = "full"] ELSE LzLiteral(lz)
LzEnd ==
    /\ lz.state = "tail" \/ (lz.state = "run" /\ lz.ip >= Len(lz.in) - 2)
    /\ lz' = LzFinish(lz)
LzNext == LzBegin \/ LzStep \/ LzEnd

(* Whatever the hash table says, what is compressed is what is decompressed *)
(* in a buffer of just its size, and a shorter buffer is refused.           *)
LzRoundTrip ==
    lz.state = "done" =>
        /\ lzf_decompress(lz.out, Len(lz.in)) = [ok |-> TRUE, out |-> lz.in]
        /\ lzf_decompress(lz.out, Len(lz.in) - 1) = LzRefuse

(* The result fits into the room, and no byte is written behind the one     *)
(* spare byte that WriteLzfStringObject allocates.                          *)
LzWithin ==
    /\ lz.peak <= lz.room + 1
    /\ lz.state = "done" => Len(lz.out) = lz.op /\ lz.op <= lz.room
=============================================================================
