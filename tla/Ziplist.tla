------------------------------ MODULE Ziplist ------------------------------
(* Redis's ziplist (common/redis/ziplist.c): entries one after the other in *)
(* a block of memory, each with the length of the one before it in 1 or 5   *)
(* bytes.  An entry is [ps, prev, v]: the bytes of that field, what it      *)
(* holds, and the value; lengths are those of the code, the bytes of a      *)
(* value are not looked at.  A pointer is a byte offset.                    *)
EXTENDS Integers, Sequences, SequencesExt, FiniteSets

CONSTANTS ZValues,     \* values: [id, len, int]; int is the size of an integer, -1 for a string
          ZMax,        \* bound on the number of entries
          ZCountMax    \* the count in the header is exact below this (UINT16_MAX)

VARIABLES zl, zref    \* the ziplist; the list it should be

zvars == <<zl, zref>>

ZIP_BIGLEN == 254
ZIPLIST_HEADER_SIZE == 10

zipPrevEncodeLength(len) == IF len < ZIP_BIGLEN THEN 1 ELSE 5
zipEncodeLength(v) == IF v.int >= 0 \/ v.len <= 63 THEN 1 ELSE IF v.len <= 16383 THEN 2 ELSE 5
zipPayload(v) == IF v.int >= 0 THEN v.int ELSE v.len
zipRawEntryLength(e) == e.ps + zipEncodeLength(e.v) + zipPayload(e.v)
zipPrevLenByteDiff(e, len) == zipPrevEncodeLength(len) - e.ps

ZSum(ents) == FoldLeft(LAMBDA a, e : a + zipRawEntryLength(e), 0, ents)
ZOffset(z, k) == ZIPLIST_HEADER_SIZE + ZSum(SubSeq(z.ents, 1, k - 1))
ZAt(z, off) == {k \in 1 .. Len(z.ents) + 1 : ZOffset(z, k) = off}   \* the entry there, the last is the end
ZIncrLength(z, n) == IF z.len < ZCountMax THEN [z EXCEPT !.len = @ + n] ELSE z

ziplistNew == [bytes |-> ZIPLIST_HEADER_SIZE + 1, tail |-> ZIPLIST_HEADER_SIZE, len |-> 0, ents |-> <<>>, ok |-> TRUE]

(* One round of __ziplistCascadeUpdate at entry k: the field of the next    *)
(* entry grows, never shrinks, and the next round looks at that entry.      *)
(* Mutant: the field is rewritten, but does not grow. *)
CascadeStepTight(a, k) ==
    LET z == a.z
        rawlen == zipRawEntryLength(z.ents[k])
    IN  IF a.stop \/ k >= Len(z.ents) THEN a ELSE [z |-> [z EXCEPT !.ents[k + 1].prev = rawlen], stop |-> TRUE]
CascadeStep(a, k) ==
    LET z == a.z
        rawlen == zipRawEntryLength(z.ents[k])
        size == zipPrevEncodeLength(rawlen)
        next == z.ents[k + 1]
        extra == size - next.ps
        last == z.tail = ZOffset(z, k + 1)
    IN  IF a.stop \/ k >= Len(z.ents) \/ next.prev = rawlen THEN [a EXCEPT !.stop = TRUE]
        ELSE IF next.ps < size
          THEN [z |-> [z EXCEPT !.ents[k + 1].ps = size, !.ents[k + 1].prev = rawlen, !.bytes = @ + extra,
                                !.tail = IF last THEN @ ELSE @ + extra],
                stop |-> FALSE]
        ELSE [z |-> [z EXCEPT !.ents[k + 1].prev = rawlen], stop |-> TRUE]
ziplistCascadeUpdate(z, k) ==
    FoldLeft(LAMBDA a, i : CascadeStep(a, i), [z |-> z, stop |-> FALSE], [i \in 1 .. Len(z.ents) - k + 1 |-> k + i - 1]).z

(* __ziplistDelete: num entries from entry k on. *)
ziplistDelete(z, k, num) ==
    LET m == IF k + num - 1 > Len(z.ents) THEN Len(z.ents) ELSE k + num - 1
        totlen == ZSum(SubSeq(z.ents, k, m))
        first == z.ents[k]
        ents == SubSeq(z.ents, 1, k - 1) \o SubSeq(z.ents, m + 1, Len(z.ents))
        d == zipPrevLenByteDiff(ents[k], first.prev)
        y == [z EXCEPT !.ents = [ents EXCEPT ![k].ps = @ + d, ![k].prev = first.prev],
                       !.bytes = @ - totlen + d,
                       !.tail = @ - totlen + (IF k < Len(ents) THEN d ELSE 0)]
        w == ZIncrLength(y, k - m - 1)
    IN  IF m < k THEN z
        ELSE IF m = Len(z.ents)
          THEN ZIncrLength([z EXCEPT !.ents = ents, !.bytes = @ - totlen, !.tail = ZOffset(z, k) - first.prev], k - m - 1)
        ELSE IF d # 0 THEN ziplistCascadeUpdate(w, k) ELSE w

(* __ziplistInsert in front of entry k.  The block is resized before the    *)
(* entries behind are moved.  When that makes it smaller, which takes a     *)
(* field of 5 bytes that could be 1 and an entry of less than 4 bytes, the  *)
(* end of the list is lost.                                                 *)
zipPrevOf(z, k) ==
    LET lastAt(i) == IF i <= Len(z.ents) THEN zipRawEntryLength(z.ents[i]) ELSE 0
    IN  IF k <= Len(z.ents) THEN z.ents[k].prev ELSE lastAt(CHOOSE i \in ZAt(z, z.tail) : TRUE)
zipEntry(prevlen, v) == [ps |-> zipPrevEncodeLength(prevlen), prev |-> prevlen, v |-> v]
zipResized(y, k, d) == ZIncrLength(IF d # 0 /\ y.ok THEN ziplistCascadeUpdate(y, k + 1) ELSE y, 1)
zipMoved(z, k, e, reqlen, d) ==
    LET isEnd == k = Len(z.ents) + 1
        moved == IF isEnd THEN z.ents ELSE [z.ents EXCEPT ![k].ps = @ + d, ![k].prev = reqlen]
    IN  [z EXCEPT !.ents = SubSeq(moved, 1, k - 1) \o <<e>> \o SubSeq(moved, k, Len(moved)),
                  !.bytes = @ + reqlen + d,
                  !.tail = IF isEnd THEN ZOffset(z, k) ELSE @ + reqlen + (IF k < Len(z.ents) THEN d ELSE 0),
                  !.ok = @ /\ reqlen + d >= 0]
zipInsertEntry(z, k, e) ==
    LET reqlen == zipRawEntryLength(e)
        d == IF k = Len(z.ents) + 1 THEN 0 ELSE zipPrevLenByteDiff(z.ents[k], reqlen)
    IN  zipResized(zipMoved(z, k, e, reqlen, d), k, d)
ziplistInsert(z, k, v) == zipInsertEntry(z, k, zipEntry(zipPrevOf(z, k), v))

(* ziplistIndex: from the head, or from the tail by the stored lengths.     *)
(* An offset, 0 for NULL.                                                   *)
ziplistIndex(z, index) ==
    LET n == Len(z.ents)
        back == FoldLeft(LAMBDA a, i :
                           IF a.left = 0 \/ ZAt(z, a.p) = {} THEN a
                           ELSE LET k == CHOOSE j \in ZAt(z, a.p) : TRUE
                                IN  IF k > n \/ z.ents[k].prev = 0 THEN a
                                    ELSE [p |-> a.p - z.ents[k].prev, left |-> a.left - 1],
                         [p |-> z.tail, left |-> -index - 1], [i \in 1 .. n + 1 |-> i])
    IN  IF index >= 0 THEN IF index < n THEN ZOffset(z, index + 1) ELSE 0
        ELSE IF n = 0 \/ back.left > 0 THEN 0 ELSE back.p

(* ziplistFind among every (skip + 1)th entry, by number or by bytes. *)
zipSame(e, v) == IF e.v.int >= 0 THEN v.int >= 0 /\ e.v.id = v.id ELSE e.v.len = v.len /\ e.v.id = v.id
ziplistFind(z, v, skip) ==
    LET hits == {k \in DOMAIN z.ents : (k - 1) % (skip + 1) = 0 /\ zipSame(z.ents[k], v)}
    IN  IF hits = {} THEN 0 ELSE CHOOSE k \in hits : \A j \in hits : k <= j

(* ziplistLen counts when the header cannot tell, and may repair it. *)
ziplistLen(z) ==
    IF z.len < ZCountMax THEN [n |-> z.len, z |-> z]
    ELSE [n |-> Len(z.ents), z |-> IF Len(z.ents) < ZCountMax THEN [z EXCEPT !.len = Len(z.ents)] ELSE z]

-----------------------------------------------------------------------------
ZInit == zl = ziplistNew /\ zref = <<>>

(* ziplistPush and ziplistInsert; ziplistDelete and ziplistDeleteRange. *)
ZInsert == \E k \in 1 .. Len(zref) + 1, v \in ZValues :
    /\ zl.ok /\ Len(zref) < ZMax
    /\ zl' = ziplistInsert(zl, k, v)
    /\ zref' = InsertAt(zref, k, v)
ZDelete == \E k \in 1 .. Len(zref), num \in 1 .. 2 :
    /\ zl.ok
    /\ zl' = ziplistDelete(zl, k, num)
    /\ zref' = SubSeq(zref, 1, k - 1) \o SubSeq(zref, k + num, Len(zref))
ZCount ==
    /\ zl.ok
    /\ zl' = ziplistLen(zl).z
    /\ UNCHANGED zref
ZNext == ZInsert \/ ZDelete \/ ZCount

(* After any inserts and deletes, and however far fields had to grow, the   *)
(* bytes and the offset of the last entry in the header are right, and each *)
(* entry holds the length of the one before it in a field that fits.        *)
ZiplistSound ==
    zl.ok =>
        /\ zl.bytes = ZIPLIST_HEADER_SIZE + ZSum(zl.ents) + 1
        /\ zl.tail = ZOffset(zl, IF zl.ents = <<>> THEN 1 ELSE Len(zl.ents))
        /\ \A k \in DOMAIN zl.ents :
              /\ zl.ents[k].prev = (IF k = 1 THEN 0 ELSE zipRawEntryLength(zl.ents[k - 1]))
              /\ zipPrevEncodeLength(zl.ents[k].prev) <= zl.ents[k].ps

(* The list read from the front, from the back by the stored lengths, by    *)
(* ziplistFind and by ziplistLen is the one that was put there.             *)
ZiplistReads ==
    zl.ok =>
        LET n == Len(zref) IN
        /\ [k \in DOMAIN zl.ents |-> zl.ents[k].v] = zref
        /\ \A i \in 0 .. n : ziplistIndex(zl, -i - 1) = ziplistIndex(zl, IF i < n THEN n - i - 1 ELSE n)
        /\ \A v \in ZValues : LET f == ziplistFind(zl, v, 0)
                              IN  IF f = 0 THEN v \notin Range(zref) ELSE zref[f] = v
        /\ ziplistLen(zl).n = n
=============================================================================
