------------------------------ MODULE Keyspace ------------------------------
(* Sequences of data type commands on one store, each judged against what   *)
(* Redis promises.  The state is the store of the code; after every command *)
(* its abstract value and its reply are compared with those of Redis.tla.   *)
(* Where the code departs from Redis the case is named in the action        *)
(* ("Departs"): such a step puts the store off and only FLUSHDB follows, so *)
(* every other step is known to start from a store that is right.           *)
EXTENDS Redis, HashType, SetType, ListType, ZSetType, KeysCmd

CONSTANTS Families,  \* the groups of commands to explore, one per behaviour
          Fields, Values, Members, Texts, Times, MaxVal, MaxLen,
          MaxText, MaxIdx, MaxScore

VARIABLES kv, now, family, off, last

vars == <<kv, now, family, off, last>>

---------------------------------------------------------------------------
(* The value a client sees under a key: nothing for an expired key and for  *)
(* a meta value without elements.                                           *)
Collections == {"hash", "set", "list", "zset"}

Ghost(s, k) == LET m == MetaOf(s, k)
               IN  m.type \in Collections /\ Elements(s, k, element_type(m.type)) = {}

Content(s, k) ==
    LET m == MetaOf(s, k)
        T == element_type(m.type)
    IN  CASE m.type = "hash" -> [f \in Elements(s, k, T) |-> AsText(s[E(k, T, f)])]
          [] m.type = "set" -> {Name(e) : e \in Elements(s, k, T)}
          [] m.type = "zset" ->
               [n \in {Name(e) : e \in Elements(s, k, T)} |->
                   IF Has(s, Sc(k, Text(n))) THEN s[Sc(k, Text(n))] ELSE s[Sc(k, n)]]
          [] m.type = "list" -> Items(s, k)
          [] m.type = "string" -> m.val[2]

Abs(s, t) ==
    [k \in Keys |->
        IF MetaOf(s, k).type = "none" \/ Expired(MetaOf(s, k), t) \/ Ghost(s, k) THEN Absent
        ELSE <<MetaOf(s, k).type, Content(s, k), MetaOf(s, k).ttl>>]

SameReply(a, b) == a = b \/ (a[1] = "err" /\ b[1] = "err")

(* One command: the code's result, Redis's result, the code's departure. *)
Run(code, spec, departs) ==
    /\ kv' = code.kv
    /\ off' = departs
    /\ last' = IF departs THEN "departs"
               ELSE IF Abs(code.kv, now) # spec.db THEN "content"
               ELSE IF ~SameReply(code.r, spec.r) THEN "reply"
               ELSE "agrees"
    /\ UNCHANGED <<now, family>>

Db == Abs(kv, now)

Stale(k) == Expired(MetaOf(kv, k), now)
Foreign(k, type) == MetaOf(kv, k).type \notin {"none", type}
HasTTL(k) == MetaOf(kv, k).ttl > 0
Hollow(k) == Stale(k) \/ Ghost(kv, k)   \* there is a meta value, and no value
(* CheckMeta compares the type of a key that has expired, or is empty. *)
Confused(k, type) == Foreign(k, type) /\ (Stale(k) \/ Ghost(kv, k))

Replying(spec, r) == [spec EXCEPT !.r = IF @[1] = "err" THEN @ ELSE r]

---------------------------------------------------------------------------
(* The commands that work on one key are asked of the first; the second is  *)
(* there for those that read or write two, and is filled and emptied.       *)
First == Min(Keys)

(* Hash commands *)

FieldValues == {<<p>> : p \in Fields \X Values} \cup {<<p, q>> : p, q \in Fields \X Values}
FieldLists == {<<f>> : f \in Fields} \cup {<<f, g>> : f, g \in Fields}

DoHMSet == \E k \in {First}, fvs \in FieldValues, c \in BOOLEAN :
    Run(HMSet(kv, now, k, fvs, c), RHMSet(Db, k, fvs),
        IF c THEN Confused(k, "hash") \/ (Ghost(kv, k) /\ HasTTL(k))
        ELSE Foreign(k, "hash") \/ HasTTL(k))

(* One field: HSET with several fields replies for the first and counts one. *)
DoHSet == \E k \in {First}, nx \in BOOLEAN, fvs \in FieldValues, c \in BOOLEAN :
    Run(HSet(kv, now, k, nx, fvs, c),
        LET spec == RHSet(Db, k, nx, fvs[1][1], fvs[1][2])
        IN  IF c THEN spec ELSE Replying(spec, Ok),
        \/ Len(fvs) > 1
        \/ Foreign(k, "hash")
        \/ IF c THEN Stale(k) \/ (Ghost(kv, k) /\ HasTTL(k)) ELSE HasTTL(k))

DoHGet == \E k \in {First}, f \in Fields :
    Run(HGet(kv, now, k, f), RHGet(Db, k, f), Stale(k) \/ Foreign(k, "hash"))

DoHMGet == \E k \in {First}, fs \in FieldLists :
    Run(HMGet(kv, now, k, fs), RHMGet(Db, k, fs), Stale(k) \/ (Foreign(k, "hash") /\ Ghost(kv, k)))

DoHExists == \E k \in {First}, f \in Fields :
    Run(HExists(kv, now, k, f), RHExists(Db, k, f), Confused(k, "hash"))

DoHLen == \E k \in {First} : Run(HLen(kv, now, k), RHLen(Db, k), Confused(k, "hash"))

DoHIterate == \E k \in {First}, what \in {"keys", "vals", "all"} :
    Run(HIterate(kv, now, k, what), RHIterate(Db, k, what), Confused(k, "hash"))

Floating(k, f) == Has(kv, F(k, f)) /\ kv[F(k, f)][1] = "f"
Textual(k, f) == Has(kv, F(k, f)) /\ kv[F(k, f)][1] = "s"
Below(k, f) == Has(kv, F(k, f)) => kv[F(k, f)][2] < MaxVal

DoHIncrby == \E k \in {First}, f \in Fields, float \in BOOLEAN, c \in BOOLEAN :
    /\ Below(k, f)
    /\ Run(HIncrby(kv, now, k, f, float, 1, c),
           LET spec == RHIncrby(Db, k, f, float, 1) IN IF c THEN spec ELSE Replying(spec, Ok),
           IF c THEN \/ Stale(k)
                     \/ Ghost(kv, k) /\ HasTTL(k)
                     \/ Floating(k, f) /\ ~float
           ELSE \/ Foreign(k, "hash")
                \/ HasTTL(k)
                \/ Textual(k, f)
                \/ Floating(k, f) /\ ~float)

DoHDel == \E k \in {First}, fs \in FieldLists, c \in BOOLEAN :
    Run(HDel(kv, now, k, fs, c),
        LET spec == RHDel(Db, k, fs) IN IF c THEN spec ELSE Replying(spec, Ok),
        IF c THEN Stale(k) \/ (IsInjective(fs) = FALSE /\ Has(kv, F(k, fs[1])))
        ELSE Foreign(k, "hash") \/ HasTTL(k))

HashNext ==
    /\ family = "hash" /\ ~off
    /\ \/ DoHMSet \/ DoHSet \/ DoHGet \/ DoHMGet \/ DoHExists
       \/ DoHLen \/ DoHIterate \/ DoHIncrby \/ DoHDel

---------------------------------------------------------------------------
(* Set commands *)

MemberLists == {<<e>> : e \in Members} \cup {<<e, g>> : e, g \in Members}
KeyLists == {<<k>> : k \in Keys} \cup {<<k, l>> : k, l \in Keys}
Sources == {ks \in KeyLists : First \in Range(ks)}

(* Adding to a set with members but without bounds makes bounds of the new  *)
(* members alone.                                                           *)
Unbounded(k) == MetaOf(kv, k).min = Nil \/ MetaOf(kv, k).max = Nil
LosesBounds(k, es) ==
    LET added == {e \in Range(es) : ~Has(kv, Mb(k, e))}
    IN  /\ MetaOf(kv, k).type = "set" /\ Unbounded(k) /\ added # {}
        /\ \E e \in Elements(kv, k, "member") : e < Min(added) \/ e > Max(added)

DoSAdd == \E k \in Keys, es \in MemberLists, c \in BOOLEAN :
    Run(SAdd(kv, now, k, es, c),
        LET spec == RSAdd(Db, k, es) IN IF c THEN spec ELSE Replying(spec, Ok),
        IF c THEN \/ Confused(k, "set")
                  \/ Ghost(kv, k) /\ HasTTL(k)
                  \/ ~Stale(k) /\ LosesBounds(k, es)
        ELSE Foreign(k, "set") \/ HasTTL(k))

DoSRem == \E k \in Keys, es \in MemberLists, c \in BOOLEAN :
    Run(SRem(kv, now, k, es, c),
        LET spec == RSRem(Db, k, es) IN IF c THEN spec ELSE Replying(spec, Ok),
        IF c THEN Confused(k, "set") \/ (~IsInjective(es) /\ Has(kv, Mb(k, es[1])))
        ELSE Foreign(k, "set") \/ HasTTL(k))

DoSRead == \E k \in {First}, e \in Members :
    \/ Run(SCard(kv, now, k), RSCard(Db, k), Confused(k, "set"))
    \/ Run(SIsMember(kv, now, k, e), RSIsMember(Db, k, e), Stale(k) \/ Foreign(k, "set"))
    \/ Run(SMembers(kv, now, k), RSMembers(Db, k), Stale(k) \/ Confused(k, "set"))

DoSMove == \E src, dst \in Keys, e \in Members :
    /\ ~Stale(src) /\ ~Stale(dst)   \* CheckMeta would wait for a lock this thread holds
    /\ Run(SMove(kv, now, src, dst, e), RSMove(Db, src, dst, e),
           \/ Confused(src, "set") \/ Confused(dst, "set")
           \/ MetaOf(kv, src).type = "set" /\ Has(kv, Mb(src, e)))

PickedBy(r) == CASE r[1] = "arr" -> [i \in DOMAIN r[2] |-> r[2][i][2]]
                 [] r[1] = "str" -> <<r[2]>>
                 [] OTHER -> <<>>

DoSPop == \E k \in {First}, withcount \in BOOLEAN, count \in 1 .. 2 :
    /\ withcount \/ count = 1
    /\ \E code \in {SPop(kv, now, k, withcount, count)} :
        /\ Run(code, RSPop(Db, k, withcount, count, PickedBy(code.r)), Confused(k, "set"))

DoSRandMember == \E k \in {First}, withcount \in BOOLEAN, count \in {-2, 1, 2}, high \in BOOLEAN :
    /\ withcount \/ count = 1
    /\ \E code \in {SRandMember(kv, now, k, withcount, count, high)} :
        /\ Run(code, RSRandMember(Db, k, withcount, count, PickedBy(code.r)), Confused(k, "set"))

(* An empty result found by iterating is answered with nil. *)
NilAnswer(code, how) == how # "count" /\ code.r = Null
(* A source that cannot be bounded is reported as being of another type. *)
BareGhost(ks) == \E k \in Range(ks) : Ghost(kv, k) /\ Unbounded(k)

DoSDiff == \E ks \in Sources, how \in {"reply", "count", "store"}, dst \in Keys :
    /\ how = "store" \/ dst = 1
    /\ \E code \in {SDiff(kv, now, ks, how, dst)} :
        /\ Run(code, RSDiff(Db, ks, how, dst),
               \/ NilAnswer(code, how)
               \/ BareGhost(ks)
               \/ \E k \in Range(ks) : Stale(k)
               \/ how = "store" /\ Foreign(dst, "set"))

DoSInter == \E ks \in Sources, how \in {"reply", "count", "store"}, dst \in Keys :
    /\ how = "store" \/ dst = 1
    /\ \E code \in {SInter(kv, now, ks, how, dst)}, spec \in {RSInter(Db, ks, how, dst)} :
        /\ Run(code, spec,
               \/ NilAnswer(code, how)
               \/ BareGhost(ks)
               \/ \E k \in Range(ks) : Stale(k)
               \/ (\E k \in Range(ks) : Ghost(kv, k)) /\ code.r = WrongType
               \/ how = "store" /\ Foreign(dst, "set")
               \* the destination is kept when the sets overlap in bounds only
               \/ how = "store" /\ spec.r = Num(0) /\ Abs(code.kv, now)[dst] # Absent)

DoSUnion == \E ks \in Sources, how \in {"reply", "count", "store"}, dst \in Keys :
    /\ how = "store" \/ dst = 1
    /\ \E code \in {SUnion(kv, now, ks, how, dst)} :
        /\ Run(code, RSUnion(Db, ks, how, dst),
               \/ NilAnswer(code, how)
               \/ \E k \in Range(ks) : Confused(k, "set")
               \/ how = "store" /\ Foreign(dst, "set"))

SetNext ==
    /\ family = "set" /\ ~off
    /\ \/ DoSAdd \/ DoSRem \/ DoSRead \/ DoSMove \/ DoSPop \/ DoSRandMember
       \/ DoSDiff \/ DoSInter \/ DoSUnion

---------------------------------------------------------------------------
(* List commands.  The first key holds lists of up to MaxLen elements, the  *)
(* others of one; indexes stay within -MaxIdx .. MaxIdx.                    *)

Room(k, n) == Cardinality(Indexes(kv, k)) + n <= IF k = Min(Keys) THEN MaxLen ELSE 1
LowEnough(k) == MetaOf(kv, k).type = "list" => MetaOf(kv, k).min > -MaxIdx * Scale
HighEnough(k) == MetaOf(kv, k).type = "list" => MetaOf(kv, k).max < MaxIdx * Scale
ItemLists == {<<v>> : v \in Members} \cup {<<1, 2>>}
Spots == {-2, 0, 1}   \* positions asked for, counted from either end

DoPush == \E k \in Keys, left, xx \in BOOLEAN, vs \in ItemLists :
    /\ Room(k, Len(vs))
    /\ IF left THEN LowEnough(k) ELSE HighEnough(k)
    /\ Run(ListPush(kv, now, k, left, xx, vs), RPushes(Db, k, left, xx, vs), Confused(k, "list"))

DoPop == \E k \in {First}, left \in BOOLEAN :
    Run(ListPop(kv, now, k, left), RPops(Db, k, left), Confused(k, "list"))

(* The two neighbours have no index between them: one is overwritten. *)
Exhausted(k) == \E i \in Indexes(kv, k) : i + 1 \in Indexes(kv, k)
DoLInsert == \E k \in {First}, before \in BOOLEAN, pivot, v \in Members :
    /\ Room(k, 1) /\ LowEnough(k) /\ HighEnough(k)
    /\ \E code \in {LInsert(kv, now, k, before, pivot, v)} :
        /\ Run(code, RLInsert(Db, k, before, pivot, v),
               \/ Confused(k, "list")
               \/ Exhausted(k) /\ Indexes(code.kv, k) = Indexes(kv, k) /\ code.r # Num(-1))

DoListRead == \E k \in {First} :
    \/ Run(LLen(kv, now, k), RLLen(Db, k), Confused(k, "list"))
    \/ \E n \in Spots \cup {2} : Run(LIndex(kv, now, k, n), RLIndex(Db, k, n), Confused(k, "list"))
    \/ \E s, e \in Spots : Run(LRange(kv, now, k, s, e), RLRange(Db, k, s, e), Confused(k, "list"))

(* A missing key is answered with nil, where Redis answers with an error. *)
DoLSet == \E k \in {First}, n \in Spots, v \in Members :
    \E code \in {LSet(kv, now, k, n, v)} :
        Run(code, RLSet(Db, k, n, v), code.r = Null \/ Confused(k, "list"))

DoLRem == \E k \in {First}, count \in -1 .. 2, v \in Members :
    Run(LRem(kv, now, k, count, v), RLRem(Db, k, count, v), Confused(k, "list"))

DoLTrim == \E k \in {First}, s, e \in Spots :
    Run(LTrim(kv, now, k, s, e), RLTrim(Db, k, s, e),
        \/ Confused(k, "list")
        \* the first element alone
        \/ MetaOf(kv, k).type = "list" /\ MetaOf(kv, k).size > 1 /\ Bounds(MetaOf(kv, k), s, e) = <<0, 0>>)

DoRPopLPush == \E src, dst \in Keys :
    /\ ~Stale(src) /\ ~Stale(dst)   \* CheckMeta would wait for a lock this thread holds
    /\ src = dst \/ Room(dst, 1)
    /\ LowEnough(dst)
    /\ Run(RPopLPush(kv, now, src, dst), RRPopLPush(Db, src, dst),
           \/ Foreign(dst, "list") /\ Indexes(kv, src) # {}            \* the element is lost
           \/ src = dst /\ MetaOf(kv, src).size = 1 /\ HasTTL(src))    \* the key is made anew

ListNext ==
    /\ family = "list" /\ ~off
    /\ \/ DoPush \/ DoPop \/ DoLInsert \/ DoListRead \/ DoLSet \/ DoLRem \/ DoLTrim \/ DoRPopLPush

---------------------------------------------------------------------------
(* Sorted set commands on the first key; the others hold the second source  *)
(* of a union or an intersection, a set or a sorted set.  The name 1 is a   *)
(* numeral, 5 is a word, which a set stores as text too.                    *)

Names == {1, 5}
Stored(n) == IF n = 5 THEN Text(n) ELSE n
Span(min, max, incmin, incmax) == [min |-> min, max |-> max, incmin |-> incmin, incmax |-> incmax]
ScoreRanges == {Span(1, 2, TRUE, TRUE), Span(1, 2, FALSE, TRUE), Span(1, 2, TRUE, FALSE),
                Span(1, 1, TRUE, TRUE), Span(2, 1, TRUE, TRUE)}
LexRanges == {Span(0, 0, TRUE, TRUE), Span(0, 1, TRUE, TRUE), Span(1, 5, TRUE, FALSE),
              Span(1, 0, FALSE, TRUE), Span(5, 1, TRUE, TRUE)}
Limits == {<<>>, <<1, 1>>, <<0, -1>>}
Hows == {"reply", "count", "remove"}

DoZAdd == \E k \in Keys, nx, xx, ch, incr, more \in BOOLEAN, p \in {1, 2} \X Names :
    /\ ~(nx /\ xx) /\ (incr => ~more /\ ~ch) /\ (ch => ~xx)
    /\ k # First => ~nx /\ ~xx /\ ~ch /\ ~incr /\ ~more
    /\ \E pairs \in {IF more THEN <<p, <<1, 5>>>> ELSE <<p>>} :
       \E code \in {ZAdd(kv, now, k, nx, xx, ch, incr, pairs)} :
        /\ \A x \in DOMAIN code.kv : x[2] = "score" => code.kv[x] <= MaxScore
        /\ Run(code, RZAdd(Db, k, nx, xx, ch, incr, pairs),
               \/ Confused(k, "zset")
               \/ Ghost(kv, k) /\ HasTTL(k)
               \/ code.r = Null /\ ~incr         \* XX on a missing key
               \/ more /\ p[2] = 5)              \* a member named twice

DoZRem == \E es \in {<<1>>, <<5>>, <<5, 1>>, <<1, 1>>} :
    Run(ZRem(kv, now, First, es), RZRem(Db, First, es),
        Confused(First, "zset") \/ (es = <<1, 1>> /\ Has(kv, Sc(First, Text(1)))))

DoZRead ==
    \/ Run(ZCard(kv, now, First), RZCard(Db, First), Confused(First, "zset"))
    \/ \E e \in Names : Run(ZScore(kv, now, First, e), RZScore(Db, First, e),
                             Stale(First) \/ Foreign(First, "zset"))
    \/ \E e \in Names, reverse \in BOOLEAN :
         Run(ZRank(kv, now, First, e, reverse), RZRank(Db, First, e, reverse),
             Stale(First) \/ Foreign(First, "zset"))

DoZRangeByRank == \E s, e \in Spots, reverse \in BOOLEAN, how \in {"reply", "remove"} :
    /\ how = "remove" => ~reverse
    /\ Run(ZIterateByRank(kv, now, First, s, e, reverse, how, reverse),
           RZRangeByRank(Db, First, s, e, reverse, how, reverse), Confused(First, "zset"))

AtScore(s) == {e \in Elements(kv, First, "score") : kv[Sc(First, e)] = s}
DoZRangeByScore == \E range \in ScoreRanges, limit \in Limits, reverse \in BOOLEAN, how \in Hows :
    /\ how # "reply" => ~reverse /\ limit = <<>>
    /\ Run(ZIterateByScore(kv, now, First, range, limit, reverse, how, TRUE),
           RZRangeByScore(Db, First, range, limit, reverse, how, TRUE),
           \/ Confused(First, "zset")
           \/ range.min > range.max
           \/ limit # <<>> /\ limit[2] < 1
           \* several members with the score the walk starts from
           \/ reverse /\ range.incmax /\ Cardinality(AtScore(range.max)) > 1
           \/ reverse /\ range.min = range.max /\ ~range.incmax)

DoZRangeByLex == \E range \in LexRanges, limit \in Limits, reverse \in BOOLEAN, how \in Hows :
    /\ how # "reply" => ~reverse /\ limit = <<>>
    /\ Run(ZIterateByLex(kv, now, First, range, limit, reverse, how),
           RZRangeByLex(Db, First, range, limit, reverse, how),
           \/ Confused(First, "zset")
           \/ range.max # 0 /\ range.min > range.max
           \/ limit # <<>> /\ limit[2] < 1
           \* a walk down from "+" starts, and ends, at the first member
           \/ reverse /\ range.max = 0 /\ Cardinality(Elements(kv, First, "score")) > 1)

(* The reply has the score first. *)
ScoreFirst(spec, at) ==
    [spec EXCEPT !.r = IF @[1] # "arr" THEN @
                       ELSE Arr([i \in DOMAIN @[2] |->
                                    IF i < at THEN @[2][i]
                                    ELSE IF (i - at) % 2 = 0 THEN @[2][i + 1] ELSE @[2][i - 1]])]
DoZPop == \E reverse \in BOOLEAN :
    \/ \E count \in 1 .. 2 :
         Run(ZPop(kv, now, First, count, reverse, FALSE),
             ScoreFirst(RZPop(Db, First, count, reverse, <<>>), 1), Confused(First, "zset"))
    \/ \E ks \in Sources :
         Run(BZPop(kv, now, ks, reverse), ScoreFirst(RBZPop(Db, ks, reverse), 2),
             \E k \in Range(ks) : Confused(k, "zset"))

DoZMake == \E k \in Keys \ {First}, n \in Names :
    Run(SAdd(kv, now, k, <<Stored(n)>>, TRUE), RSAdd(Db, k, <<n>>), Confused(k, "set") \/ Hollow(k))

(* A set's numbers are not found among the names of a sorted set, which are *)
(* texts, and a sorted set made of them is not found by name.               *)
HasNumbers(s, k) == \E x \in DOMAIN s : x[1] = k /\ x[2] \in {"member", "score"} /\ EncodingOf(x[3]) = "int"
DoZStore == \E dst \in Keys, srcs \in {<<1>>, <<1, 2>>, <<2, 1>>}, w \in {1, 2},
              aggregate \in {"sum", "min", "max"}, inter \in BOOLEAN :
    /\ (w = 2) = (aggregate = "max")
    /\ Len(srcs) = 1 => aggregate = "sum"
    /\ \E weights \in {<<1, w>>} :
       \E code \in {ZStore(kv, now, dst, srcs, weights, aggregate, inter)} :
        /\ \A x \in DOMAIN code.kv : x[2] = "score" => code.kv[x] <= MaxScore
        /\ Run(code, RZStore(Db, dst, srcs, weights, aggregate, inter),
               \/ \E k \in Range(srcs) : MetaOf(kv, k).type \notin {"none", "zset", "set"} /\ Hollow(k)
               \/ code.r = Err("no iterator")
               \/ HasNumbers(code.kv, dst)
               \/ inter /\ \E k \in Range(srcs) : HasNumbers(kv, k))

ZSetNext ==
    /\ family = "zset" /\ ~off
    /\ \/ DoZAdd \/ DoZRem \/ DoZRead \/ DoZRangeByRank \/ DoZRangeByScore \/ DoZRangeByLex
       \/ DoZPop \/ DoZMake \/ DoZStore

---------------------------------------------------------------------------
(* Commands on keys of any type.  They have a family of their own, with one *)
(* command for each type to make a key; the other families take the few     *)
(* that put keys of another type or with a time to live in their way.       *)

Own == family \in {"keys", "string"}

DoDel == \E ks \in KeyLists : (Own \/ Len(ks) = 1) /\ Run(Del(kv, now, ks), RDel(Db, ks), \E k \in Range(ks) : Hollow(k))

DoInspect == \E k \in Keys :
    \/ Run(Exists(kv, now, k), RExists(Db, k), Ghost(kv, k) /\ ~Stale(k))
    \/ Run(TypeCmd(kv, now, k), RType(Db, k), Ghost(kv, k) /\ ~Stale(k))
    \/ Run(Touch(kv, now, <<k>>), RTouch(Db, <<k>>), Ghost(kv, k) /\ ~Stale(k))
    \/ Run(PTTL(kv, now, k), RPTTL(Db, k, now), Ghost(kv, k) /\ ~Stale(k))

DoKeys == \E pattern \in {Keys} \cup {{k} : k \in Keys} :
    Run(KeysMatching(kv, now, pattern), RKeys(Db, pattern), \E k \in pattern : Hollow(k))

DoRandomkey ==
    \E code \in {Randomkey(kv, now)} :
        Run(code, RRandomkey(Db, code.r[Len(code.r)]), \E k \in Keys : Hollow(k))

(* The reply to a time in the past, and to the time there is, is 0. *)
DoExpire == \E k \in Keys, persist \in BOOLEAN, time \in Times, c \in BOOLEAN :
    /\ persist => c
    /\ ~Own => k = Min(Keys) /\ time = Min(Times) /\ c
    /\ Run(PExpireat(kv, now, k, persist, time, c),
           LET spec == RExpire(Db, k, persist, time, now) IN IF c THEN spec ELSE Replying(spec, Ok),
           \/ ~persist /\ Has(kv, M(k)) /\ (time < now \/ MetaOf(kv, k).ttl = time)
           \/ ~persist /\ ~c /\ time < now
           \/ Ghost(kv, k)
           \/ Stale(k) /\ ~c)

DoRename == \E src, dst \in Keys, nx \in BOOLEAN :
    Run(MoveKey(kv, now, src, dst, nx), RRename(Db, src, dst, nx),
        \/ src = dst /\ Has(kv, M(src)) /\ ~nx
        \/ ~Has(kv, M(src))
        \/ Hollow(src) \/ Hollow(dst))

Loose(k) == MetaOf(kv, k).type \in Collections   \* has elements that SET would leave behind

DoSet == \E k \in Keys, cs \in Texts, op \in {"set", "nx", "xx"}, ttl \in Times \cup {0}, c \in BOOLEAN :
    /\ ~Own => op = "set" /\ ttl = 0 /\ c /\ cs = (IF family = "bits" /\ k # First THEN <<>> ELSE <<2>>)
    /\ k # First => op = "set" /\ ttl = 0
    /\ ttl = 0 \/ ttl >= now
    /\ Run(SetCommand(kv, now, k, cs, op, ttl, c),
           LET spec == RSet(Db, k, cs, op, ttl) IN IF c THEN spec ELSE Replying(spec, Ok),
           \/ Loose(k)                                   \* WRONGTYPE, or orphans
           \/ c /\ ttl = 0 /\ HasTTL(k) /\ ~Stale(k) /\ op # "nx"   \* the time to live is kept
           \/ ~c /\ op # "set" /\ (ttl > 0 \/ HasTTL(k)))

DoMake == \E k \in Keys :
    \/ Run(SAdd(kv, now, k, <<1>>, TRUE), RSAdd(Db, k, <<1>>), Hollow(k))
    \/ Run(SRem(kv, now, k, <<1>>, FALSE), Replying(RSRem(Db, k, <<1>>), Ok), Foreign(k, "set") \/ HasTTL(k))
    \/ Run(HMSet(kv, now, k, <<<<1, <<"i", 1>>>>>>, TRUE), RHMSet(Db, k, <<<<1, <<"i", 1>>>>>>), Hollow(k))
    \/ Indexes(kv, k) = {} /\ Run(ListPush(kv, now, k, TRUE, FALSE, <<1>>), RPushes(Db, k, TRUE, FALSE, <<1>>), Hollow(k))

KeysNext ==
    \/ ~off /\ Own /\ (DoInspect \/ DoKeys \/ DoRandomkey \/ DoRename)
    \/ ~off /\ family = "keys" /\ DoMake
    \/ ~off /\ (DoDel \/ DoExpire \/ DoSet)

---------------------------------------------------------------------------
(* String commands *)

Encoded(k, enc) == MetaOf(kv, k).type = "string" /\ MetaOf(kv, k).val[1] = enc
Longest(k, n) == Len(TextOf(MetaOf(kv, k))) + n <= MaxText
(* A numeral that APPEND or SETRANGE put together is not stored as a number. *)
HiddenNumber(k) == Encoded(k, "s") /\ IsNumeral(MetaOf(kv, k).val[2])
Counts(k) == IsNumeral(TextOf(MetaOf(kv, k))) => NumberOf(TextOf(MetaOf(kv, k))) < MaxVal

DoStringRead == \E k \in {First} :
    \/ Run(StringGet(kv, now, k), RGet(Db, k), Confused(k, "string"))
    \/ Run(Strlen(kv, now, k), RStrlen(Db, k), Confused(k, "string"))
    \/ \E j \in Keys : Run(MGet(kv, now, <<k, j>>), RMGet(Db, <<k, j>>), Stale(k) \/ Stale(j))
    \/ \E start, end \in {-3, -1, 1, 3} :
         Run(GetRange(kv, now, k, start, end), RGetRange(Db, k, start, end), Stale(k))

DoAppend == \E k \in {First}, cs \in Texts, c \in BOOLEAN :
    /\ Longest(k, Len(cs))
    /\ Run(Append2(kv, now, k, cs, c),
           LET spec == RAppend(Db, k, cs) IN IF c THEN spec ELSE Replying(spec, Ok),
           Confused(k, "string") \/ (~c /\ Stale(k)))

DoSetRange == \E k \in {First}, offset \in 0 .. MaxText - 1, cs \in Texts, c \in BOOLEAN :
    /\ offset + Len(cs) <= MaxText
    /\ Run(SetRange(kv, now, k, offset, cs, c),
           LET spec == RSetRange(Db, k, offset, cs) IN IF c THEN spec ELSE Replying(spec, Ok),
           Stale(k))

DoIncr == \E k \in {First}, float \in BOOLEAN, c \in BOOLEAN :
    /\ Counts(k)
    /\ Run(IF float THEN IncrbyFloat(kv, now, k, 1, c) ELSE IncrDecrCommand(kv, now, k, 1, c),
           LET spec == RIncrby(Db, k, 1, float) IN IF c THEN spec ELSE Replying(spec, Ok),
           \/ Stale(k)
           \/ HiddenNumber(k)
           \/ Encoded(k, "f") /\ ~float
           \/ ~c /\ Encoded(k, "s"))

DoGetSet == \E k \in Keys, cs \in Texts :
    Run(GetSet(kv, now, k, cs), RGetSet(Db, k, cs), ~Has(kv, M(k)) \/ HasTTL(k))

DoMSet == \E k \in {First}, j \in Keys, cs, ds \in Texts, nx, c \in BOOLEAN :
    LET kvs == <<<<k, cs>>, <<j, ds>>>>
        spec == RMSet(Db, kvs, nx)
    IN  Run(MSet(kv, now, kvs, nx, c), IF c THEN spec ELSE Replying(spec, Ok),
            \/ Loose(k) \/ Loose(j)
            \/ ~c /\ nx /\ (Has(kv, M(k)) \/ Has(kv, M(j)) \/ k = j))

(* Bitmap commands.  The bits that are set are few, those read are all. *)
Offsets == {0, 5}
ByteRanges == {<<>>, <<1>>, <<-1>>, <<0, -1>>, <<1, 1>>, <<-1, -2>>, <<0, 0>>}

DoSetBit == \E k \in Keys, offset \in Offsets, on \in 0 .. 1, c \in BOOLEAN :
    /\ k # First => offset = 0 /\ c
    /\ Run(SetBit(kv, now, k, offset, on, c),
           LET spec == RSetBit(Db, k, offset, on) IN IF c THEN spec ELSE Replying(spec, Ok),
           Confused(k, "string") \/ (~c /\ Stale(k)))

DoBitRead == \E k \in {First} :
    \/ \E offset \in {0, 3, 4, 5, 8, 12}, beyond \in 0 .. 1 :
         Run(GetBit(kv, now, k, offset, beyond), RGetBit(Db, k, offset),
             \/ Confused(k, "string")
             \/ beyond = 1 /\ offset \div ByteBits = Len(TextOf(MetaOf(kv, k))))
    \/ \E range \in ByteRanges :
         /\ Len(range) # 1
         /\ Run(Bitcount(kv, now, k, range), RBitcount(Db, k, range), Confused(k, "string"))
    \/ \E range \in ByteRanges, bit \in 0 .. 1 :
         Run(Bitpos(kv, now, k, bit, range), RBitpos(Db, k, bit, range),
             Confused(k, "string") \/ Db[k] = Absent)

DoBitop == \E op \in {"and", "or", "xor", "not"}, store \in BOOLEAN, dst \in Keys,
             srcs \in {<<1>>, <<1, 2>>, <<1, 1, 2>>}, junk \in {0, 5} :
    /\ op = "not" => Len(srcs) = 1
    /\ Len(srcs) < 3 => junk = 0
    /\ ~store => dst = First
    /\ store /\ dst = First => op = "and"
    /\ \E code \in {Bitop(kv, now, op, store, dst, srcs, junk)} :
        /\ Run(code, RBitop(Db, op, store, dst, srcs),
               \/ \E k \in Range(srcs) : Stale(k)
               \/ store /\ (Foreign(dst, "string") \/ HasTTL(dst))
               \/ Len(srcs) = 3 /\ TextOf(MetaOf(kv, 1)) # TextOf(MetaOf(kv, 2))
               \/ ~store /\ code.kv # kv)          \* a source that holds an empty string

BitNext ==
    /\ family = "bits" /\ ~off
    /\ DoSetBit \/ DoBitRead \/ DoBitop

StringNext ==
    /\ family = "string" /\ ~off
    /\ \/ DoStringRead \/ DoAppend \/ DoSetRange \/ DoIncr \/ DoGetSet \/ DoMSet

---------------------------------------------------------------------------
FlushDB ==
    /\ kv' = <<>>
    /\ off' = FALSE
    /\ last' = "agrees"
    /\ UNCHANGED <<now, family>>

Tick ==
    /\ now = 1
    /\ now' = 2
    /\ UNCHANGED <<kv, family, off, last>>

Init ==
    /\ kv = <<>>
    /\ now = 1
    /\ family \in Families
    /\ off = FALSE
    /\ last = "agrees"

Next == KeysNext \/ StringNext \/ BitNext \/ HashNext \/ SetNext \/ ListNext \/ ZSetNext \/ FlushDB \/ Tick

Spec == Init /\ [][Next]_vars

---------------------------------------------------------------------------
(* Every command leaves the values that Redis would leave and answers what  *)
(* Redis would answer, after any sequence of commands, except in the cases  *)
(* an action names.  It is about all the handlers of t_string.cpp,          *)
(* t_bitset.cpp, t_hash.cpp, t_set.cpp, t_list.cpp, t_zset.cpp and keys.cpp *)
(* that are modelled.                                                       *)
Agrees == last \in {"agrees", "departs"}

(* The count in a meta value is -1 or the number of elements stored: the    *)
(* commands that read it (HLEN, SCARD, ZCARD, LLEN, ranges, SPOP, HDEL) and *)
(* those that adjust it by what they believe they added or removed agree.   *)
CountsExact ==
    ~off => \A k \in Keys :
        LET m == MetaOf(kv, k)
        IN  m.type \in Collections => m.size \in {-1, Cardinality(Elements(kv, k, element_type(m.type)))}

(* No element outlives its key and none is of another kind than its key:    *)
(* DelKey, RENAME, the removals that drop an emptied key and the commands   *)
(* that overwrite a meta value without reading it leave none behind.        *)
NoOrphans ==
    ~off => \A x \in DOMAIN kv :
        x[2] = "meta" \/ element_type(MetaOf(kv, x[1]).type) = (IF x[2] = "sort" THEN "score" ELSE x[2])

(* The bounds that SetMinMaxData, SMEMBERS and GetMinMax keep in the meta   *)
(* value of a set enclose its members: SINTER and SDIFF leave out what is   *)
(* outside of them.                                                         *)
BoundsHold ==
    ~off => \A k \in Keys :
        LET m == MetaOf(kv, k)
        IN  m.type = "set" => \A e \in Elements(kv, k, "member") :
                                  (m.min # Nil => e >= m.min) /\ (m.max # Nil => e <= m.max)

(* The indexes of a list lie between its bounds, and those of a list that   *)
(* is marked sequential are all the integers between them: LINDEX, LSET,    *)
(* LRANGE, LTRIM and the pops compute an index instead of looking for it.   *)
ListIndexed ==
    ~off => \A k \in Keys :
        LET m == MetaOf(kv, k)
        IN  m.type = "list" =>
                /\ \A i \in Indexes(kv, k) : m.min <= i /\ i <= m.max
                /\ m.seq => Indexes(kv, k) = {i \in m.min .. m.max : i % Scale = 0}

(* The two entries of a member of a sorted set belong together: ZADD,       *)
(* ZINCRBY, the removals by rank, score and name, the pops and the stores   *)
(* of a union leave no score without its place in the order and no place    *)
(* with an old score.                                                       *)
ZSetPaired ==
    ~off => \A k \in Keys :
        Elements(kv, k, "sort") = {<<kv[Sc(k, e)], e>> : e \in Elements(kv, k, "score")}

(* What the entries of the store say of each other: the five facts above    *)
(* hold together after any sequence of commands, one command relying on     *)
(* what another left.                                                       *)
StoreSound == NoOrphans /\ BoundsHold /\ ListIndexed /\ ZSetPaired /\ CountsExact

=============================================================================
