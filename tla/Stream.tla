------------------------------- MODULE Stream -------------------------------
(* One stream of t_stream.cpp: its entries, its consumer groups as they are *)
(* stored (KEY_STREAM_PEL entries) and as they are cached in memory         *)
(* (g_stream_groups), and clients that read through a group.  An id is a    *)
(* number: the pair of time and sequence in its order; 0 is the empty id.   *)
(* Every command but XREADGROUP runs under the lock of the key and is one   *)
(* step.  XREADGROUP takes no lock: it looks up where the group stands and  *)
(* delivers from there in a later step.  Each client is a consumer.         *)
EXTENDS Integers, Sequences, FiniteSets, FiniteSetsExt, Functions, TLC

CONSTANTS Consumers, Groups, NoOne,
          MaxId,      \* bound on the ids
          FieldNames  \* id -> the field names it is added with

VARIABLES
    smeta,    \* the meta value: [len, last, names], or NoOne
    els,      \* id -> field names stored with the entry, <<>> for those of smeta
    heads,    \* stored: group -> last id delivered
    pel,      \* stored: <<group, id>> -> its consumer
    cache,    \* StreamGroupTable in memory, or NoOne
    reader,   \* client -> a read under way, a block, or idle
    ready,    \* the key was signalled and its blocked clients are not served yet
    shrunk,   \* history: entries were removed one by one
    served,   \* history: the <<group, id>> that were delivered as new
    twice     \* history: one of them was delivered again

svars == <<smeta, els, heads, pel, cache, reader, ready, shrunk, served, twice>>
streamstore == <<smeta, els, shrunk>>
history == <<served, twice>>

Ids == 1 .. MaxId
AtRest == [st |-> "idle"]

---------------------------------------------------------------------------
(* The group table.  A group in memory: the last id delivered, the pending  *)
(* entries with their owner (NoOne when the consumer was not known), and    *)
(* the list of every consumer.                                              *)

NewGroup(last) == [last |-> last, pels |-> <<>>, own |-> <<>>]

(* StreamLoadGroups from the engine, with addNACK for every pending entry. *)
FromDisk ==
    [g \in DOMAIN heads |->
        LET ids == {x[2] : x \in {y \in DOMAIN pel : y[1] = g}}
        IN  [last |-> heads[g],
             pels |-> [i \in ids |-> pel[<<g, i>>]],
             own |-> [c \in {pel[<<g, i>>] : i \in ids} |-> {i \in ids : pel[<<g, i>>] = c}]]]

(* StreamLoadGroups(ctx, key, create_ifnotexist): the cached table, or the  *)
(* stored one, which is cached unless there are no groups at all.           *)
StreamLoadGroups(create) ==
    IF cache # NoOne THEN cache
    ELSE IF heads = <<>> THEN (IF create THEN <<>> ELSE NoOne)
    ELSE FromDisk

(* A read under way when its table, or its group, is freed. *)
Loses(c, lost) == IF reader[c].st = "reading" /\ lost THEN [reader[c] EXCEPT !.st = "dangling"] ELSE reader[c]

HasGroup(t, g) == t # NoOne /\ g \in DOMAIN t

(* StreamUpdateNACK for a pending entry: it leaves the list of its former   *)
(* owner and goes to that of the consumer, if the group knows it.           *)
StreamUpdateNACK(G, id, c, former) ==
    [G EXCEPT !.pels = (id :> IF c \in DOMAIN G.own THEN c ELSE NoOne) @@ @,
              !.own = [d \in DOMAIN @ |-> IF d = c THEN @[d] \cup {id}
                                          ELSE IF d = former THEN @[d] \ {id} ELSE @[d]]]

(* StreamCreateNACK: a new NACK, which has no former owner. *)
StreamCreateNACK(G, id, c) == StreamUpdateNACK(G, id, c, NoOne)

StreamAddConsumer(G, c) == IF c \in DOMAIN G.own THEN G ELSE [G EXCEPT !.own = (c :> {}) @@ @]

---------------------------------------------------------------------------
(* Entries *)

(* StreamTrimByLength: the oldest entries go.  The length it counts down is *)
(* that of a copy of the meta value, which nobody saves.                    *)
StreamTrimByLength(E, len, maxlen) ==
    LET n == Min({Max({len - maxlen, 0}), Cardinality(DOMAIN E)})
        gone == {i \in DOMAIN E : Cardinality({j \in DOMAIN E : j < i}) < n}
    IN  Restrict(E, DOMAIN E \ gone)

(* The meta value after an entry was added; its names are the first one's. *)
MetaWith(id) ==
    IF smeta = NoOne THEN [len |-> 1, last |-> id, names |-> FieldNames[id]]
    ELSE [smeta EXCEPT !.len = @ + 1, !.last = id]

(* SignalKeyAsReady, if a client is blocked on the stream. *)
Signal == ready \/ \E c \in Consumers : reader[c].st = "blocked"

(* XADD with an id of its own, which must be above the last one, or with    *)
(* streamNextID's.  Only the form MAXLEN ~ count trims.  Consumers that are   *)
(* blocked on the stream are served later.                                  *)
XAdd == \E id \in Ids, approx \in BOOLEAN :
    LET m == MetaWith(id)
        E1 == (id :> IF m.names = FieldNames[id] THEN <<>> ELSE FieldNames[id]) @@ els
        E2 == IF approx /\ m.len > 1 THEN StreamTrimByLength(E1, m.len, 1) ELSE E1
    IN  /\ id > IF smeta = NoOne THEN 0 ELSE smeta.last
        /\ smeta' = m
        /\ els' = E2
        /\ shrunk' = (shrunk \/ E2 # E1)
        /\ ready' = Signal
        /\ UNCHANGED <<heads, pel, cache, reader, history>>

(* XDEL: the entry goes, the length of the meta value stays. *)
XDel == \E id \in Ids :
    /\ smeta # NoOne /\ id \in DOMAIN els
    /\ els' = Restrict(els, DOMAIN els \ {id})
    /\ shrunk' = TRUE
    /\ UNCHANGED <<smeta, heads, pel, cache, reader, ready, history>>

XTrim == \E maxlen \in {1} :
    /\ smeta # NoOne
    /\ els' = StreamTrimByLength(els, smeta.len, maxlen)
    /\ shrunk' = (shrunk \/ els' # els)
    /\ UNCHANGED <<smeta, heads, pel, cache, reader, ready, history>>

XLen == IF smeta = NoOne THEN 0 ELSE smeta.len

(* replyStreamElement: names of the entry, or of the meta value. *)
Entry(id) == <<id, IF els[id] = <<>> THEN smeta.names ELSE els[id]>>
SortedIds(S) == [n \in 1 .. Cardinality(S) |-> CHOOSE i \in S : Cardinality({j \in S : j < i}) = n - 1]

(* XRANGE from the first id not below start, XREVRANGE from the last one    *)
(* not above end; the iterator of the latter starts one further, or at the  *)
(* last entry when there is none.                                           *)
XRange(start, end, count, rev) ==
    LET at == {i \in DOMAIN els : i >= IF rev THEN end ELSE start}
        from == IF at = {} THEN Max(DOMAIN els) ELSE Min(at)
        walk == IF ~rev THEN SortedIds(at)
                ELSE LET down == SortedIds({i \in DOMAIN els : i <= from})
                     IN  [n \in DOMAIN down |-> down[Len(down) + 1 - n]]
        begin == IF rev /\ walk # <<>> /\ walk[1] > end THEN 2 ELSE 1
        in(n) == walk[n] >= start /\ walk[n] <= end
        stop == {n \in begin .. Len(walk) : ~in(n)} \cup {Len(walk) + 1}
        until == Min(stop \cup IF count > 0 THEN {begin + count} ELSE {})
    IN  IF smeta = NoOne \/ DOMAIN els = {} THEN <<>>
        ELSE [n \in 1 .. until - begin |-> Entry(walk[begin + n - 1])]

---------------------------------------------------------------------------
(* Groups *)

(* XGROUP CREATE: stored first, then put into the table, which is loaded or *)
(* made for that.                                                           *)
XGroupCreate == \E g \in Groups, id \in {0, IF smeta = NoOne THEN 0 ELSE smeta.last} :
    LET t == IF cache # NoOne THEN cache ELSE FromDisk
    IN  /\ smeta # NoOne
        /\ g \notin DOMAIN heads
        /\ heads' = (g :> id) @@ heads
        /\ cache' = t @@ (g :> NewGroup(id))
        /\ UNCHANGED <<streamstore, pel, reader, ready, history>>

(* StreamDelGroup erases the pending entries from the map it walks over.    *)
(* With some pending, the walk may go astray: the process ends with some of *)
(* the stored entries deleted.                                              *)
XGroupDelGroup == \E g \in Groups :
    LET t == StreamLoadGroups(FALSE)
        mine == {x \in DOMAIN pel : x[1] = g /\ x[2] \in DOMAIN t[g].pels}
    IN  /\ smeta # NoOne /\ HasGroup(t, g)
        /\ \/ /\ pel' = Restrict(pel, DOMAIN pel \ mine)
              /\ heads' = Restrict(heads, DOMAIN heads \ {g})
              /\ cache' = Restrict(t, DOMAIN t \ {g})
              /\ reader' = [c \in Consumers |-> IF reader[c] = AtRest THEN AtRest ELSE Loses(c, reader[c].g = g)]
              /\ served' = {x \in served : x[1] # g}
              /\ UNCHANGED <<ready, twice>>
           \/ /\ mine # {}
              /\ \E gone \in SUBSET mine \ {{}} : pel' = Restrict(pel, DOMAIN pel \ gone)
              /\ heads' = heads
              /\ cache' = NoOne
              /\ reader' = [c \in Consumers |-> AtRest]
              /\ ready' = FALSE
              /\ UNCHANGED history
        /\ UNCHANGED streamstore

(* StreamDelConsumer: what is in the consumer's own list goes. *)
XGroupDelConsumer == \E g \in Groups, c \in Consumers :
    LET t == StreamLoadGroups(FALSE)
        G == t[g]
    IN  /\ smeta # NoOne /\ HasGroup(t, g)
        /\ c \in DOMAIN G.own
        /\ pel' = Restrict(pel, DOMAIN pel \ {<<g, i>> : i \in G.own[c]})
        /\ cache' = [t EXCEPT ![g] = [G EXCEPT !.pels = Restrict(@, DOMAIN @ \ G.own[c]),
                                               !.own = Restrict(@, DOMAIN @ \ {c})]]
        /\ UNCHANGED <<streamstore, heads, reader, ready, history>>

XAck == \E g \in Groups, id \in Ids :
    LET t == StreamLoadGroups(FALSE)
        owner == t[g].pels[id]
    IN  /\ HasGroup(t, g)
        /\ id \in DOMAIN t[g].pels
        /\ pel' = Restrict(pel, DOMAIN pel \ {<<g, id>>})
        /\ cache' = [t EXCEPT ![g].pels = Restrict(@, DOMAIN @ \ {id}),
                              ![g].own = [d \in DOMAIN @ |-> IF d = owner THEN @[d] \ {id} ELSE @[d]]]
        /\ UNCHANGED <<streamstore, heads, reader, ready, history>>

(* XCLAIM of an entry that is pending.  Anything behind the ids is refused  *)
(* as an id, so there are no options and the number of deliveries stays as  *)
(* it is.  The consumer need not be known to the group.                     *)
XClaim == \E g \in Groups, c \in Consumers, id \in Ids :
    LET t == StreamLoadGroups(FALSE)
    IN  /\ HasGroup(t, g)
        /\ id \in DOMAIN t[g].pels
        /\ cache' = [t EXCEPT ![g] = StreamUpdateNACK(@, id, c, t[g].pels[id])]
        /\ pel' = (<<g, id>> :> c) @@ pel
        /\ UNCHANGED <<streamstore, heads, reader, ready, history>>

(* XPENDING and XINFO: the table is loaded, and reported. *)
XPending ==
    /\ cache = NoOne
    /\ cache' = StreamLoadGroups(FALSE)
    /\ UNCHANGED <<streamstore, heads, pel, reader, ready, history>>

---------------------------------------------------------------------------
(* Reading through a group *)

(* XREADGROUP ... >: where the group stands, and the last id of the stream, *)
(* are looked up.  Only a reader that loaded the table itself counts as its *)
(* user.  NOACK is tried where nothing was delivered yet.                   *)
XReadGroupStart == \E c \in Consumers, g \in Groups, noack \in BOOLEAN :
    LET t == StreamLoadGroups(FALSE)
    IN  /\ reader[c] = AtRest
        /\ noack => served = {}
        /\ smeta # NoOne /\ HasGroup(t, g)
        /\ cache' = t
        /\ reader' = [reader EXCEPT ![c] = [st |-> "reading", g |-> g, after |-> t[g].last,
                                            top |-> smeta.last, noack |-> noack, loaded |-> cache = NoOne]]
        /\ UNCHANGED <<streamstore, heads, pel, ready, history>>

(* The entries "ids", in order: each is delivered, moves the group forward  *)
(* and becomes pending.                                                     *)
Delivered(t, g, c, ids, noack) ==
    LET G == [t[g] EXCEPT !.last = Max({@} \cup ids)]
    IN  [t EXCEPT ![g] = IF noack THEN G ELSE FoldSet(LAMBDA i, H : StreamCreateNACK(H, i, c), G, ids)]
(* Mutant: where the group stands is not stored. *)
DeliverInMemory(t, g, c, ids, noack) ==
    LET new == {<<g, i>> : i \in ids}
    IN  /\ cache' = Delivered(t, g, c, ids, noack)
        /\ pel' = (IF noack THEN <<>> ELSE [x \in new |-> c]) @@ pel
        /\ heads' = heads
        /\ served' = served \cup new
        /\ twice' = (twice \/ new \cap served # {})

(* The same, with what is stored. *)
Deliver(t, g, c, ids, noack) ==
    LET new == {<<g, i>> : i \in ids}
        moved == Delivered(t, g, c, ids, noack)
    IN  /\ cache' = moved
        /\ pel' = (IF noack THEN <<>> ELSE [x \in new |-> c]) @@ pel
        /\ heads' = IF moved[g].last > t[g].last THEN (g :> moved[g].last) @@ heads ELSE heads
        /\ served' = served \cup new
        /\ twice' = (twice \/ new \cap served # {})

Block(c) == reader' = [reader EXCEPT ![c].st = "blocked", ![c].loaded = FALSE,
                                     ![c].top = IF smeta = NoOne THEN 0 ELSE smeta.last]

(* The entries behind "after" are delivered, unless the group has gone on:  *)
(* then the consumer gets its own pending entries, without their fields.    *)
(* With nothing to deliver the client blocks; what was added after the      *)
(* look-up is not seen.                                                     *)
XReadGroupDeliver == \E c \in Consumers :
    LET r == reader[c]
        ids == {i \in DOMAIN els : i > r.after}
        t == [cache EXCEPT ![r.g] = StreamAddConsumer(@, c)]
    IN  /\ r.st = "reading"
        /\ \/ /\ r.top > r.after /\ cache[r.g].last <= r.after
              /\ Deliver(t, r.g, c, ids, r.noack)
              /\ IF ids = {} THEN Block(c) ELSE reader' = [reader EXCEPT ![c] = AtRest]
           \/ /\ r.top > r.after /\ cache[r.g].last > r.after
              /\ cache' = t
              /\ reader' = [reader EXCEPT ![c] = AtRest]
              /\ UNCHANGED <<heads, pel, history>>
           \/ /\ r.top <= r.after
              /\ Block(c)
              /\ UNCHANGED <<cache, heads, pel, history>>
        /\ UNCHANGED <<streamstore, ready>>

(* A reader whose table was freed under it: the process ends. *)
XReadGroupCrash ==
    /\ \E c \in Consumers : reader[c].st = "dangling"
    /\ cache' = NoOne
    /\ reader' = [d \in Consumers |-> AtRest]
    /\ ready' = FALSE
    /\ UNCHANGED <<streamstore, heads, pel, history>>

(* WakeClientsBlockingOnStream: from the id the client blocked with, not    *)
(* from where the group stands now; a client whose group is gone is         *)
(* released.  The consumer is not added to the group.                       *)
Wake(c) ==
    LET r == reader[c]
        t == StreamLoadGroups(FALSE)
    IN  /\ ready
        /\ r.st = "blocked"
        /\ reader' = [reader EXCEPT ![c] = AtRest]
        /\ IF HasGroup(t, r.g) THEN Deliver(t, r.g, c, {i \in DOMAIN els : i > r.after}, r.noack)
           ELSE cache' = t /\ UNCHANGED <<heads, pel, history>>
        /\ ready' = (\E d \in Consumers \ {c} : reader[d].st = "blocked")
        /\ UNCHANGED streamstore

---------------------------------------------------------------------------
(* DEL: meta value, entries and groups, and the table in memory (StreamDel). *)
DelStream ==
    /\ smeta # NoOne
    /\ smeta' = NoOne /\ els' = <<>> /\ shrunk' = FALSE
    /\ heads' = <<>> /\ pel' = <<>> /\ cache' = NoOne /\ served' = {} /\ twice' = FALSE
    /\ reader' = [c \in Consumers |-> Loses(c, TRUE)]
    /\ UNCHANGED ready

(* The table falls out of the LRU cache and is freed (addRetiredGroup,      *)
(* ClearRetiredStreamCache), unless a reader counts as its user.            *)
Evict ==
    /\ cache # NoOne
    /\ \A c \in Consumers : ~(reader[c].st = "reading" /\ reader[c].loaded)
    /\ cache' = NoOne
    /\ reader' = [c \in Consumers |-> Loses(c, TRUE)]
    /\ UNCHANGED <<streamstore, heads, pel, ready, history>>

Restart ==
    /\ cache' = NoOne
    /\ reader' = [c \in Consumers |-> AtRest]
    /\ ready' = FALSE
    /\ UNCHANGED <<streamstore, heads, pel, history>>

StreamInit ==
    /\ smeta = NoOne /\ els = <<>> /\ heads = <<>> /\ pel = <<>> /\ cache = NoOne
    /\ reader = [c \in Consumers |-> AtRest]
    /\ ready = FALSE
    /\ shrunk = FALSE /\ served = {} /\ twice = FALSE

StreamNext ==
    \/ XAdd \/ XDel \/ XTrim \/ XGroupCreate \/ XGroupDelGroup \/ XGroupDelConsumer
    \/ XAck \/ XClaim \/ XPending \/ XReadGroupStart \/ XReadGroupDeliver \/ XReadGroupCrash \/ (\E c \in Consumers : Wake(c))
    \/ DelStream \/ Evict \/ Restart

StreamSpec == StreamInit /\ [][StreamNext]_svars

---------------------------------------------------------------------------
(* XLEN is the number of entries as long as none was removed by XDEL,       *)
(* XTRIM or MAXLEN, which do not save the length; and no id is reused.      *)
LengthExact ==
    smeta # NoOne => /\ ~shrunk => XLen = Cardinality(DOMAIN els)
                     /\ \A i \in DOMAIN els : i <= smeta.last

(* XRANGE and XREVRANGE return the entries of the range in order with the   *)
(* field names they were added with, though an entry with the names of the  *)
(* first one is stored without them, and whatever was removed before.       *)
RangesRight ==
    \A start, end \in Ids, count \in 0 .. 1 :
        LET in == SortedIds({i \in DOMAIN els : start <= i /\ i <= end})
            n == IF count = 0 THEN Len(in) ELSE Min({count, Len(in)})
        IN  /\ XRange(start, end, count, FALSE) = [j \in 1 .. n |-> <<in[j], FieldNames[in[j]]>>]
            /\ XRange(start, end, count, TRUE) =
                   [j \in 1 .. n |-> <<in[Len(in) + 1 - j], FieldNames[in[Len(in) + 1 - j]]>>]

(* A group in memory is the group that is stored: where it stands, what is  *)
(* pending and with whom, but for a consumer the table did not know.        *)
(*   So a restart or an eviction forgets nothing.              *)
CacheIsStored ==
    cache # NoOne =>
        /\ DOMAIN cache = DOMAIN heads
        /\ \A g \in DOMAIN cache :
              /\ cache[g].last = heads[g]
              /\ \A i \in Ids : i \in DOMAIN cache[g].pels <=> <<g, i>> \in DOMAIN pel
              /\ \A i \in DOMAIN cache[g].pels : cache[g].pels[i] \in {NoOne, pel[<<g, i>>]}

(* The list of a consumer is what the group says is pending at it, unless   *)
(* an entry was delivered twice.                                            *)
OwnersListed ==
    cache # NoOne /\ ~twice =>
        \A g \in DOMAIN cache : \A c \in DOMAIN cache[g].own :
            cache[g].own[c] = {i \in DOMAIN cache[g].pels : cache[g].pels[i] = c}

(* Nothing is pending that was not delivered, and the group has passed      *)
(* every entry it has delivered: a restart does not deliver one again.      *)
PendingDelivered ==
    /\ DOMAIN pel \subseteq served
    /\ \A x \in served : x[1] \in DOMAIN heads => x[2] <= heads[x[1]]

(* An entry added while a client is blocked reaches it: the key is          *)
(* signalled, and stays so until the client was served.                     *)
BlockedIsSignalled ==
    \A c \in Consumers : reader[c].st = "blocked" /\ smeta # NoOne /\ ~ready =>
        \A i \in DOMAIN els : i <= reader[c].top

(* Length, ids and ranges of a stream are those of the entries added and    *)
(* not removed (XADD, XDEL, XTRIM, XLEN, XRANGE); and its consumer groups   *)
(* on disk, in the cache and at the blocked readers agree, whatever is      *)
(* evicted or restarted (XREADGROUP, XACK, XCLAIM, StreamLoadGroups).       *)
StreamRight ==
    /\ LengthExact /\ RangesRight
    /\ PendingDelivered /\ CacheIsStored /\ OwnersListed /\ BlockedIsSignalled

=============================================================================
