------------------------------ MODULE Engines ------------------------------
(* Write batches, transactions, iterators' references and namespaces of the *)
(* storage engines behind Engine (engine.hpp).  One call of the interface   *)
(* is one step, but for LMDB, whose calls wait for each other: m_lock, the  *)
(* one write transaction of the library, and the background writer.  The    *)
(* libraries are external; a write carries a number of its own, 0 deletes.  *)
EXTENDS Integers, Sequences, FiniteSets, SequencesExt, FiniteSetsExt

CONSTANTS Kinds, Threads, Namespaces, DataKeys, NoOne,
          MaxWrites,    \* bound on the writes
          MaxDepth,     \* bound on nested batches (and, one more, on RocksDB's save points)
          MaxIters      \* bound on the open iterators of a thread

VARIABLES
    engine,     \* the engine of this behaviour
    db,         \* what is committed: namespace -> key -> write
    nss,        \* m_handlers, m_nss, m_dbis, m_dbs: the namespaces known
    local,      \* the thread-local context of the engine
    iters,      \* thread -> its open iterators
    pc,         \* LMDB: where the thread waits
    writer,     \* LMDB: who holds the write transaction
    nslock,     \* LMDB: who holds m_lock exclusively
    bg,         \* LMDB: thread -> its BGWriteThread
    hist        \* history: the writes counted, what the calls promise, departures

evars == <<engine, db, nss, local, iters, pc, writer, nslock, bg, hist>>
lmdb == <<pc, writer, nslock, bg>>

FreshLocal == [ref |-> 0, abort |-> FALSE, ops |-> <<>>, saves |-> <<>>, disp |-> FALSE,
          iter_ref |-> 0, snap |-> NoOne, snapref |-> 0, cached |-> {}]
Running == [at |-> "run"]
Ckp == <<NoOne, NoOne, 0>>        \* LMDB_CKP_OP
Resting == [queue |-> <<>>, txn |-> FALSE, ops |-> <<>>, event |-> 0]

Apply(s, ops) == FoldLeft(LAMBDA acc, e : [acc EXCEPT ![e[1]][e[2]] = e[3]], s, ops)

---------------------------------------------------------------------------
(* What the calls promise: a batch is one with those inside it, and counts  *)
(* when it and all around it are committed. *)

BatchDepth(t) == Len(hist.scope[t])
Top(s) == s[Len(s)]
Opened(h, t) == [h EXCEPT !.scope[t] = Append(@, <<>>)]
Closed(h, t, keep) ==
    LET s == h.scope[t]
        ops == IF keep THEN Top(s) ELSE <<>>
    IN  IF Len(s) = 1 THEN [h EXCEPT !.scope[t] = <<>>, !.want = Apply(@, ops)]
        ELSE [h EXCEPT !.scope[t] = Append(SubSeq(s, 1, Len(s) - 2), s[Len(s) - 1] \o ops)]
Written(h, t, e) ==
    LET g == [h EXCEPT !.n = IF engine = "lmdb" THEN @ ELSE @ + 1]
    IN  IF BatchDepth(t) = 0 THEN [g EXCEPT !.want = Apply(@, <<e>>)]
        ELSE [g EXCEPT !.scope[t][BatchDepth(t)] = Append(@, e)]
Odd(h, what, cond) == IF cond THEN [h EXCEPT !.odd = @ \cup {what}] ELSE h

(* A write of key k in namespace n: put or delete, as far as the bound goes. *)
Entries == IF hist.n < MaxWrites THEN Namespaces \X DataKeys \X {0, hist.n + 1} ELSE {}
Puts == {e \in Entries : e[3] # 0}
Dels == {e \in Entries : e[3] = 0 /\ e[1] \in nss}
Emptied(s, n) == [s EXCEPT ![n] = [k \in DataKeys |-> 0]]
Raced(t, n) == \E u \in Threads \ {t} : \E e \in ToSet(local[u].ops \o bg[u].queue) : e[1] = n

CanOpen(t) == BatchDepth(t) < MaxDepth
CanFind(t) == Len(iters[t]) < MaxIters

---------------------------------------------------------------------------
(* RocksDB: a WriteBatch per thread, with a save point per level.           *)

RocksBegin(t) ==
    /\ CanOpen(t)
    /\ Len(local[t].saves) <= MaxDepth
    /\ local' = [local EXCEPT ![t].ref = @ + 1, ![t].saves = Append(@, Len(local[t].ops))]
    /\ hist' = Opened(hist, t)
    /\ UNCHANGED <<engine, db, nss, iters, lmdb>>

(* The library refuses a batch that names a column family it does not have. *)
RocksCommit(t) ==
    LET l == local[t] IN
    /\ BatchDepth(t) > 0
    /\ IF l.ref = 1
       THEN /\ db' = IF \A i \in 1..Len(l.ops) : l.ops[i][1] \in nss THEN Apply(db, l.ops) ELSE db
            /\ local' = [local EXCEPT ![t] = FreshLocal]
       ELSE /\ local' = [local EXCEPT ![t].ref = @ - 1]
            /\ db' = db
    /\ hist' = Closed(hist, t, TRUE)
    /\ UNCHANGED <<engine, nss, iters, lmdb>>

(* The save point of a level that was committed is still there. *)
RocksDiscard(t) ==
    LET l == local[t] IN
    /\ BatchDepth(t) > 0
    /\ local' = [local EXCEPT ![t] = IF l.ref = 1 THEN FreshLocal
                                     ELSE [l EXCEPT !.ref = @ - 1, !.ops = SubSeq(@, 1, Top(l.saves)), !.saves = Front(@)]]
    /\ hist' = Odd(Closed(hist, t, FALSE), "savepoint", Top(l.saves) # Len(l.ops) - Len(Top(hist.scope[t])))
    /\ UNCHANGED <<engine, db, nss, iters, lmdb>>

(* RocksWriteBatch::Ref: into the batch if there is one. *)
RocksWrite(t, e) ==
    /\ IF local[t].ref > 0
       THEN local' = [local EXCEPT ![t].ops = Append(@, e)] /\ db' = db
       ELSE db' = Apply(db, <<e>>) /\ local' = local
    /\ hist' = Written(hist, t, e)
    /\ UNCHANGED <<engine, iters, lmdb>>

RocksPut(t) == \E e \in Puts : nss' = nss \cup {e[1]} /\ RocksWrite(t, e)
RocksDel(t) == \E e \in Dels : nss' = nss /\ RocksWrite(t, e)
RocksGet(t, n, k) == IF n \in nss THEN db[n][k] ELSE 0

RocksDrop(t) == \E n \in nss :
    /\ BatchDepth(t) = 0
    /\ nss' = nss \ {n}
    /\ db' = Emptied(db, n)
    /\ hist' = Odd([hist EXCEPT !.want = Emptied(@, n)], "dropped", Raced(t, n))
    /\ UNCHANGED <<engine, local, iters, lmdb>>

RocksNext(t) == RocksBegin(t) \/ RocksCommit(t) \/ RocksDiscard(t) \/ RocksPut(t) \/ RocksDel(t) \/ RocksDrop(t)

---------------------------------------------------------------------------
(* LevelDB: a WriteBatch per thread without save points, and a snapshot the *)
(* iterators of the thread share.                                           *)

LevelBegin(t) ==
    /\ CanOpen(t)
    /\ local' = [local EXCEPT ![t].ref = @ + 1]
    /\ hist' = Opened(hist, t)
    /\ UNCHANGED <<engine, db, nss, iters, lmdb>>

LevelCommit(t) ==
    /\ BatchDepth(t) > 0
    /\ IF local[t].ref = 1
       THEN /\ db' = Apply(db, local[t].ops)
            /\ local' = [local EXCEPT ![t].ref = 0, ![t].ops = <<>>]
       ELSE /\ local' = [local EXCEPT ![t].ref = @ - 1]
            /\ db' = db
    /\ hist' = Closed(hist, t, TRUE)
    /\ UNCHANGED <<engine, nss, iters, lmdb>>

LevelDiscard(t) ==
    /\ BatchDepth(t) > 0
    /\ local' = [local EXCEPT ![t].ref = @ - 1, ![t].ops = IF local[t].ref = 1 THEN <<>> ELSE @]
    /\ hist' = Odd(Closed(hist, t, FALSE), "nested", Top(hist.scope[t]) # <<>> /\ BatchDepth(t) > 1)
    /\ UNCHANGED <<engine, db, nss, iters, lmdb>>

LevelWrite(t, e) ==
    /\ IF local[t].ref > 0
       THEN local' = [local EXCEPT ![t].ops = Append(@, e)] /\ db' = db
       ELSE db' = Apply(db, <<e>>) /\ local' = local
    /\ hist' = Written(hist, t, e)
    /\ UNCHANGED <<engine, iters, lmdb>>

LevelPut(t) == \E e \in Puts : nss' = nss \cup {e[1]} /\ LevelWrite(t, e)
LevelDel(t) == \E e \in Dels : nss' = nss /\ LevelWrite(t, e)
LevelGet(t, n, k) == IF n \notin nss THEN 0 ELSE IF local[t].snap # NoOne THEN local[t].snap[n][k] ELSE db[n][k]

(* An iterator of a saved snapshot (ctx.engine_snapshot) takes no reference. *)
LevelFind(t) == \E own \in BOOLEAN :
    /\ CanFind(t)
    /\ local' = IF own THEN local
                ELSE [local EXCEPT ![t].snapref = @ + 1, ![t].snap = IF @ = NoOne THEN db ELSE @]
    /\ iters' = [iters EXCEPT ![t] = Append(@, own)]
    /\ UNCHANGED <<engine, db, nss, hist, lmdb>>

LevelRelease(l) ==
    IF l.snap = NoOne THEN l
    ELSE IF l.snapref <= 1 THEN [l EXCEPT !.snap = NoOne, !.snapref = 0]
    ELSE [l EXCEPT !.snapref = @ - 1]

LevelClose(t) == \E i \in 1..Len(iters[t]) :
    /\ local' = [local EXCEPT ![t] = LevelRelease(@)]
    /\ iters' = [iters EXCEPT ![t] = RemoveAt(@, i)]
    /\ hist' = Odd(hist, "mixed", iters[t][i] /\ FALSE \in ToSet(iters[t]))
    /\ UNCHANGED <<engine, db, nss, lmdb>>

LevelDrop(t) == \E n \in nss :
    /\ BatchDepth(t) = 0
    /\ iters[t] = <<>>
    /\ nss' = nss \ {n}
    /\ db' = Emptied(db, n)
    /\ hist' = Odd([hist EXCEPT !.want = Emptied(@, n)], "dropped", Raced(t, n))
    /\ UNCHANGED <<engine, local, iters, lmdb>>

LevelNext(t) ==
    LevelBegin(t) \/ LevelCommit(t) \/ LevelDiscard(t) \/ LevelPut(t) \/ LevelDel(t) \/ LevelFind(t) \/ LevelClose(t) \/ LevelDrop(t)

---------------------------------------------------------------------------
(* WiredTiger: no batches at all; a cursor per namespace is kept.           *)

WTBatch(t) == \E h \in (IF CanOpen(t) THEN {Opened(hist, t)} ELSE {}) \cup
                      (IF BatchDepth(t) > 0 THEN {Closed(hist, t, TRUE), Odd(Closed(hist, t, FALSE), "kept", Top(hist.scope[t]) # <<>>)} ELSE {}) :
    /\ hist' = h
    /\ UNCHANGED <<engine, db, nss, local, iters, lmdb>>

WTWrite(t, e) ==
    /\ db' = Apply(db, <<e>>)
    /\ local' = [local EXCEPT ![t].cached = @ \cup {e[1]}]
    /\ hist' = Odd(Written(hist, t, e), "unordered", \E u \in Threads : BatchDepth(u) > 0)
    /\ UNCHANGED <<engine, iters, lmdb>>

WTPut(t) == \E e \in Puts : nss' = nss \cup {e[1]} /\ WTWrite(t, e)
WTDel(t) == \E e \in Dels : nss' = nss /\ WTWrite(t, e)
(* (Get also leaves a cursor in the table, as WTWrite does.) *)
WTGet(t, n, k) == IF n \in nss THEN db[n][k] ELSE 0

(* Find takes the cursor out of the table, ~WiredTigerIterator gives it back. *)
WTFind(t) == \E n \in nss :
    /\ CanFind(t)
    /\ local' = [local EXCEPT ![t].cached = @ \ {n}]
    /\ iters' = [iters EXCEPT ![t] = Append(@, n)]
    /\ UNCHANGED <<engine, db, nss, hist, lmdb>>

WTClose(t) == \E i \in 1..Len(iters[t]) :
    /\ local' = [local EXCEPT ![t].cached = @ \cup {iters[t][i]}]
    /\ iters' = [iters EXCEPT ![t] = RemoveAt(@, i)]
    /\ UNCHANGED <<engine, db, nss, hist, lmdb>>

(* The library drops no table another session has a cursor on. *)
WTBusy(t, n) == \E u \in Threads : (u # t /\ n \in local[u].cached) \/ n \in ToSet(iters[u])

WTDrop(t) == \E n \in nss :
    /\ BatchDepth(t) = 0
    /\ local' = [local EXCEPT ![t].cached = @ \ {n}]
    /\ IF WTBusy(t, n) THEN UNCHANGED <<nss, db, hist>>
       ELSE /\ nss' = nss \ {n}
            /\ db' = Emptied(db, n)
            /\ hist' = [hist EXCEPT !.want = Emptied(@, n)]
    /\ UNCHANGED <<engine, iters, lmdb>>

WTNext(t) == WTBatch(t) \/ WTPut(t) \/ WTDel(t) \/ WTFind(t) \/ WTClose(t) \/ WTDrop(t)

---------------------------------------------------------------------------
(* PerconaFT: one transaction per thread; batches, iterators and single     *)
(* writes hold references to it and the last one ends it.                   *)

TransGet(l) == [l EXCEPT !.ref = @ + 1]
TransRelease(l, success) == [l EXCEPT !.ref = @ - 1, !.abort = @ \/ ~success]
(* Mutant: committed although a part was discarded. *)
FTEndCommits(t, l) ==
    IF l.ref > 0 THEN local' = [local EXCEPT ![t] = l] /\ db' = db
    ELSE /\ local' = [local EXCEPT ![t] = FreshLocal]
         /\ db' = Apply(db, l.ops)
FTEnd(t, l) ==
    IF l.ref > 0 THEN local' = [local EXCEPT ![t] = l] /\ db' = db
    ELSE /\ local' = [local EXCEPT ![t] = FreshLocal]
         /\ db' = IF l.abort THEN db ELSE Apply(db, l.ops)

(* The transaction holds more than the innermost batch of the thread. *)
Larger(t) == local[t].ref > 1 \/ Len(local[t].ops) > Len(Top(hist.scope[t]))

FTBegin(t) ==
    /\ CanOpen(t)
    /\ local' = [local EXCEPT ![t] = TransGet(@)]
    /\ hist' = Opened(hist, t)
    /\ UNCHANGED <<engine, db, nss, iters, lmdb>>

FTCommit(t) ==
    /\ BatchDepth(t) > 0
    /\ FTEnd(t, TransRelease(local[t], TRUE))
    /\ hist' = Closed(hist, t, TRUE)
    /\ UNCHANGED <<engine, nss, iters, lmdb>>

FTDiscard(t) ==
    /\ BatchDepth(t) > 0
    /\ FTEnd(t, TransRelease(local[t], FALSE))
    /\ hist' = Odd(Closed(hist, t, FALSE), "doomed", Larger(t))
    /\ UNCHANGED <<engine, nss, iters, lmdb>>

(* A key another transaction has written is refused by the library. *)
Touches(s, e) == \E f \in ToSet(s) : f[1] = e[1] /\ f[2] = e[2]
Locked(t, e) == \E u \in Threads \ {t} : Touches(local[u].ops, e)

FTWrite(t, e) ==
    /\ IF Locked(t, e) THEN UNCHANGED <<local, db, hist>>
       ELSE /\ FTEnd(t, TransRelease([TransGet(local[t]) EXCEPT !.ops = Append(@, e)], TRUE))
            /\ hist' = Written(hist, t, e)
    /\ UNCHANGED <<engine, iters, lmdb>>

FTPut(t) == \E e \in Puts : nss' = nss \cup {e[1]} /\ FTWrite(t, e)
FTDel(t) == \E e \in Dels : nss' = nss /\ FTWrite(t, e)
FTGet(t, n, k) == IF n \in nss THEN Apply(db, local[t].ops)[n][k] ELSE 0

(* Found or not, the iterator keeps its reference until it is deleted. *)
FTFind(t) ==
    /\ CanFind(t)
    /\ local' = [local EXCEPT ![t] = TransGet(@)]
    /\ iters' = [iters EXCEPT ![t] = Append(@, TRUE)]
    /\ UNCHANGED <<engine, db, nss, hist, lmdb>>

FTClose(t) ==
    /\ iters[t] # <<>>
    /\ FTEnd(t, TransRelease(local[t], TRUE))
    /\ iters' = [iters EXCEPT ![t] = Tail(@)]
    /\ UNCHANGED <<engine, nss, hist, lmdb>>

FTDrop(t) == \E n \in nss :
    /\ BatchDepth(t) = 0
    /\ iters[t] = <<>>
    /\ nss' = nss \ {n}
    /\ db' = Emptied(db, n)
    /\ hist' = Odd([hist EXCEPT !.want = Emptied(@, n)], "dropped", Raced(t, n))
    /\ UNCHANGED <<engine, local, iters, lmdb>>

FTNext(t) == FTBegin(t) \/ FTCommit(t) \/ FTDiscard(t) \/ FTPut(t) \/ FTDel(t) \/ FTFind(t) \/ FTClose(t) \/ FTDrop(t)

---------------------------------------------------------------------------
(* LMDB: the same with one write transaction for the whole environment; the *)
(* writes made with an iterator open go to the thread's background writer,  *)
(* and the end of the transaction waits for them.                           *)

HoldsTxn(t) == local[t].ref > 0
CanAcquire(t) == HoldsTxn(t) \/ writer = NoOne
AcquireTransanction(l, from) == [l EXCEPT !.ref = @ + 1, !.iter_ref = IF from THEN @ + 1 ELSE @]
TryRelease(l, success, from) ==
    [l EXCEPT !.ref = @ - 1, !.abort = @ \/ ~success,
              !.iter_ref = IF from /\ @ > 0 THEN @ - 1 ELSE @]
MDBEnd(t, l) ==
    IF l.ref > 0
    THEN local' = [local EXCEPT ![t] = l] /\ writer' = t /\ UNCHANGED <<db, pc, bg>>
    ELSE /\ local' = [local EXCEPT ![t] = FreshLocal]
         /\ writer' = NoOne
         /\ db' = IF l.abort THEN db ELSE Apply(db, l.ops)
         /\ pc' = [pc EXCEPT ![t] = IF l.disp THEN [at |-> "wait"] ELSE Running]
         /\ bg' = IF l.disp THEN [bg EXCEPT ![t].queue = Append(@, Ckp)] ELSE bg

MDBBegin(t) ==
    /\ pc[t] = Running
    /\ CanOpen(t)
    /\ CanAcquire(t)
    /\ local' = [local EXCEPT ![t] = AcquireTransanction(@, FALSE)]
    /\ writer' = t
    /\ hist' = Opened(hist, t)
    /\ UNCHANGED <<engine, db, nss, iters, pc, nslock, bg>>

MDBCommit(t) ==
    /\ pc[t] = Running
    /\ BatchDepth(t) > 0
    /\ MDBEnd(t, TryRelease(local[t], TRUE, FALSE))
    /\ hist' = Closed(hist, t, TRUE)
    /\ UNCHANGED <<engine, nss, iters, nslock>>

MDBDiscard(t) ==
    /\ pc[t] = Running
    /\ BatchDepth(t) > 0
    /\ MDBEnd(t, TryRelease(local[t], FALSE, FALSE))
    /\ hist' = Odd(Odd(Closed(hist, t, FALSE), "doomed", Larger(t)), "late", local[t].disp)
    /\ UNCHANGED <<engine, nss, iters, nslock>>

(* Put and Del ask GetDBI for the namespace, ... *)
MDBCall(t) == \E e \in Puts \cup Dels :
    /\ pc[t] = Running
    /\ pc' = [pc EXCEPT ![t] = [at |-> "getdbi", e |-> e]]
    /\ hist' = [hist EXCEPT !.n = @ + 1]
    /\ UNCHANGED <<engine, db, nss, local, iters, writer, nslock, bg>>

(* ... which creates it under m_lock, in a transaction of its own or by     *)
(* ending the one of the thread, ...                                        *)
CreateDBI(t) ==
    /\ pc[t].at = "getdbi"
    /\ pc[t].e[1] \notin nss
    /\ nslock = NoOne
    /\ nslock' = t
    /\ pc' = [pc EXCEPT ![t].at = "create"]
    /\ IF HoldsTxn(t)
       THEN /\ db' = Apply(db, local[t].ops)
            /\ local' = [local EXCEPT ![t].ops = <<>>]
            /\ writer' = NoOne
            /\ hist' = Odd(hist, "split", TRUE)
       ELSE UNCHANGED <<db, local, writer, hist>>
    /\ UNCHANGED <<engine, nss, iters, bg>>

DBICreated(t) ==
    /\ pc[t].at = "create"
    /\ writer = NoOne
    /\ writer' = IF HoldsTxn(t) THEN t ELSE NoOne
    /\ nss' = nss \cup {pc[t].e[1]}
    /\ nslock' = NoOne
    /\ pc' = [pc EXCEPT ![t].at = "getdbi"]
    /\ UNCHANGED <<engine, db, local, iters, bg, hist>>

Queued(e) == \E u \in Threads : Touches(bg[u].queue, e)

(* ... and write. *)
MDBPut(t) ==
    LET e == pc[t].e IN
    /\ pc[t].at = "getdbi"
    /\ e[1] \in nss
    /\ nslock = NoOne
    /\ \/ /\ local[t].iter_ref > 0
          /\ local' = [local EXCEPT ![t].disp = TRUE]
          /\ bg' = [bg EXCEPT ![t].queue = Append(@, e)]
          /\ pc' = [pc EXCEPT ![t] = Running]
          /\ hist' = Written(hist, t, e)
          /\ UNCHANGED <<db, writer>>
       \/ /\ local[t].iter_ref = 0
          /\ CanAcquire(t)
          /\ LET l == TryRelease([AcquireTransanction(local[t], FALSE) EXCEPT !.ops = Append(@, e)], TRUE, FALSE)
             IN  IF l.ref > 0
                 THEN local' = [local EXCEPT ![t] = l] /\ pc' = [pc EXCEPT ![t] = Running] /\ UNCHANGED <<db, writer, bg>>
                 ELSE MDBEnd(t, l)
          /\ hist' = Odd(Written(hist, t, e), "overtaken", Queued(e))
    /\ UNCHANGED <<engine, nss, iters, nslock>>

(* Get reads in the transaction of the thread, if there is one. *)
MDBGet(t, n, k) == IF n \in nss THEN Apply(db, local[t].ops)[n][k] ELSE 0

(* Find takes the transaction first and the namespace after it. *)
MDBFind(t) ==
    /\ pc[t] = Running
    /\ CanFind(t)
    /\ CanAcquire(t)
    /\ local' = [local EXCEPT ![t] = AcquireTransanction(@, TRUE)]
    /\ writer' = t
    /\ pc' = [pc EXCEPT ![t] = [at |-> "find"]]
    /\ UNCHANGED <<engine, db, nss, iters, nslock, bg, hist>>

MDBFound(t) ==
    /\ pc[t].at = "find"
    /\ nslock = NoOne
    /\ pc' = [pc EXCEPT ![t] = Running]
    /\ iters' = [iters EXCEPT ![t] = Append(@, TRUE)]
    /\ UNCHANGED <<engine, db, nss, local, writer, nslock, bg, hist>>

MDBClose(t) ==
    /\ pc[t] = Running
    /\ iters[t] # <<>>
    /\ MDBEnd(t, TryRelease(local[t], TRUE, TRUE))
    /\ iters' = [iters EXCEPT ![t] = Tail(@)]
    /\ UNCHANGED <<engine, nss, nslock, hist>>

(* The data is dropped, the namespace stays. *)
MDBDrop(t) == \E n \in nss :
    /\ pc[t] = Running
    /\ ~HoldsTxn(t)
    /\ nslock = NoOne
    /\ writer = NoOne
    /\ db' = Emptied(db, n)
    /\ hist' = Odd([hist EXCEPT !.want = Emptied(@, n)], "dropped", Raced(t, n))
    /\ UNCHANGED <<engine, nss, local, iters, lmdb>>

(* The background writer takes the transaction, writes what is queued, and  *)
(* commits at a checkpoint, which ends the wait, or when there is no more.  *)
(* (It also takes it for an empty queue; such a transaction changes nothing.) *)
BGBegin(t) ==
    /\ ~bg[t].txn
    /\ bg[t].queue # <<>>
    /\ writer = NoOne
    /\ writer' = <<t>>
    /\ bg' = [bg EXCEPT ![t].txn = TRUE]
    /\ UNCHANGED <<engine, db, nss, local, iters, pc, nslock, hist>>

BGWrite(t) ==
    /\ bg[t].txn
    /\ bg[t].queue # <<>>
    /\ Head(bg[t].queue) # Ckp
    /\ bg' = [bg EXCEPT ![t].queue = Tail(@), ![t].ops = Append(@, Head(bg[t].queue))]
    /\ UNCHANGED <<engine, db, nss, local, iters, pc, writer, nslock, hist>>

BGCommit(t) ==
    LET ckp == bg[t].queue # <<>> IN
    /\ bg[t].txn
    /\ ckp => Head(bg[t].queue) = Ckp
    /\ db' = Apply(db, bg[t].ops)
    /\ writer' = NoOne
    /\ bg' = [bg EXCEPT ![t] = [queue |-> IF ckp THEN Tail(@.queue) ELSE <<>>, txn |-> FALSE, ops |-> <<>>,
                                event |-> IF ckp THEN @.event + 1 ELSE @.event]]
    /\ UNCHANGED <<engine, nss, local, iters, pc, nslock, hist>>

Notified(t) ==
    /\ pc[t].at = "wait"
    /\ bg[t].event > 0
    /\ bg' = [bg EXCEPT ![t].event = @ - 1]
    /\ pc' = [pc EXCEPT ![t] = Running]
    /\ UNCHANGED <<engine, db, nss, local, iters, writer, nslock, hist>>

MDBNext(t) ==
    \/ MDBBegin(t) \/ MDBCommit(t) \/ MDBDiscard(t) \/ MDBCall(t) \/ CreateDBI(t) \/ DBICreated(t) \/ MDBPut(t)
    \/ MDBFind(t) \/ MDBFound(t) \/ MDBClose(t) \/ MDBDrop(t) \/ BGBegin(t) \/ BGWrite(t) \/ BGCommit(t) \/ Notified(t)
---------------------------------------------------------------------------
EngInit ==
    /\ engine \in Kinds
    /\ db = [n \in Namespaces |-> [k \in DataKeys |-> 0]]
    /\ nss = {}
    /\ local = [t \in Threads |-> FreshLocal]
    /\ iters = [t \in Threads |-> <<>>]
    /\ pc = [t \in Threads |-> Running]
    /\ writer = NoOne
    /\ nslock = NoOne
    /\ bg = [t \in Threads |-> Resting]
    /\ hist = [n |-> 0, want |-> db, scope |-> [t \in Threads |-> <<>>], odd |-> {}]

EngNext == \E t \in Threads :
    \/ engine = "rocksdb" /\ RocksNext(t)
    \/ engine = "leveldb" /\ LevelNext(t)
    \/ engine = "wiredtiger" /\ WTNext(t)
    \/ engine = "perconaft" /\ FTNext(t)
    \/ engine = "lmdb" /\ MDBNext(t)

EngSpec == EngInit /\ [][EngNext]_evars

---------------------------------------------------------------------------
Quiet == \A t \in Threads : BatchDepth(t) = 0 /\ iters[t] = <<>> /\ pc[t] = Running /\ bg[t] = Resting

(* What a read of the thread should find. *)
Got(t, n, k) ==
    CASE engine = "rocksdb" -> RocksGet(t, n, k)
      [] engine = "leveldb" -> LevelGet(t, n, k)
      [] engine = "wiredtiger" -> WTGet(t, n, k)
      [] engine = "perconaft" -> FTGet(t, n, k)
      [] engine = "lmdb" -> MDBGet(t, n, k)
Promised(t, n, k) == Apply(hist.want, FlattenSeq(hist.scope[t]))[n][k]

(* A thread reads what it wrote last, or what was committed last, when no   *)
(* other thread has an open write of the key.  Not so in a batch of RocksDB *)
(* or LevelDB that wrote the key, under an open iterator of LevelDB, and    *)
(* for a write that LMDB's background writer still has.                     *)
ReadRight ==
    \A t \in Threads, n \in Namespaces, k \in DataKeys :
        LET e == <<n, k, 0>> IN
        \/ hist.odd # {}
        \/ \E u \in Threads \ {t} : Touches(FlattenSeq(hist.scope[u]), e) \/ Touches(local[u].ops, e)
        \/ \E u \in Threads : Touches(bg[u].queue, e) \/ Touches(bg[u].ops, e)
        \/ engine \in {"rocksdb", "leveldb"} /\ Touches(local[t].ops, e)
        \/ engine = "leveldb" /\ local[t].snap # NoOne
        \/ Got(t, n, k) = Promised(t, n, k)

(* With no batch and no iterator open, the store holds what the calls       *)
(* promise: the writes of the batches committed, in order, and nothing of   *)
(* the discarded ones.  The departures: a discard inside something larger   *)
(* (RocksDB after a committed third level, LevelDB always, PerconaFT and    *)
(* LMDB drop the larger one too), WiredTiger's batches, LMDB's queued       *)
(* writes, and a namespace dropped under a batch of another thread.         *)
StoreRight == Quiet /\ hist.odd = {} => db = hist.want

(* What a batch has written is not in the store before its end, whatever    *)
(* the iterators and the background writer do, but for WiredTiger and for a *)
(* batch that LMDB splits to create a namespace.                            *)
BatchHidden == engine # "wiredtiger" /\ hist.odd = {} =>
    \A t \in Threads : \A d \in 1..BatchDepth(t), n \in Namespaces, k \in DataKeys :
        db[n][k] # 0 => \A i \in 1..Len(hist.scope[t][d]) : hist.scope[t][d][i][3] # db[n][k]

(* The references of the shared transaction, of the batch and of the        *)
(* snapshot are those of the batches and iterators open: one too few ends   *)
(* it under them, one too many never ends it.                               *)
RefsExact == \A t \in Threads :
    LET found == Len(iters[t]) + (IF pc[t].at = "find" THEN 1 ELSE 0) IN
    /\ engine \in {"lmdb", "perconaft"} => local[t].ref = BatchDepth(t) + found
    /\ engine = "lmdb" => local[t].iter_ref = found
    /\ engine \in {"rocksdb", "leveldb"} => local[t].ref = BatchDepth(t)
    /\ engine = "leveldb" /\ "mixed" \notin hist.odd =>
           local[t].snapref = Len(SelectSeq(iters[t], LAMBDA own : ~own)) /\ (local[t].snap = NoOne <=> local[t].snapref = 0)

(* Who waits for the background writer is answered: its checkpoint is       *)
(* queued or done, and it does not itself hold the transaction the writer   *)
(* needs.  And one transaction at a time. *)
WaiterServed == engine = "lmdb" =>
    /\ \A t \in Threads : pc[t].at = "wait" =>
           ~HoldsTxn(t) /\ Cardinality({i \in 1..Len(bg[t].queue) : bg[t].queue[i] = Ckp}) + bg[t].event = 1
    /\ \A t \in Threads : HoldsTxn(t) => writer = t \/ pc[t].at = "create"
    /\ \A t \in Threads : bg[t].txn <=> writer = <<t>>

(* A namespace with data in it is listed, so that it is saved, replicated   *)
(* and flushed with the others; LevelDB's departure is a namespace dropped  *)
(* under a batch.                                                           *)
NamespacesListed == "dropped" \notin hist.odd => \A n \in Namespaces : (\E k \in DataKeys : db[n][k] # 0) => n \in nss

-----------------------------------------------------------------------------
(* The iterators of the six engines: how Jump, Next, Prev, JumpToFirst and  *)
(* JumpToLast are made from the moves of the library's cursor.  Stored keys *)
(* are even numbers, upper bounds (a key type with no elements, never       *)
(* stored) odd ones.  LevelDB keeps all namespaces in one sequence; the     *)
(* others have this namespace alone.                                        *)

CONSTANTS IterKinds, OwnKeys, OtherKeys   \* even; OtherKeys lie below and above OwnKeys

VARIABLES kind, stored, bound, min_key, it, goal

ivars == <<kind, stored, bound, min_key, it, goal>>

Nothing == 0            \* no key, no bound
Space == IF kind = "leveldb" THEN stored ELSE stored \cap OwnKeys

(* The cursor of the library. *)
Least(S) == IF S = {} THEN Nothing ELSE Min(S)
Greatest(S) == IF S = {} THEN Nothing ELSE Max(S)
Seek(k) == Least({x \in Space : x >= k})
SeekLower(k) == Greatest({x \in Space : x <= k})
After(k) == Least({x \in Space : x > k})
Before(k) == Greatest({x \in Space : x < k})
FirstKey == Least(Space)
LastKey == Greatest(Space)

(* m_valid, as CheckBound leaves it. *)
Bounded(k) == bound # Nothing /\ k # Nothing /\ k >= bound
CheckBound(k) == [at |-> k, valid |-> k # Nothing /\ ~Bounded(k)]
Unchecked(k) == [at |-> k, valid |-> k # Nothing]

RocksJump(k) == CheckBound(Seek(k))
RocksFollow(k) == CheckBound(After(k))
RocksPrev(k) == Unchecked(Before(k))
RocksToFirst == Unchecked(FirstKey)
RocksToLast == IF bound = Nothing \/ Seek(bound) = Nothing THEN Unchecked(LastKey) ELSE RocksPrev(Seek(bound))

(* Valid compares the namespace. *)
LevelOwn(i) == [i EXCEPT !.valid = @ /\ i.at \in OwnKeys]
LevelJump(k) == LevelOwn(CheckBound(Seek(k)))
LevelFollow(k) == LevelOwn(CheckBound(After(k)))
LevelPrev(k) == LevelOwn(Unchecked(Before(k)))
LevelToFirst == LevelJump(Min(OwnKeys))
LevelToLast ==
    LET s == Seek(bound)
        at == IF s = Nothing THEN Unchecked(LastKey) ELSE CheckBound(s)
    IN  IF bound = Nothing THEN LevelOwn(Unchecked(LastKey))
        ELSE IF at.at # Nothing /\ ~LevelOwn(at).valid THEN LevelPrev(at.at) ELSE LevelOwn(at)

MDBJump(k) == CheckBound(Seek(k))
MDBFollow(k) == CheckBound(After(k))
MDBPrev(k) == Unchecked(Before(k))
MDBToFirst == Unchecked(FirstKey)
MDBToLast ==
    IF bound = Nothing THEN Unchecked(LastKey)
    ELSE IF Seek(bound) # Nothing THEN CheckBound(Before(Seek(bound)))
    ELSE IF LastKey # Nothing THEN CheckBound(Before(LastKey))
    ELSE Unchecked(Nothing)

FTJump(k) == CheckBound(Seek(k))
FTFollow(k) == CheckBound(After(k))
FTPrev(k) == Unchecked(Before(k))
FTToFirst == Unchecked(FirstKey)
FTToLast ==
    IF bound = Nothing THEN Unchecked(LastKey)
    ELSE LET s == IF Seek(bound) = Nothing THEN LastKey ELSE Seek(bound) IN Unchecked(IF s = Nothing THEN Nothing ELSE Before(s))

(* search_near may stop on either side of the key. *)
WTDoJump(k) ==
    LET near == {SeekLower(k), Seek(k)} \ {Nothing}
    IN  IF near = {} THEN {Nothing} ELSE {IF x < k THEN After(x) ELSE x : x \in near}
WTJump(k) == {CheckBound(x) : x \in WTDoJump(k)}
WTFollow(k) == CheckBound(After(k))
WTPrev(k) == Unchecked(Before(k))
WTToFirst == Unchecked(FirstKey)
WTToLast == {IF bound # Nothing /\ x # Nothing THEN WTPrev(x) ELSE Unchecked(LastKey) : x \in WTDoJump(bound)}

(* CheckBound does nothing; Jump steps back from what lies beyond max_key.  *)
FDBJump(k) == IF Bounded(Seek(k)) THEN Unchecked(Before(Seek(k))) ELSE Unchecked(Seek(k))
FDBFollow(k) == Unchecked(After(k))
FDBPrev(k) == Unchecked(Before(k))
FDBToFirst == Unchecked(IF min_key = Nothing THEN FirstKey ELSE Seek(min_key))
FDBToLast == Unchecked(IF bound = Nothing THEN LastKey ELSE SeekLower(bound))

---------------------------------------------------------------------------
(* What the commands take a move to find. *)
OwnStored == stored \cap OwnKeys
Within == {x \in OwnStored : bound = Nothing \/ x < bound}
Found(i) == IF i.valid THEN i.at ELSE Nothing

(* The departures: LMDB and PerconaFT step back from the last key of the    *)
(* namespace; ForestDB ignores the bound going forward and LevelDB's end of *)
(* a namespace without a bound is that of the whole store. *)
SkipsLast == kind \in {"lmdb", "perconaft"} /\ bound # Nothing /\ Seek(bound) = Nothing
Overruns(k) == kind = "forestdb" /\ Bounded(k)
EndOfAll == kind = "leveldb" /\ bound = Nothing /\ LastKey \notin OwnKeys

Moved(to, w, excused) ==
    /\ it' = to
    /\ goal' = [key |-> w, excused |-> excused]
    /\ UNCHANGED <<kind, stored, bound, min_key>>

Jump == \E k \in Min(OwnKeys)..Max(OwnKeys) :
    \E to \in CASE kind = "rocksdb" -> {RocksJump(k)} [] kind = "leveldb" -> {LevelJump(k)} [] kind = "lmdb" -> {MDBJump(k)}
                [] kind = "perconaft" -> {FTJump(k)} [] kind = "wiredtiger" -> WTJump(k) [] kind = "forestdb" -> {FDBJump(k)} :
        Moved(to, Least({x \in Within : x >= k}), Overruns(Seek(k)))

Follow ==
    /\ Found(it) # Nothing
    /\ Moved(CASE kind = "rocksdb" -> RocksFollow(it.at) [] kind = "leveldb" -> LevelFollow(it.at) [] kind = "lmdb" -> MDBFollow(it.at)
               [] kind = "perconaft" -> FTFollow(it.at) [] kind = "wiredtiger" -> WTFollow(it.at) [] kind = "forestdb" -> FDBFollow(it.at),
             Least({x \in Within : x > it.at}), Overruns(After(it.at)))

Back ==
    /\ Found(it) # Nothing
    /\ Moved(CASE kind = "rocksdb" -> RocksPrev(it.at) [] kind = "leveldb" -> LevelPrev(it.at) [] kind = "lmdb" -> MDBPrev(it.at)
               [] kind = "perconaft" -> FTPrev(it.at) [] kind = "wiredtiger" -> WTPrev(it.at) [] kind = "forestdb" -> FDBPrev(it.at),
             Greatest({x \in OwnStored : x < it.at}), FALSE)

(* Find goes to the first key only when it is given none, thus no bound.    *)
ToFirst ==
    /\ bound = Nothing /\ min_key = Nothing
    /\ Moved(CASE kind = "rocksdb" -> RocksToFirst [] kind = "leveldb" -> LevelToFirst [] kind = "lmdb" -> MDBToFirst
               [] kind = "perconaft" -> FTToFirst [] kind = "wiredtiger" -> WTToFirst [] kind = "forestdb" -> FDBToFirst,
             Least(OwnStored), FALSE)

ToLast ==
    \E to \in CASE kind = "rocksdb" -> {RocksToLast} [] kind = "leveldb" -> {LevelToLast} [] kind = "lmdb" -> {MDBToLast}
                [] kind = "perconaft" -> {FTToLast} [] kind = "wiredtiger" -> WTToLast [] kind = "forestdb" -> {FDBToLast} :
        Moved(to, Greatest(Within), SkipsLast \/ EndOfAll)

IterInit ==
    /\ kind \in IterKinds
    /\ stored \in SUBSET (OwnKeys \cup OtherKeys)
    /\ bound \in {Nothing} \cup {k + 1 : k \in OwnKeys}
    /\ min_key \in {Nothing} \cup {k \in OwnKeys : k < bound}
    /\ it = [at |-> Nothing, valid |-> FALSE]
    /\ goal = [key |-> Nothing, excused |-> FALSE]

IterNext == Jump \/ Follow \/ Back \/ ToFirst \/ ToLast

IterSpec == IterInit /\ [][IterNext]_ivars

(* A move ends where the commands take it to end, on every engine, whatever *)
(* is stored beyond the bound or in the other namespaces.                   *)
IteratorRight == ~goal.excused => Found(it) = goal.key

(* Where LMDB and PerconaFT depart they lose exactly the last key.          *)
OnlyLastLost == goal.excused /\ SkipsLast => Found(it) = Greatest(Within \ {Greatest(Within)})

(* An engine keeps its contract: committed writes are there, uncommitted    *)
(* ones are hidden, reads see one state, references are balanced and every  *)
(* waiter is answered, in the cases the five classes of engine get right;   *)
(* and an iterator stops at the key it should or, in the one case known, at *)
(* the key before it (Jump, Next, Prev, JumpToFirst, JumpToLast of six).    *)
EnginesRight ==
    /\ NamespacesListed /\ StoreRight /\ BatchHidden /\ ReadRight /\ RefsExact /\ WaiterServed
    /\ IteratorRight /\ OnlyLastLost

=============================================================================
