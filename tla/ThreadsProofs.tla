---------------------------- MODULE ThreadsProofs ----------------------------
(***************************************************************************)
(* The locks on keys, for any number of threads, keys and commands, and the *)
(* workers of a slave, for any number of workers, commands and selects and  *)
(* any length of the queue.                                                 *)
(*                                                                          *)
(* Mutual exclusion does not stand alone: that a free key is locked by      *)
(* nobody is LockedIsHeld, and that this survives the removal of an entry   *)
(* is mutual exclusion again.  That every command handed to the workers is  *)
(* executed once needs to know where it can be in the meantime: in the      *)
(* queue, with one worker, or among those executed (OnceInv).  The          *)
(* namespaces need what a select waits for (SelectInv).                     *)
(***************************************************************************)
EXTENDS KeyLock, DBWriter, TLAPS

\* The inductive invariant.
LockInv == LockTypeOK /\ MutualExclusion /\ LockedIsHeld /\ ObjectsDistinct

\* Initially nothing is locked.
LEMMA LockInitInv == LockInit => LockInv
BY KeyLockAssumption
   DEF LockInit, LockInv, LockTypeOK, MutualExclusion, LockedIsHeld, ObjectsDistinct, Keys,
       NoLock

\* A step of LockKey that finds its key free (LockKey).
LEMMA LockStep ==
    ASSUME LockInv, NEW t \in Threads, NEW k \in Keys, LockKey(t, k)
    PROVE  LockInv'
<1> USE DEF NoLock
<1>1. LockTypeOK'
  <2>1. /\ stage' \in [Threads -> {"idle", "lock", "wait", "release", "in", "out"}]
        /\ multi' \in [Threads -> BOOLEAN]
        /\ need' \in [Threads -> SUBSET Keys]
        /\ held' \in [Threads -> SUBSET Keys]
        /\ rounds' \in [Threads -> 0 .. MaxRounds]
    BY DEF LockInv, LockTypeOK, LockKey, Got
  <2> DEFINE ObjectsOK == /\ made \in Nat
                          /\ table \in [Keys -> 0 .. made]
                          /\ pool \subseteq 1 .. made
  <2>2. ObjectsOK'
    <3>1. ASSUME NEW l \in pool, table' = [table EXCEPT ![k] = l],
                 pool' = pool \ {l}, made' = made
          PROVE  ObjectsOK'
      BY <3>1 DEF LockInv, LockTypeOK
    <3>2. ASSUME pool = {}, table' = [table EXCEPT ![k] = made + 1],
                 made' = made + 1, pool' = pool
          PROVE  ObjectsOK'
      BY <3>2 DEF LockInv, LockTypeOK
    <3> QED BY <3>1, <3>2 DEF LockKey, Take
  <2> QED BY <2>1, <2>2 DEF LockTypeOK
<1>2. \A u \in Threads : k \notin held[u]
  BY DEF LockInv, LockedIsHeld, LockKey
<1>3. /\ held' = [held EXCEPT ![t] = held[t] \cup {k}]
      /\ held \in [Threads -> SUBSET Keys]
      /\ held' \in [Threads -> SUBSET Keys]
  BY <1>1 DEF LockInv, LockTypeOK, LockKey, Got
<1>4. /\ \A j \in Keys \ {k} : table'[j] = table[j]
      /\ table'[k] # NoLock
  BY DEF LockInv, LockTypeOK, LockKey, Take
<1>5. MutualExclusion'
  BY <1>2, <1>3 DEF LockInv, MutualExclusion
<1>6. LockedIsHeld'
  BY <1>2, <1>3, <1>4 DEF LockInv, LockedIsHeld
<1>7. ObjectsDistinct'
  BY <1>4 DEF LockInv, LockTypeOK, ObjectsDistinct, LockKey, Take
<1> QED BY <1>1, <1>5, <1>6, <1>7 DEF LockInv

\* UnlockKey, whoever calls it (Release, Unguard).
LEMMA UnlockStep ==
    ASSUME LockInv, NEW t \in Threads, NEW k \in Keys, UnlockKey(t, k),
           need' \in [Threads -> SUBSET Keys],
           stage' \in [Threads -> {"idle", "lock", "wait", "release", "in", "out"}]
    PROVE  LockInv'
<1> USE DEF NoLock
<1>1. table[k] # NoLock
  BY DEF LockInv, LockedIsHeld, UnlockKey
<1>2. LockTypeOK'
  <2>1. /\ multi' \in [Threads -> BOOLEAN]
        /\ held' \in [Threads -> SUBSET Keys]
        /\ rounds' \in [Threads -> 0 .. MaxRounds]
    BY DEF LockInv, LockTypeOK, UnlockKey
  <2>2. /\ made' \in Nat
        /\ table' \in [Keys -> 0 .. made']
    BY DEF LockInv, LockTypeOK, UnlockKey
  <2>3. pool' \subseteq 1 .. made'
    <3>1. table[k] \in 1 .. made
      BY <1>1 DEF LockInv, LockTypeOK
    <3>2. pool' = pool \cup {table[k]} /\ made' = made /\ pool \subseteq 1 .. made
      BY DEF LockInv, LockTypeOK, UnlockKey
    <3> QED BY <3>1, <3>2
  <2> QED BY <2>1, <2>2, <2>3 DEF LockTypeOK
<1>3. /\ held' = [held EXCEPT ![t] = held[t] \ {k}]
      /\ held \in [Threads -> SUBSET Keys]
      /\ k \in held[t]
  BY DEF LockInv, LockTypeOK, UnlockKey
<1>4. \A u \in Threads \ {t} : k \notin held[u]
  BY <1>3 DEF LockInv, MutualExclusion
<1>5. /\ \A j \in Keys \ {k} : table'[j] = table[j]
      /\ table'[k] = NoLock
  BY DEF LockInv, LockTypeOK, UnlockKey
<1>6. MutualExclusion'
  BY <1>3 DEF LockInv, MutualExclusion
<1>7. LockedIsHeld'
  BY <1>3, <1>4, <1>5 DEF LockInv, LockedIsHeld
<1>8. ObjectsDistinct'
  BY <1>1, <1>5 DEF LockInv, LockTypeOK, ObjectsDistinct, UnlockKey
<1> QED BY <1>2, <1>6, <1>7, <1>8 DEF LockInv

\* A step that leaves the locks alone.
LEMMA LockQuietStep ==
    ASSUME LockInv, UNCHANGED <<table, pool, made, held>>, LockTypeOK'
    PROVE  LockInv'
BY DEF LockInv, MutualExclusion, LockedIsHeld, ObjectsDistinct

\* Every step of a thread preserves the invariant.
LEMMA LockNextInv == LockInv /\ [LockNext]_lockVars => LockInv'
<1> SUFFICES ASSUME LockInv, [LockNext]_lockVars PROVE LockInv'
  OBVIOUS
<1>1. CASE UNCHANGED lockVars
  BY <1>1 DEF LockInv, LockTypeOK, MutualExclusion, LockedIsHeld, ObjectsDistinct, lockVars
<1>2. ASSUME NEW t \in Threads, NEW ks \in SUBSET Keys, NEW m \in BOOLEAN,
             Guard(t, ks, m)
      PROVE  LockInv'
  <2>1. LockTypeOK' BY <1>2, KeyLockAssumption DEF LockInv, LockTypeOK, Guard
  <2> QED BY <1>2, <2>1, LockQuietStep DEF Guard
<1>3. ASSUME NEW t \in Threads, NEW k \in NextKey(t), LockKey(t, k)
      PROVE  LockInv'
  <2>1. k \in Keys BY <1>3 DEF LockKey, LockInv, LockTypeOK
  <2> QED BY <1>3, <2>1, LockStep
<1>4. ASSUME NEW t \in Threads, NEW k \in NextKey(t), LockKeyBusy(t, k)
      PROVE  LockInv'
  <2>1. LockTypeOK' BY <1>4 DEF LockInv, LockTypeOK, LockKeyBusy
  <2> QED BY <1>4, <2>1, LockQuietStep DEF LockKeyBusy
<1>5. ASSUME NEW t \in Threads, WaitOver(t)
      PROVE  LockInv'
  <2>1. LockTypeOK' BY <1>5 DEF LockInv, LockTypeOK, WaitOver
  <2> QED BY <1>5, <2>1, LockQuietStep DEF WaitOver
<1>6. ASSUME NEW t \in Threads, NEW k \in Foremost(held[t]), Release(t, k)
      PROVE  LockInv'
  <2>0. k \in Keys BY DEF LockInv, LockTypeOK, Foremost
  <2>1. /\ UnlockKey(t, k)
        /\ need' \in [Threads -> SUBSET Keys]
        /\ stage' \in [Threads -> {"idle", "lock", "wait", "release", "in", "out"}]
    BY <1>6, <2>0 DEF LockInv, LockTypeOK, Release
  <2> QED BY <2>0, <2>1, UnlockStep
<1>7. ASSUME NEW t \in Threads, NEW k \in Foremost(held[t]), Unguard(t, k)
      PROVE  LockInv'
  <2>0. k \in Keys BY DEF LockInv, LockTypeOK, Foremost
  <2>1. /\ UnlockKey(t, k)
        /\ need' \in [Threads -> SUBSET Keys]
        /\ stage' \in [Threads -> {"idle", "lock", "wait", "release", "in", "out"}]
    BY <1>7, <2>0 DEF LockInv, LockTypeOK, Unguard
  <2> QED BY <2>0, <2>1, UnlockStep
<1> QED BY <1>1, <1>2, <1>3, <1>4, <1>5, <1>6, <1>7 DEF LockNext, Locking

\* The variables keep their types.
THEOREM KeyLockTypeCorrect == LockSpec => []LockTypeOK
<1>1. LockInv => LockTypeOK BY DEF LockInv
<1> QED BY LockInitInv, LockNextInv, <1>1, PTL DEF LockSpec

\* Two threads never hold the lock of one key at the same time, whatever
\* commands they run and however LockKeys gives up and starts over.
THEOREM MutualExclusionCorrect == LockSpec => []MutualExclusion
<1>1. LockInv => MutualExclusion BY DEF LockInv
<1> QED BY LockInitInv, LockNextInv, <1>1, PTL DEF LockSpec

\* A key is marked locked exactly while a thread holds it: no entry is left
\* behind by UnlockKey and none is erased under its holder.
THEOREM LockedIsHeldCorrect == LockSpec => []LockedIsHeld
<1>1. LockInv => LockedIsHeld BY DEF LockInv
<1> QED BY LockInitInv, LockNextInv, <1>1, PTL DEF LockSpec

\* No two keys share the object their waiters wait on, and none is in the pool
\* while a key uses it.
THEOREM ObjectsDistinctCorrect == LockSpec => []ObjectsDistinct
<1>1. LockInv => ObjectsDistinct BY DEF LockInv
<1> QED BY LockInitInv, LockNextInv, <1>1, PTL DEF LockSpec

----------------------------------------------------------------------------

\* A sequence over a set is one over every larger set.
LEMMA SeqWiden ==
    ASSUME NEW S, NEW T, S \subseteq T, NEW q \in Seq(S)
    PROVE  q \in Seq(T)
BY SMT

\* What a sequence over a set is.
LEMMA SeqOver ==
    ASSUME NEW S, NEW q \in Seq(S)
    PROVE  Len(q) \in Nat /\ DOMAIN q = 1 .. Len(q) /\ \A i \in DOMAIN q : q[i] \in S
BY SMT

\* A sequence and what Append makes of it.
LEMMA Longer ==
    ASSUME NEW S, NEW q \in Seq(S), NEW x \in S
    PROVE  /\ Append(q, x) \in Seq(S)
           /\ Len(q) \in Nat /\ Len(Append(q, x)) = Len(q) + 1
           /\ DOMAIN q = 1 .. Len(q) /\ DOMAIN Append(q, x) = 1 .. Len(q) + 1
           /\ \A i \in DOMAIN q : q[i] \in S /\ Append(q, x)[i] = q[i]
           /\ Append(q, x)[Len(q) + 1] = x
BY SMT

\* A sequence and what Tail leaves of it.
LEMMA Shorter ==
    ASSUME NEW S, NEW q \in Seq(S), q # << >>
    PROVE  /\ Tail(q) \in Seq(S) /\ Head(q) \in S
           /\ Len(q) \in Nat \ {0} /\ Len(Tail(q)) = Len(q) - 1
           /\ DOMAIN q = 1 .. Len(q) /\ DOMAIN Tail(q) = 1 .. Len(q) - 1
           /\ Head(q) = q[1] /\ \A i \in DOMAIN Tail(q) : Tail(q)[i] = q[i + 1]
BY SMT

\* Where the commands are: each in one place, and none is lost.
OnceInv ==
    /\ \A i, j \in DOMAIN queue : queue[i] = queue[j] => i = j
    /\ \A v, w \in Held : wcmd[v] = wcmd[w] => v = w
    /\ \A i, j \in DOMAIN done : done[i].at = done[j].at => i = j
    /\ \A j \in DOMAIN queue, w \in Held : queue[j] # wcmd[w]
    /\ \A j \in DOMAIN queue, d \in DOMAIN done : queue[j] # done[d].at
    /\ \A w \in Held, d \in DOMAIN done : wcmd[w] # done[d].at
    /\ \A w \in Held : wcmd[w] \in DOMAIN puts
    /\ \A i \in DOMAIN puts : \/ \E j \in DOMAIN queue : queue[j] = i
                              \/ \E w \in Held : wcmd[w] = i
                              \/ \E d \in DOMAIN done : done[d].at = i

\* The selects a worker has been given: all of them while none is being put,
\* and those of the workers before "turn" while one is; none a queued or held
\* command waits for is missing.
SelectInv ==
    /\ lpc = "idle" => \A w \in Workers : ns[w] = epoch
    /\ lpc \in {"check", "call"} => turn \in Workers /\ \A w \in Workers : w < turn => ns[w] = epoch
    /\ \A j \in DOMAIN queue, w \in Workers : ns[w] >= puts[queue[j]]
    /\ \A w \in Held : ns[w] >= puts[wcmd[w]]
    /\ NeverStaleNamespace

WriterInv == WriterTypeOK /\ OnceInv /\ SelectInv

\* Initially there are no commands.
LEMMA WriterInitInv == WriterInit => WriterInv
<1> SUFFICES ASSUME WriterInit PROVE WriterInv
  OBVIOUS
<1>1. WriterTypeOK
  BY DBWriterAssumption DEF WriterInit, WriterTypeOK, Workers
<1>2. OnceInv /\ SelectInv
  BY DBWriterAssumption DEF WriterInit, OnceInv, SelectInv, Held, Workers, NeverStaleNamespace
<1> QED BY <1>1, <1>2 DEF WriterInv

\* A step that moves no command: the steps of a select, and a worker's before and
\* after it executes.
Moved == /\ UNCHANGED <<queue, puts, done>> /\ Held' = Held
         /\ \A w \in Held : wcmd'[w] = wcmd[w]

\* Such a step leaves every command in its place.
LEMMA MovedOnce ==
    ASSUME OnceInv, Moved
    PROVE  OnceInv'
BY DEF OnceInv, Moved

\* What was executed is a command that was put.
LEMMA DoneTypes ==
    ASSUME WriterInv
    PROVE  /\ Len(done) \in Nat /\ DOMAIN done = 1 .. Len(done)
           /\ \A d \in DOMAIN done : done[d].at \in DOMAIN puts /\ done[d].epoch \in 0 .. epoch
<1>1. done \in Seq([at : DOMAIN puts, epoch : 0 .. epoch])
  BY DEF WriterInv, WriterTypeOK
<1>2. /\ Len(done) \in Nat /\ DOMAIN done = 1 .. Len(done)
      /\ \A d \in DOMAIN done : done[d] \in [at : DOMAIN puts, epoch : 0 .. epoch]
  BY <1>1, SeqOver
<1> QED BY <1>2

\* Enqueue: the command is new.
LEMMA EnqueueInv ==
    ASSUME WriterInv, Enqueue
    PROVE  WriterInv'
<1> DEFINE x == Len(puts) + 1
<1>1. /\ puts \in Seq(0 .. epoch) /\ epoch \in 0 .. epoch /\ puts' = Append(puts, epoch)
  BY DEF WriterInv, WriterTypeOK, Enqueue
<1>2. /\ puts' \in Seq(0 .. epoch) /\ DOMAIN puts = 1 .. Len(puts) /\ DOMAIN puts' = 1 .. x
      /\ Len(puts') = x /\ Len(puts) \in Nat /\ puts'[x] = epoch
      /\ \A i \in DOMAIN puts : puts'[i] = puts[i]
  BY <1>1, Longer
<1>3. DOMAIN puts \subseteq DOMAIN puts' /\ x \in DOMAIN puts'
  BY <1>2
<1>4. queue \in Seq(DOMAIN puts') /\ queue \in Seq(DOMAIN puts)
  BY <1>3, SeqWiden DEF WriterInv, WriterTypeOK
<1>5. queue' = Append(queue, x)
  BY DEF Enqueue
<1>6. /\ queue' \in Seq(DOMAIN puts') /\ Len(queue) \in Nat /\ Len(queue') = Len(queue) + 1
      /\ DOMAIN queue = 1 .. Len(queue) /\ DOMAIN queue' = 1 .. Len(queue) + 1
      /\ \A i \in DOMAIN queue : queue'[i] = queue[i]
      /\ queue'[Len(queue) + 1] = x
  BY <1>3, <1>4, <1>5, Longer
<1>7. \A i \in DOMAIN queue : queue[i] \in DOMAIN puts
  BY <1>4
<1>8. Held' = Held
  BY DEF Enqueue, Held
<1>9. \A d \in DOMAIN done : done[d].at \in DOMAIN puts
  BY DoneTypes
<1>11. UNCHANGED <<epoch, lpc, turn, wpc, wcmd, writing, ns, done>>
  BY DEF Enqueue
<1>10. WriterTypeOK'
  <2>1. done \in Seq([at : DOMAIN puts', epoch : 0 .. epoch])
    <3>1. [at : DOMAIN puts, epoch : 0 .. epoch] \subseteq [at : DOMAIN puts', epoch : 0 .. epoch]
      BY <1>3
    <3>2. done \in Seq([at : DOMAIN puts, epoch : 0 .. epoch])
      BY DEF WriterInv, WriterTypeOK
    <3> QED BY <3>1, <3>2, SeqWiden
  <2>2. wcmd \in [Workers -> 0 .. Len(puts')]
    <3>1. 0 .. Len(puts) \subseteq 0 .. Len(puts')
      BY <1>2
    <3> QED BY <3>1 DEF WriterInv, WriterTypeOK
  <2>3. Len(queue') <= QueueLimit
    BY <1>6, DBWriterAssumption DEF WriterInv, WriterTypeOK, Enqueue
  <2>4. /\ epoch \in 0 .. MaxSelects /\ turn \in 0 .. N
        /\ lpc \in {"idle", "drain", "check", "call"}
        /\ wpc \in [Workers -> {"idle", "taken", "call", "ran"}]
        /\ writing \in [Workers -> BOOLEAN]
        /\ ns \in [Workers -> 0 .. epoch]
    BY DEF WriterInv, WriterTypeOK
  <2> QED BY <1>2, <1>6, <1>11, <2>1, <2>2, <2>3, <2>4 DEF WriterTypeOK
<1>12. OnceInv'
  <2>0. OnceInv
    BY DEF WriterInv
  <2>1. x \notin DOMAIN puts
    BY <1>2
  <2>2. \A j \in DOMAIN queue' : \/ j \in DOMAIN queue /\ queue'[j] = queue[j] /\ queue'[j] # x
                                 \/ j = Len(queue) + 1 /\ queue'[j] = x
    BY <1>6, <1>7, <2>1
  <2>3. /\ \A w \in Held : wcmd[w] # x
        /\ \A d \in DOMAIN done : done[d].at # x
    BY <1>9, <2>0, <2>1 DEF OnceInv
  <2>4. \A i, j \in DOMAIN queue' : queue'[i] = queue'[j] => i = j
    BY <2>0, <2>2 DEF OnceInv
  <2>5. \A j \in DOMAIN queue', w \in Held : queue'[j] # wcmd[w]
    BY <2>0, <2>2, <2>3 DEF OnceInv
  <2>6. \A j \in DOMAIN queue', d \in DOMAIN done : queue'[j] # done[d].at
    BY <2>0, <2>2, <2>3 DEF OnceInv
  <2>7. \A i \in DOMAIN puts' : \/ \E j \in DOMAIN queue' : queue'[j] = i
                                \/ \E w \in Held : wcmd[w] = i
                                \/ \E d \in DOMAIN done : done[d].at = i
    <3>1. \A i \in DOMAIN puts' : i \in DOMAIN puts \/ i = x
      BY <1>2
    <3>2. \E j \in DOMAIN queue' : queue'[j] = x
      BY <1>6
    <3>3. DOMAIN queue \subseteq DOMAIN queue'
      BY <1>6
    <3> QED BY <1>6, <2>0, <3>1, <3>2, <3>3 DEF OnceInv
  <2> QED BY <1>3, <1>8, <1>11, <2>0, <2>4, <2>5, <2>6, <2>7 DEF OnceInv
<1>13. SelectInv'
  <2>1. \A w \in Workers : ns[w] = epoch
    BY DEF WriterInv, SelectInv, Enqueue
  <2>2. \A j \in DOMAIN queue', w \in Workers : ns[w] >= puts'[queue'[j]]
    <3> SUFFICES ASSUME NEW j \in DOMAIN queue', NEW w \in Workers PROVE ns[w] >= puts'[queue'[j]]
      OBVIOUS
    <3>1. CASE j \in DOMAIN queue
      BY <3>1, <1>2, <1>6, <1>7 DEF WriterInv, SelectInv
    <3>2. CASE j = Len(queue) + 1
      BY <3>2, <1>2, <1>6, <2>1 DEF WriterInv, WriterTypeOK
    <3> QED BY <3>1, <3>2, <1>6
  <2>3. \A w \in Held : ns[w] >= puts'[wcmd[w]]
    BY <1>2 DEF WriterInv, SelectInv, OnceInv
  <2>4. NeverStaleNamespace'
    BY <1>2, <1>9, <1>11 DEF WriterInv, SelectInv, NeverStaleNamespace
  <2> QED BY <1>8, <1>11, <2>2, <2>3, <2>4 DEF WriterInv, SelectInv
<1> QED BY <1>10, <1>12, <1>13 DEF WriterInv

\* Dequeue: the command goes from the queue to the worker.
LEMMA DequeueInv ==
    ASSUME WriterInv, NEW w \in Workers, Dequeue(w)
    PROVE  WriterInv'
<1> DEFINE x == Head(queue)
<1>1. queue \in Seq(DOMAIN puts) /\ queue # << >> /\ queue' = Tail(queue)
  BY DEF WriterInv, WriterTypeOK, Dequeue
<1>2. /\ queue' \in Seq(DOMAIN puts) /\ x \in DOMAIN puts
      /\ Len(queue) \in Nat \ {0} /\ Len(queue') = Len(queue) - 1
      /\ DOMAIN queue = 1 .. Len(queue) /\ DOMAIN queue' = 1 .. Len(queue) - 1
      /\ x = queue[1] /\ \A i \in DOMAIN queue' : queue'[i] = queue[i + 1]
  BY <1>1, Shorter
<1>3. UNCHANGED <<puts, epoch, lpc, turn, writing, ns, done>>
  BY DEF Dequeue, loop
<1>4. /\ wpc \in [Workers -> {"idle", "taken", "call", "ran"}] /\ wpc' = [wpc EXCEPT ![w] = "taken"]
      /\ wcmd \in [Workers -> 0 .. Len(puts)] /\ wcmd' = [wcmd EXCEPT ![w] = x] /\ wpc[w] = "idle"
  BY DEF WriterInv, WriterTypeOK, Dequeue
<1>5. /\ Held' = Held \cup {w} /\ w \notin Held /\ Held \subseteq Workers
      /\ wcmd'[w] = x /\ \A v \in Held : wcmd'[v] = wcmd[v]
  BY <1>4 DEF Held
<1>6. WriterTypeOK'
  <2>1. x \in 0 .. Len(puts)
    <3>1. puts \in Seq(0 .. epoch)
      BY DEF WriterInv, WriterTypeOK
    <3>2. DOMAIN puts = 1 .. Len(puts) /\ Len(puts) \in Nat
      BY <3>1, SeqOver
    <3> QED BY <1>2, <3>2
  <2>2. /\ wpc' \in [Workers -> {"idle", "taken", "call", "ran"}]
        /\ wcmd' \in [Workers -> 0 .. Len(puts)]
    BY <1>4, <2>1
  <2>3. Len(queue') <= QueueLimit
    BY <1>2, DBWriterAssumption DEF WriterInv, WriterTypeOK
  <2> QED BY <1>2, <1>3, <2>2, <2>3 DEF WriterInv, WriterTypeOK
<1>7. OnceInv'
  <2>0. OnceInv
    BY DEF WriterInv
  <2>1. /\ 1 \in DOMAIN queue
        /\ \A j \in DOMAIN queue' : j + 1 \in DOMAIN queue /\ j + 1 # 1
        /\ \A j \in DOMAIN queue : j = 1 \/ (j - 1 \in DOMAIN queue' /\ (j - 1) + 1 = j)
    BY <1>2
  <2>2. \A j \in DOMAIN queue' : queue'[j] # x
    BY <1>2, <2>0, <2>1 DEF OnceInv
  <2>3. (\A v \in Held : wcmd[v] # x) /\ \A d \in DOMAIN done : done[d].at # x
    <3>1. 1 \in DOMAIN queue /\ queue[1] = x
      BY <1>2, <2>1
    <3>2. \A v \in Held : queue[1] # wcmd[v]
      BY Zenon, <2>0, <3>1 DEF OnceInv
    <3>3. \A d \in DOMAIN done : queue[1] # done[d].at
      BY Zenon, <2>0, <3>1 DEF OnceInv
    <3> QED BY Zenon, <3>1, <3>2, <3>3
  <2>4. \A i, j \in DOMAIN queue' : queue'[i] = queue'[j] => i = j
    <3> SUFFICES ASSUME NEW i \in DOMAIN queue', NEW j \in DOMAIN queue', queue'[i] = queue'[j]
                 PROVE  i = j
      OBVIOUS
    <3>1. i + 1 \in DOMAIN queue /\ j + 1 \in DOMAIN queue /\ queue[i + 1] = queue[j + 1]
      BY <1>2, <2>1
    <3>2. i + 1 = j + 1
      BY <2>0, <3>1 DEF OnceInv
    <3>3. i \in Int /\ j \in Int
      BY <1>2
    <3> QED BY <3>2, <3>3
  <2>5. \A v, u \in Held' : wcmd'[v] = wcmd'[u] => v = u
    BY <1>5, <2>0, <2>3 DEF OnceInv
  <2>6. \A j \in DOMAIN queue', v \in Held' : queue'[j] # wcmd'[v]
    BY <1>2, <1>5, <2>0, <2>1, <2>2 DEF OnceInv
  <2>7. \A j \in DOMAIN queue', d \in DOMAIN done : queue'[j] # done[d].at
    BY <1>2, <2>0, <2>1 DEF OnceInv
  <2>8. \A v \in Held', d \in DOMAIN done : wcmd'[v] # done[d].at
    BY <1>5, <2>0, <2>3 DEF OnceInv
  <2>9. \A v \in Held' : wcmd'[v] \in DOMAIN puts
    BY <1>2, <1>5, <2>0 DEF OnceInv
  <2>10. ASSUME NEW i \in DOMAIN puts
         PROVE  \/ \E j \in DOMAIN queue' : queue'[j] = i
                \/ \E v \in Held' : wcmd'[v] = i
                \/ \E d \in DOMAIN done : done[d].at = i
    <3>1. CASE \E j \in DOMAIN queue : queue[j] = i
      <4>1. PICK j \in DOMAIN queue : queue[j] = i
        BY <3>1
      <4>2. CASE j = 1
        BY <1>2, <1>5, <4>1, <4>2
      <4>3. CASE j # 1
        BY <1>2, <2>1, <4>1, <4>3
      <4> QED BY <4>2, <4>3
    <3>2. CASE \E v \in Held : wcmd[v] = i
      BY <1>5, <3>2
    <3>3. CASE \E d \in DOMAIN done : done[d].at = i
      BY <3>3
    <3> QED BY <2>0, <3>1, <3>2, <3>3 DEF OnceInv
  <2> QED BY <1>3, <2>0, <2>4, <2>5, <2>6, <2>7, <2>8, <2>9, <2>10 DEF OnceInv
<1>8. SelectInv'
  <2>1. \A j \in DOMAIN queue', v \in Workers : ns[v] >= puts[queue'[j]]
    <3>1. \A j \in DOMAIN queue' : j + 1 \in DOMAIN queue
      BY <1>2
    <3> QED BY <1>2, <3>1 DEF WriterInv, SelectInv
  <2>2. ns[w] >= puts[x]
    <3>1. 1 \in DOMAIN queue
      BY <1>2
    <3> QED BY <1>2, <3>1 DEF WriterInv, SelectInv
  <2>3. \A v \in Held' : ns[v] >= puts[wcmd'[v]]
    BY <1>5, <2>2 DEF WriterInv, SelectInv
  <2> QED BY <1>3, <2>1, <2>3 DEF WriterInv, SelectInv, NeverStaleNamespace
<1> QED BY <1>6, <1>7, <1>8 DEF WriterInv

\* CallRun: the command goes from the worker to those executed, in a namespace that
\* is not older than its own.
LEMMA CallRunInv ==
    ASSUME WriterInv, NEW w \in Workers, CallRun(w)
    PROVE  WriterInv'
<1> DEFINE x == [at |-> wcmd[w], epoch |-> ns[w]]
<1>1. UNCHANGED <<queue, puts, epoch, lpc, turn, wcmd, writing, ns>>
  BY DEF CallRun, loop
<1>2. /\ wpc \in [Workers -> {"idle", "taken", "call", "ran"}] /\ wpc' = [wpc EXCEPT ![w] = "ran"]
      /\ wpc[w] = "call" /\ ns[w] \in 0 .. epoch
  BY DEF WriterInv, WriterTypeOK, CallRun
<1>3. Held' = Held \ {w} /\ w \in Held
  BY <1>2 DEF Held
<1>4. wcmd[w] \in DOMAIN puts /\ ns[w] >= puts[wcmd[w]]
  BY <1>3 DEF WriterInv, OnceInv, SelectInv
<1>5. x \in [at : DOMAIN puts, epoch : 0 .. epoch] /\ x.at = wcmd[w] /\ x.epoch = ns[w]
  BY <1>2, <1>4
<1> HIDE DEF x
<1>6. done \in Seq([at : DOMAIN puts, epoch : 0 .. epoch]) /\ done' = Append(done, x)
  BY DEF WriterInv, WriterTypeOK, CallRun, x
<1>7. /\ done' \in Seq([at : DOMAIN puts, epoch : 0 .. epoch])
      /\ Len(done) \in Nat /\ DOMAIN done = 1 .. Len(done) /\ DOMAIN done' = 1 .. Len(done) + 1
      /\ \A i \in DOMAIN done : done'[i] = done[i]
      /\ done'[Len(done) + 1] = x
  BY <1>5, <1>6, Longer
<1>8. \A d \in DOMAIN done' : \/ d \in DOMAIN done /\ done'[d] = done[d]
                              \/ d = Len(done) + 1 /\ done'[d].at = wcmd[w] /\ done'[d].epoch = ns[w]
  BY <1>5, <1>7
<1>9. WriterTypeOK'
  BY <1>1, <1>2, <1>7 DEF WriterInv, WriterTypeOK
<1>10. OnceInv'
  <2>0. OnceInv
    BY DEF WriterInv
  <2>1. \A i, j \in DOMAIN done' : done'[i].at = done'[j].at => i = j
    <3>1. /\ \A i, j \in DOMAIN done : done[i].at = done[j].at => i = j
          /\ \A d \in DOMAIN done : wcmd[w] # done[d].at
      BY Zenon, <1>3, <2>0 DEF OnceInv
    <3> QED BY Zenon, <1>8, <3>1
  <2>2. \A j \in DOMAIN queue, d \in DOMAIN done' : queue[j] # done'[d].at
    <3>1. \A j \in DOMAIN queue : queue[j] # wcmd[w] /\ \A d \in DOMAIN done : queue[j] # done[d].at
      BY Zenon, <1>3, <2>0 DEF OnceInv
    <3> QED BY Zenon, <1>8, <3>1
  <2>3. \A v \in Held', d \in DOMAIN done' : wcmd[v] # done'[d].at
    <3>1. \A v \in Held \ {w} : wcmd[v] # wcmd[w] /\ \A d \in DOMAIN done : wcmd[v] # done[d].at
      BY Zenon, <1>3, <2>0 DEF OnceInv
    <3> QED BY Zenon, <1>3, <1>8, <3>1
  <2>4. ASSUME NEW i \in DOMAIN puts
        PROVE  \/ \E j \in DOMAIN queue : queue[j] = i
               \/ \E v \in Held' : wcmd[v] = i
               \/ \E d \in DOMAIN done' : done'[d].at = i
    <3>1. Len(done) + 1 \in DOMAIN done' /\ DOMAIN done \subseteq DOMAIN done' /\ done'[Len(done) + 1].at = wcmd[w]
      BY <1>5, <1>7
    <3>2. \/ \E j \in DOMAIN queue : queue[j] = i
          \/ \E v \in Held : wcmd[v] = i
          \/ \E d \in DOMAIN done : done[d].at = i
      BY Zenon, <2>0 DEF OnceInv
    <3> QED BY Zenon, <1>3, <1>7, <3>1, <3>2
  <2> QED BY <1>1, <1>3, <2>0, <2>1, <2>2, <2>3, <2>4 DEF OnceInv
<1>11. SelectInv'
  <2>1. NeverStaleNamespace'
    BY <1>1, <1>4, <1>8 DEF WriterInv, SelectInv, NeverStaleNamespace
  <2> QED BY <1>1, <1>3, <2>1 DEF WriterInv, SelectInv
<1> QED BY <1>9, <1>10, <1>11 DEF WriterInv

\* CallBegin and CallEnd: the worker's flag changes and no command moves.
LEMMA CallInv ==
    ASSUME WriterInv, NEW w \in Workers, CallBegin(w) \/ CallEnd(w)
    PROVE  WriterInv'
<1>0. WriterTypeOK /\ OnceInv /\ SelectInv
  BY DEF WriterInv
<1>1. UNCHANGED <<queue, puts, epoch, lpc, turn, ns, done>>
  BY DEF CallBegin, CallEnd, loop
<1>2. puts \in Seq(0 .. epoch) /\ wcmd \in [Workers -> 0 .. Len(puts)]
  BY <1>0 DEF WriterTypeOK
<1>3. Len(puts) \in Nat
  BY <1>2, SeqOver
<1>4. CASE CallBegin(w)
  <2>1. Held' = Held /\ wcmd' = wcmd
    BY <1>0, <1>4 DEF Held, CallBegin, WriterTypeOK
  <2>2. /\ wpc' \in [Workers -> {"idle", "taken", "call", "ran"}]
        /\ writing' \in [Workers -> BOOLEAN]
    BY <1>0, <1>4 DEF CallBegin, WriterTypeOK
  <2>3. WriterTypeOK'
    BY <1>0, <1>1, <2>1, <2>2 DEF WriterTypeOK
  <2>4. OnceInv'
    BY <1>0, <1>1, <2>1, MovedOnce DEF Moved
  <2>5. SelectInv'
    BY <1>0, <1>1, <2>1 DEF SelectInv, NeverStaleNamespace
  <2> QED BY <2>3, <2>4, <2>5 DEF WriterInv
<1>5. CASE CallEnd(w)
  <2>1. Held' = Held /\ \A v \in Held : wcmd'[v] = wcmd[v]
    BY <1>0, <1>5 DEF Held, CallEnd, WriterTypeOK
  <2>2. /\ wpc' \in [Workers -> {"idle", "taken", "call", "ran"}]
        /\ writing' \in [Workers -> BOOLEAN]
    BY <1>0, <1>5 DEF CallEnd, WriterTypeOK
  <2>3. wcmd' \in [Workers -> 0 .. Len(puts)]
    BY <1>2, <1>3, <1>5 DEF CallEnd
  <2>4. WriterTypeOK'
    BY <1>0, <1>1, <2>2, <2>3 DEF WriterTypeOK
  <2>5. OnceInv'
    BY <1>0, <1>1, <2>1, MovedOnce DEF Moved
  <2>6. SelectInv'
    BY <1>0, <1>1, <2>1 DEF SelectInv, NeverStaleNamespace
  <2> QED BY <2>4, <2>5, <2>6 DEF WriterInv
<1> QED BY <1>4, <1>5

\* The steps of a select: only SelectCall changes a worker's namespace, to one
\* that is not older.
LEMMA SelectStepsInv ==
    ASSUME WriterInv, EnqueueSelect \/ Select
    PROVE  WriterInv'
<1>0. WriterTypeOK /\ OnceInv /\ SelectInv
  BY DEF WriterInv
<1>1. UNCHANGED <<queue, puts, done, wpc, wcmd>>
  BY DEF EnqueueSelect, Select, SelectDrained, SelectCheck, SelectCall
<1>2. Held' = Held
  BY <1>1 DEF Held
<1>3. OnceInv'
  BY <1>0, <1>1, <1>2, MovedOnce DEF Moved
<1>4. CASE EnqueueSelect
  <2>1. epoch \in Nat /\ epoch' = epoch + 1 /\ epoch' \in 0 .. MaxSelects
    BY <1>0, <1>4, DBWriterAssumption DEF EnqueueSelect, WriterTypeOK
  <2>2. 0 .. epoch \subseteq 0 .. epoch'
    BY <2>1
  <2>3. puts' \in Seq(0 .. epoch')
    BY <1>0, <1>1, <2>2, SeqWiden DEF WriterTypeOK
  <2>4. done' \in Seq([at : DOMAIN puts', epoch : 0 .. epoch'])
    <3>1. [at : DOMAIN puts, epoch : 0 .. epoch] \subseteq [at : DOMAIN puts', epoch : 0 .. epoch']
      BY <1>1, <2>2
    <3>2. done \in Seq([at : DOMAIN puts, epoch : 0 .. epoch])
      BY <1>0 DEF WriterTypeOK
    <3>3. done \in Seq([at : DOMAIN puts', epoch : 0 .. epoch'])
      BY <3>1, <3>2, SeqWiden
    <3> QED BY <1>1, <3>3
  <2>5. ns' \in [Workers -> 0 .. epoch'] /\ ns' = ns
    BY <1>0, <1>4, <2>2 DEF EnqueueSelect, WriterTypeOK
  <2>6. lpc' = "drain" /\ UNCHANGED <<turn, writing>>
    BY <1>4 DEF EnqueueSelect
  <2>7. WriterTypeOK'
    BY <1>0, <1>1, <2>1, <2>3, <2>4, <2>5, <2>6 DEF WriterTypeOK
  <2>8. SelectInv'
    BY <1>0, <1>1, <1>2, <2>5, <2>6 DEF SelectInv, NeverStaleNamespace
  <2> QED BY <1>3, <2>7, <2>8 DEF WriterInv
<1>5. CASE SelectDrained \/ SelectCheck
  <2>1. UNCHANGED <<epoch, writing, ns>>
    BY <1>5 DEF SelectDrained, SelectCheck
  <2>2. /\ lpc' \in {"check", "call"} /\ turn' \in Workers
        /\ \A w \in Workers : w < turn' => ns[w] = epoch
    BY <1>0, <1>5, DBWriterAssumption DEF SelectDrained, SelectCheck, SelectInv, Workers
  <2>3. turn' \in 0 .. N
    BY <2>2, DBWriterAssumption DEF Workers
  <2>4. WriterTypeOK'
    BY <1>0, <1>1, <2>1, <2>2, <2>3 DEF WriterTypeOK
  <2>5. SelectInv'
    BY <1>0, <1>1, <1>2, <2>1, <2>2 DEF SelectInv, NeverStaleNamespace
  <2> QED BY <1>3, <2>4, <2>5 DEF WriterInv
<1>6. CASE SelectCall
  <2>1. /\ turn \in Workers /\ \A w \in Workers : w < turn => ns[w] = epoch
        /\ ns \in [Workers -> 0 .. epoch] /\ epoch \in Nat /\ epoch' = epoch
    BY <1>0, <1>6, DBWriterAssumption DEF SelectCall, SelectInv, WriterTypeOK
  <2>2. /\ ns' \in [Workers -> 0 .. epoch]
        /\ \A w \in Workers : ns'[w] >= ns[w] /\ ns[w] \in Int /\ ns'[w] \in Int
        /\ \A w \in Workers : w <= turn => ns'[w] = epoch
    BY <1>6, <2>1 DEF SelectCall, Workers
  <2>3. /\ lpc' \in {"idle", "check"}
        /\ lpc' = "idle" => turn = N
        /\ lpc' = "check" => turn' = turn + 1 /\ turn # N
        /\ turn' \in 0 .. N
    BY <1>6, <2>1, DBWriterAssumption DEF SelectCall, Workers
  <2>4. writing' \in [Workers -> BOOLEAN]
    BY <1>0, <1>6 DEF SelectCall, WriterTypeOK
  <2>5. WriterTypeOK'
    BY <1>0, <1>1, <2>1, <2>2, <2>3, <2>4 DEF WriterTypeOK
  <2>6. lpc' = "idle" => \A w \in Workers : ns'[w] = epoch'
    BY <2>1, <2>2, <2>3, DBWriterAssumption DEF Workers
  <2>7. lpc' = "check" => turn' \in Workers /\ \A w \in Workers : w < turn' => ns'[w] = epoch'
    BY <2>1, <2>2, <2>3, DBWriterAssumption DEF Workers
  <2>8. puts \in Seq(0 .. epoch) /\ queue \in Seq(DOMAIN puts)
    BY <1>0 DEF WriterTypeOK
  <2>9. /\ \A i \in DOMAIN puts : puts[i] \in 0 .. epoch
        /\ \A j \in DOMAIN queue : queue[j] \in DOMAIN puts
    BY <2>8, SeqOver
  <2>10. \A j \in DOMAIN queue, w \in Workers : ns'[w] >= puts[queue[j]]
    BY <1>0, <2>1, <2>2, <2>9 DEF SelectInv
  <2>11. \A w \in Held : ns'[w] >= puts[wcmd[w]]
    <3>1. \A w \in Held : ns[w] >= puts[wcmd[w]] /\ wcmd[w] \in DOMAIN puts /\ w \in Workers
      BY Zenon, <1>0 DEF SelectInv, OnceInv, Held
    <3> QED BY <2>1, <2>2, <2>9, <3>1
  <2>12. SelectInv'
    BY <1>0, <1>1, <1>2, <2>3, <2>6, <2>7, <2>10, <2>11 DEF SelectInv, NeverStaleNamespace
  <2> QED BY <1>3, <2>5, <2>12 DEF WriterInv
<1> QED BY <1>4, <1>5, <1>6 DEF Select

\* Every step of the replication thread and of a worker keeps the invariant.
LEMMA WriterNextInv == WriterInv /\ [WriterNext]_writerVars => WriterInv'
<1> SUFFICES ASSUME WriterInv, [WriterNext]_writerVars PROVE WriterInv'
  OBVIOUS
<1>1. CASE UNCHANGED writerVars
  <2>1. UNCHANGED <<queue, puts, epoch, lpc, turn, wpc, wcmd, writing, ns, done>>
    BY <1>1 DEF writerVars
  <2>2. Held' = Held
    BY <2>1 DEF Held
  <2>3. WriterTypeOK'
    BY <2>1 DEF WriterInv, WriterTypeOK
  <2>4. OnceInv'
    BY <2>1, <2>2, MovedOnce DEF Moved, WriterInv
  <2>5. SelectInv'
    BY <2>1, <2>2 DEF WriterInv, SelectInv, NeverStaleNamespace
  <2> QED BY <2>3, <2>4, <2>5 DEF WriterInv
<1>2. CASE Enqueue
  BY <1>2, EnqueueInv
<1>3. CASE EnqueueSelect \/ Select
  BY <1>3, SelectStepsInv
<1>4. ASSUME NEW w \in Workers, Worker(w) PROVE WriterInv'
  BY <1>4, DequeueInv, CallInv, CallRunInv DEF Worker
<1> QED BY <1>1, <1>2, <1>3, <1>4 DEF WriterNext

\* A command that is in the queue, with a worker or executed, and in one place of
\* them only, has one whereabouts.
LEMMA OnePlace == WriterInv => EachOnce
<1> SUFFICES ASSUME WriterInv, NEW i \in DOMAIN puts
             PROVE  \E p \in Whereabouts(i) : Whereabouts(i) = {p}
  BY DEF EachOnce
<1>0. OnceInv
  BY DEF WriterInv
<1> DEFINE Q == {x \in DOMAIN queue : queue[x] = i}
           H == {x \in Held : wcmd[x] = i}
           D == {x \in DOMAIN done : done[x].at = i}
<1>1. Whereabouts(i) = {<<"queue", j>> : j \in Q} \cup {<<"worker", w>> : w \in H} \cup {<<"done", j>> : j \in D}
  BY DEF Whereabouts
<1>2. CASE \E j \in DOMAIN queue : queue[j] = i
  <2>1. PICK j \in DOMAIN queue : queue[j] = i
    BY <1>2
  <2>2. Q = {j}
    BY <1>0, <2>1 DEF OnceInv
  <2>3. H = {}
    BY <1>0, <2>1 DEF OnceInv
  <2>4. D = {}
    BY <1>0, <2>1 DEF OnceInv
  <2>5. Whereabouts(i) = {<<"queue", j>>}
    BY <1>1, <2>2, <2>3, <2>4
  <2> QED BY <2>5
<1>3. CASE \E w \in Held : wcmd[w] = i
  <2>1. PICK w \in Held : wcmd[w] = i
    BY <1>3
  <2>2. H = {w}
    BY <1>0, <2>1 DEF OnceInv
  <2>3. Q = {}
    BY SMTT(30), <1>0, <2>1 DEF OnceInv
  <2>4. D = {}
    BY <1>0, <2>1 DEF OnceInv
  <2>5. Whereabouts(i) = {<<"worker", w>>}
    BY <1>1, <2>2, <2>3, <2>4
  <2> QED BY <2>5
<1>4. CASE \E d \in DOMAIN done : done[d].at = i
  <2>1. PICK d \in DOMAIN done : done[d].at = i
    BY <1>4
  <2>2. D = {d}
    BY SMTT(30), <1>0, <2>1 DEF OnceInv
  <2>3. Q = {}
    BY <1>0, <2>1 DEF OnceInv
  <2>4. H = {}
    BY <1>0, <2>1 DEF OnceInv
  <2>5. Whereabouts(i) = {<<"done", d>>}
    BY <1>1, <2>2, <2>3, <2>4
  <2> QED BY <2>5
<1> QED BY Zenon, <1>0, <1>2, <1>3, <1>4 DEF OnceInv

\* The writer's variables keep their types; the queue never outgrows
\* max-slave-worker-queue (Enqueue).
THEOREM WriterTypeCorrect == WriterSpec => []WriterTypeOK
<1>1. WriterInv => WriterTypeOK
  BY DEF WriterInv
<1> QED BY <1>1, WriterInitInv, WriterNextInv, PTL DEF WriterSpec

\* However many workers there are, every command put is in one place: queued, with
\* one worker that has not executed it yet, or executed, once (Enqueue, Dequeue, Call).
THEOREM EachOnceCorrect == WriterSpec => []EachOnce
BY OnePlace, WriterInitInv, WriterNextInv, PTL DEF WriterSpec

\* However many workers there are, none executes a command in the namespace of
\* a select before the command's own (the loop over m_workers in Enqueue).
THEOREM NeverStaleNamespaceCorrect == WriterSpec => []NeverStaleNamespace
<1>1. WriterInv => NeverStaleNamespace
  BY DEF WriterInv, SelectInv
<1> QED BY <1>1, WriterInitInv, WriterNextInv, PTL DEF WriterSpec
=============================================================================
