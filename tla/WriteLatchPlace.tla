-------------------------- MODULE WriteLatchPlace ---------------------------
(* Every operation is in one place at a time, and a change made inside the  *)
(* latch is on its way to the log.  While a snapshot is taken under the      *)
(* write latch, no write command is queued or in the log after the           *)
(* snapshot's offset; so the snapshot has each of them once.                *)
EXTENDS WriteLatchSteps

Removing(w) == pc[w] = "remove"

\* Operations that leave their threads are in no second place.
LEMMA PlaceLess ==
  ASSUME Typed, Placed, UNCHANGED <<kind, next, queue, wal>>,
         \A v \in Workers : Holding(v)' => Holding(v) /\ op'[v] = op[v],
         \A v \in Workers : op'[v] < next,
         \A v \in Workers : Removing(v)' => kind[op'[v]] = "scan"
  PROVE  PlaceInv'
<1> TypeOK /\ PlaceInv
  BY Zenon DEF Typed, Placed
<1>1. Queued' = Queued /\ Logged(Len(wal))' = Logged(Len(wal))
  BY DEF Queued, Logged
<1>2. \A v, w \in Workers : Holding(v)' /\ Holding(w)' /\ v # w => op'[v] # op'[w]
  BY DEF PlaceInv
<1>3. \A w \in Workers : Holding(w)' =>
        op'[w] # 0 /\ op'[w] \notin Queued /\ op'[w] \notin Logged(Len(wal))
  BY DEF PlaceInv
<1> QED
  BY <1>1, <1>2, <1>3 DEF PlaceInv, Removing, Op

\* An operation is pushed by its thread, or a slave is.
LEMMA PlacePush ==
  ASSUME Typed, Placed, NEW x \in Entry, UNCHANGED <<kind, next, wal>>,
         queue' = Append(queue, x), x < next,
         x # 0 => x \notin Queued /\ x \notin Logged(Len(wal)),
         \A v \in Workers : Holding(v)' => Holding(v) /\ op'[v] = op[v] /\ op[v] # x,
         \A v \in Workers : op'[v] < next,
         \A v \in Workers : Removing(v)' => kind[op'[v]] = "scan"
  PROVE  PlaceInv'
<1> TypeOK /\ PlaceInv
  BY Zenon DEF Typed, Placed
<1>1. Queued' = Queued \cup ({x} \ {0})
  BY QueuedAppend
<1>2. Logged(Len(wal))' = Logged(Len(wal))
  BY DEF Logged
<1>3. /\ Len(queue') = Len(queue) + 1 /\ Len(queue) \in Nat
      /\ \A i \in 1 .. Len(queue) : queue'[i] = queue[i]
      /\ queue'[Len(queue) + 1] = x
  BY AppendSet, SeqFacts DEF TypeOK
<1>4. \A i \in 1 .. Len(queue') : queue'[i] < next
  BY <1>3 DEF PlaceInv
<1>5. \A i, j \in 1 .. Len(queue') : queue'[i] = queue'[j] /\ queue'[i] # 0 => i = j
  <2>1. \A i \in 1 .. Len(queue) : x # 0 => queue[i] # x
    BY DEF Queued
  <2>2. \A i \in 1 .. Len(queue') : i \in 1 .. Len(queue) \/ i = Len(queue) + 1
    BY <1>3
  <2>3. \A i, j \in 1 .. Len(queue) : queue[i] = queue[j] /\ queue[i] # 0 => i = j
    BY DEF PlaceInv
  <2> QED
    BY <1>3, <2>1, <2>2, <2>3
<1>6. \A v, w \in Workers : Holding(v)' /\ Holding(w)' /\ v # w => op'[v] # op'[w]
  BY DEF PlaceInv
<1>7. \A w \in Workers : Holding(w)' =>
        op'[w] # 0 /\ op'[w] \notin Queued' /\ op'[w] \notin Logged(Len(wal))
  BY <1>1 DEF PlaceInv
<1>8. Queued' \cap Logged(Len(wal)) = {}
  BY <1>1 DEF PlaceInv
<1> QED
  BY <1>2, <1>4, <1>5, <1>6, <1>7, <1>8 DEF PlaceInv, Removing, Op

\* The head of the queue is taken off it.
LEMMA PopFacts ==
  ASSUME Typed, Placed, queue # << >>, queue' = Tail(queue)
  PROVE  /\ \A i, j \in 1 .. Len(queue') : queue'[i] = queue'[j] /\ queue'[i] # 0 => i = j
         /\ \A i \in 1 .. Len(queue') : queue'[i] < next
         /\ Head(queue) < next
<1> TypeOK /\ PlaceInv
  BY Zenon DEF Typed, Placed
<1>1. /\ Len(queue') = Len(queue) - 1 /\ Len(queue) \in Nat /\ Len(queue) >= 1
      /\ Head(queue) = queue[1]
      /\ \A i \in 1 .. Len(queue) - 1 : queue'[i] = queue[i + 1]
  BY TailSet, SeqFacts DEF TypeOK
<1>2. \A i, j \in 1 .. Len(queue') : queue'[i] = queue'[j] /\ queue'[i] # 0 => i = j
  <2>1. \A i \in 1 .. Len(queue') : i \in Nat /\ i + 1 \in 1 .. Len(queue) /\ queue'[i] = queue[i + 1]
    BY <1>1
  <2>2. \A i, j \in 1 .. Len(queue) : queue[i] = queue[j] /\ queue[i] # 0 => i = j
    BY DEF PlaceInv
  <2>3. \A i, j \in 1 .. Len(queue') : i + 1 = j + 1 => i = j
    BY <2>1
  <2> QED
    BY <2>1, <2>2, <2>3
<1>3. \A i \in 1 .. Len(queue') : queue'[i] < next
  BY <1>1 DEF PlaceInv
<1> QED
  BY <1>1, <1>2, <1>3 DEF PlaceInv

\* A thread that moves, or counts its command, keeps its operation.
LEMMA MovedHolds ==
  ASSUME Typed, NEW w \in Workers, Moved(w) \/ WriteWAL(w)
  PROVE  /\ UNCHANGED <<op, kind, next, db, queue, wal>>
         /\ \A v \in Workers : /\ Holding(v)' <=> Holding(v)
                               /\ Removing(v)' => Removing(v)
<1> TypeOK
  BY Zenon DEF Typed
<1>1. UNCHANGED <<op, kind, next, db, queue, wal>> /\ DOMAIN pc = Workers
  BY DEF Moved, WriteWAL, latch, mailbox, TypeOK
<1>2. CASE WriteWAL(w)
  BY <1>1, <1>2 DEF WriteWAL, Goto, Holding, Removing
<1>3. ASSUME Moved(w)
      PROVE  \A v \in Workers : (Holding(v)' <=> Holding(v)) /\ (Removing(v)' => Removing(v))
  <2>1. PICK step \in Outside \cup {"run", "close"} : pc' = [pc EXCEPT ![w] = step]
    BY Zenon, <1>3 DEF Moved, Goto
  <2>2. pc[w] \in Outside \cup {"run", "close"}
    BY <1>3 DEF Moved
  <2> QED
    BY <1>1, <2>1, <2>2 DEF Outside, Holding, Removing
<1> QED
  BY <1>1, <1>2, <1>3

\* An operation is in one place at a time.
LEMMA PlaceStep ==
  ASSUME Typed, Placed, [Next]_vars
  PROVE  PlaceInv'
<1> TypeOK /\ PlaceInv
  BY Zenon DEF Typed, Placed
<1> USE DEF work, latch, mailbox, snaps
<1>1. ASSUME NEW w \in Workers, NEW k \in MadeKind, Made(w, k) PROVE PlaceInv'
  <2>1. next \notin Queued /\ next \notin Logged(Len(wal)) /\ next \in Nat /\ next # 0
    BY NextFresh, SeqFacts DEF TypeOK
  <2>2. Queued' = Queued /\ Logged(Len(wal))' = Logged(Len(wal)) /\ queue' = queue /\ wal' = wal
    BY <1>1 DEF Made, NewOp, Queued, Logged
  <2>3. /\ op' = [op EXCEPT ![w] = next] /\ kind' = [kind EXCEPT ![next] = k]
        /\ pc' = [pc EXCEPT ![w] = "feed"] /\ next' = next + 1
        /\ DOMAIN op = Workers /\ DOMAIN kind = Entry /\ DOMAIN pc = Workers
    BY <1>1 DEF Made, NewOp, Goto, TypeOK
  <2>4. \A v \in Workers : op'[v] = (IF v = w THEN next ELSE op[v])
    BY <2>3
  <2>5. \A v \in Workers : v # w => pc'[v] = pc[v]
    BY <2>3
  <2>6. \A o \in Entry : o # next => kind'[o] = kind[o]
    BY <2>3
  <2>7. \A v \in Workers : op[v] \in Entry
    BY DEF TypeOK
  <2>8. kind'[0] = "none" /\ \A o \in Op : o >= next' => kind'[o] = "none"
    BY <2>1, <2>3, <2>6, WriteLatchAssumption DEF PlaceInv, Op, Entry
  <2>9. \A v \in Workers : op'[v] < next'
    BY <2>1, <2>3, <2>4, <2>7 DEF PlaceInv, Entry
  <2>10. \A v \in Workers : pc'[v] = "remove" => kind'[op'[v]] = "scan"
    <3>1. \A v \in Workers : v # w => op[v] # next
      BY <2>1, <2>7 DEF PlaceInv, Entry
    <3>2. pc'[w] = "feed"
      BY <2>3
    <3> QED
      BY <2>4, <2>5, <2>6, <2>7, <3>1, <3>2 DEF PlaceInv
  <2>11. \A v \in Workers : Holding(v)' => v = w \/ (Holding(v) /\ op[v] # next)
    BY <2>1, <2>5, <2>7 DEF PlaceInv, Entry, Holding
  <2>12. \A v \in Workers : Holding(v)' =>
           op'[v] # 0 /\ op'[v] \notin Queued /\ op'[v] \notin Logged(Len(wal))
    BY <2>1, <2>4, <2>11 DEF PlaceInv
  <2>13. \A u, v \in Workers : Holding(u)' /\ Holding(v)' /\ u # v => op'[u] # op'[v]
    BY <2>4, <2>11 DEF PlaceInv
  <2>14. /\ \A i \in 1 .. Len(queue) : queue[i] < next'
         /\ \A i \in 1 .. Len(wal) : wal[i] < next'
    <3>1. queue \in [1 .. Len(queue) -> Entry] /\ wal \in [1 .. Len(wal) -> Entry]
      BY SeqFacts DEF TypeOK
    <3>2. \A o \in Entry : o < next => o < next'
      BY <2>1, <2>3 DEF Entry
    <3> QED
      BY <3>1, <3>2 DEF PlaceInv
  <2> QED
    BY <2>2, <2>8, <2>9, <2>10, <2>12, <2>13, <2>14 DEF PlaceInv
<1>2. ASSUME NEW w \in Workers, Moved(w) \/ WriteWAL(w) PROVE PlaceInv'
  <2>1. \A v \in Workers : op'[v] < next /\ (Removing(v)' => kind[op'[v]] = "scan")
    BY <1>2, MovedHolds DEF PlaceInv, Removing
  <2> QED
    BY <1>2, <2>1, MovedHolds, PlaceLess
<1>3. ASSUME NEW w \in Workers, FireSoftSignal(w) PROVE PlaceInv'
  <2>1. /\ UNCHANGED <<kind, next, queue, wal>> /\ pc' = [pc EXCEPT ![w] = AfterFeed(kind[op[w]])]
        /\ op' = [op EXCEPT ![w] = IF kind[op[w]] = "scan" THEN op[w] ELSE 0]
        /\ DOMAIN op = Workers /\ DOMAIN pc = Workers
    BY <1>3 DEF FireSoftSignal, Goto, TypeOK
  <2>2. \A v \in Workers : Holding(v)' => Holding(v) /\ op'[v] = op[v]
    BY <2>1 DEF Holding, AfterFeed
  <2>3. next > 0
    BY DEF TypeOK
  <2>4. \A v \in Workers : op'[v] < next
    BY <2>1, <2>3 DEF PlaceInv
  <2>5. \A v \in Workers : Removing(v)' => kind[op'[v]] = "scan"
    BY <2>1 DEF PlaceInv, Removing, AfterFeed
  <2> QED
    BY <2>1, <2>2, <2>4, <2>5, PlaceLess
<1>4. ASSUME NEW w \in Workers, ScanRemove(w) PROVE PlaceInv'
  <2>1. /\ UNCHANGED <<kind, next, queue, wal>> /\ pc' = [pc EXCEPT ![w] = "idle"]
        /\ op' = [op EXCEPT ![w] = 0]
        /\ DOMAIN op = Workers /\ DOMAIN pc = Workers /\ next > 0
    BY <1>4 DEF ScanRemove, Goto, TypeOK
  <2>2. \A v \in Workers : Holding(v)' => Holding(v) /\ op'[v] = op[v]
    BY <2>1 DEF Holding
  <2>3. \A v \in Workers : op'[v] < next /\ (Removing(v)' => kind[op'[v]] = "scan")
    BY <2>1 DEF PlaceInv, Removing
  <2> QED
    BY <2>1, <2>2, <2>3, PlaceLess
<1>5. ASSUME NEW w \in Workers, AsyncIO(w) PROVE PlaceInv'
  <2>1. /\ op[w] \in Entry /\ op[w] # 0 /\ op[w] < next /\ Holding(w)
        /\ op[w] \notin Queued /\ op[w] \notin Logged(Len(wal))
    BY <1>5 DEF AsyncIO, TypeOK, PlaceInv, Holding
  <2>2. /\ UNCHANGED <<op, kind, next, wal>> /\ queue' = Append(queue, op[w])
        /\ pc' = [pc EXCEPT ![w] = "signal"] /\ DOMAIN pc = Workers
    BY <1>5 DEF AsyncIO, Goto, TypeOK
  <2>3. \A v \in Workers : Holding(v)' => v # w /\ Holding(v)
    BY <2>2 DEF Holding
  <2>4. \A v \in Workers : Holding(v)' => Holding(v) /\ op'[v] = op[v] /\ op[v] # op[w]
    BY <2>1, <2>2, <2>3 DEF PlaceInv
  <2>5. \A v \in Workers : op'[v] < next /\ (Removing(v)' => kind[op'[v]] = "scan")
    BY <2>2 DEF PlaceInv, Removing
  <2> QED
    BY <2>1, <2>2, <2>4, <2>5, PlacePush
<1>6. ASSUME NEW w \in Workers, AddSlave(w) PROVE PlaceInv'
  <2>1. /\ UNCHANGED <<kind, next, wal>> /\ queue' = Append(queue, 0)
        /\ op' = [op EXCEPT ![w] = 0]
        /\ pc' = [pc EXCEPT ![w] = "signal"] /\ DOMAIN pc = Workers /\ DOMAIN op = Workers
    BY <1>6 DEF AddSlave, Goto, TypeOK
  <2>2. 0 \in Entry /\ 0 < next
    BY WriteLatchAssumption DEF TypeOK, Entry
  <2>3. \A v \in Workers : Holding(v)' => Holding(v) /\ op'[v] = op[v]
    BY <2>1 DEF Holding
  <2>4. \A v \in Workers : Holding(v) => op[v] # 0
    BY DEF PlaceInv
  <2>5. \A v \in Workers : op'[v] < next /\ (Removing(v)' => kind[op'[v]] = "scan")
    BY <2>1, <2>2 DEF PlaceInv, Removing
  <2> QED
    BY <2>1, <2>2, <2>3, <2>4, <2>5, PlacePush
<1>7. ASSUME WriteWALCallback PROVE PlaceInv'
  <2>1. /\ queue # << >> /\ queue' = Tail(queue) /\ wal' = Append(wal, Head(queue))
        /\ Head(queue) # 0 /\ UNCHANGED <<pc, op, kind, next>>
    BY <1>7 DEF WriteWALCallback
  <2>2. /\ Queued' = Queued \ {Head(queue)} /\ Head(queue) \in Queued /\ Head(queue) \in Entry
    BY <2>1, QueuedTail
  <2>3. Logged(Len(wal))' = Logged(Len(wal)) \cup {Head(queue)}
    BY <2>1, <2>2, LoggedAppend
  <2>4. \A i \in 1 .. Len(wal') : wal'[i] < next
    <3>1. /\ Len(wal') = Len(wal) + 1 /\ Len(wal) \in Nat
          /\ \A i \in 1 .. Len(wal) : wal'[i] = wal[i]
          /\ wal'[Len(wal) + 1] = Head(queue)
      BY <2>1, <2>2, AppendSet, SeqFacts DEF TypeOK
    <3> QED
      BY <2>1, <3>1, PopFacts DEF PlaceInv
  <2>5. \A v \in Workers : Holding(v)' <=> Holding(v)
    BY <2>1 DEF Holding
  <2>6. \A v \in Workers : Holding(v) =>
          op[v] # 0 /\ op[v] \notin Queued' /\ op[v] \notin Logged(Len(wal))'
    BY <2>2, <2>3 DEF PlaceInv
  <2>7. Queued' \cap Logged(Len(wal))' = {}
    BY SMTT(30), <2>2, <2>3 DEF PlaceInv
  <2> QED
    BY Zenon, <2>1, <2>4, <2>5, <2>6, <2>7, PopFacts DEF PlaceInv, Op
<1>8. ASSUME Ping PROVE PlaceInv'
  <2>1. wal' = Append(wal, 0) /\ UNCHANGED <<pc, op, kind, next, queue>> /\ 0 \in Entry /\ 0 < next
    BY <1>8, WriteLatchAssumption DEF Ping, TypeOK, Entry
  <2>2. Logged(Len(wal))' = Logged(Len(wal)) \cup {0}
    BY <2>1, LoggedAppend
  <2>3. Queued' = Queued /\ 0 \notin Queued
    BY SMTT(30), <2>1 DEF Queued
  <2>4. \A i \in 1 .. Len(wal') : wal'[i] < next
    <3>1. /\ Len(wal') = Len(wal) + 1 /\ Len(wal) \in Nat
          /\ \A i \in 1 .. Len(wal) : wal'[i] = wal[i]
          /\ wal'[Len(wal) + 1] = 0
      BY <2>1, AppendSet, SeqFacts DEF TypeOK
    <3> QED
      BY <2>1, <3>1 DEF PlaceInv
  <2>5. \A v \in Workers : Holding(v)' <=> Holding(v)
    BY SMTT(30), <2>1 DEF Holding
  <2> QED
    BY <2>1, <2>2, <2>3, <2>4, <2>5 DEF PlaceInv, Op
<1>9. ASSUME Dequeued PROVE PlaceInv'
  <2>1. /\ queue # << >> /\ queue' = Tail(queue) /\ Head(queue) = 0
        /\ UNCHANGED <<pc, op, kind, next, wal>>
    BY <1>9 DEF Dequeued
  <2>2. Queued' = Queued
    BY Zenon, <2>1, QueuedTail DEF Queued
  <2>3. Logged(Len(wal))' = Logged(Len(wal))
    BY <2>1 DEF Logged
  <2>5. \A v \in Workers : Holding(v)' <=> Holding(v)
    BY SMTT(30), <2>1 DEF Holding
  <2>6. \A v \in Workers : Holding(v) =>
          op[v] # 0 /\ op[v] \notin Queued' /\ op[v] \notin Logged(Len(wal))'
    <3>1. \A v \in Workers : Holding(v) =>
            op[v] # 0 /\ op[v] \notin Queued /\ op[v] \notin Logged(Len(wal))
      BY Zenon DEF PlaceInv
    <3> QED BY <2>2, <2>3, <3>1
  <2>7. Queued' \cap Logged(Len(wal))' = {}
    BY Zenon, <2>2, <2>3 DEF PlaceInv
  <2> QED
    BY Zenon, <2>1, <2>5, <2>6, <2>7, PopFacts DEF PlaceInv
<1>10. ASSUME UNCHANGED <<pc, op, kind, next, queue, wal>> PROVE PlaceInv'
  BY <1>10, PlaceLess DEF PlaceInv, Holding, Removing
<1>11. Turned \/ (\E s \in Savers : Saved(s)) => UNCHANGED <<pc, op, kind, next, queue, wal>>
  BY Zenon, SavedFrame DEF Turned
<1> QED
  BY Zenon, StepKinds, <1>1, <1>2, <1>3, <1>4, <1>5, <1>6, <1>7, <1>8, <1>9, <1>10, <1>11
     DEF WorkerSteps

\* A change has its place.
OnWay(o) ==
    \/ \E w \in Workers : Holding(w) /\ op[w] = o
    \/ o \in Queued
    \/ o \in Logged(Len(wal))

\* Changes go on from one place to the next.
LEMMA WayOn ==
  ASSUME Carried, UNCHANGED <<kind, next>>, db \subseteq db', \A o \in db' : o < next,
         \A o \in Op : OnWay(o) => OnWay(o)'
  PROVE  WayInv'
<1> WayInv
  BY Zenon DEF Carried
<1> QED
  BY DEF WayInv, OnWay, Op

\* A change made inside the latch stays on its way until it is in the log.
LEMMA WayStep ==
  ASSUME Typed, Placed, Carried, [Next]_vars
  PROVE  WayInv'
<1> TypeOK /\ PlaceInv /\ WayInv
  BY Zenon DEF Typed, Placed, Carried
<1> USE DEF work, latch, mailbox, snaps
<1>1. ASSUME NEW w \in Workers, NEW k \in MadeKind, Made(w, k) PROVE WayInv'
  <2>1. /\ op' = [op EXCEPT ![w] = next] /\ kind' = [kind EXCEPT ![next] = k]
        /\ pc' = [pc EXCEPT ![w] = "feed"] /\ next' = next + 1
        /\ DOMAIN op = Workers /\ DOMAIN kind = Entry /\ DOMAIN pc = Workers
        /\ db' = (IF k = "scan" THEN db ELSE db \cup {next})
        /\ UNCHANGED <<queue, wal>>
        /\ pc[w] \in {"idle", "run", "wake"} /\ next \in Nat /\ db \subseteq Op
    BY <1>1 DEF Made, NewOp, Goto, TypeOK
  <2>2. Queued' = Queued /\ Logged(Len(wal))' = Logged(Len(wal))
    BY <2>1 DEF Queued, Logged
  <2>3. /\ \A v \in Workers : Holding(v) => Holding(v)' /\ op'[v] = op[v]
        /\ Holding(w)' /\ op'[w] = next
    BY <2>1 DEF Holding
  <2>4. \A o \in Op : o # next => kind'[o] = kind[o]
    BY <2>1 DEF Entry, Op
  <2>5. next \in Op => kind'[next] = k
    BY <2>1 DEF Entry, Op
  <2>6. \A o \in Op : kind'[o] \in Latched \cup {"pop", "del"} => o \in db'
    BY <2>1, <2>4, <2>5 DEF WayInv, Latched
  <2>7. \A o \in Op : OnWay(o) \/ o = next => OnWay(o)'
    BY <2>2, <2>3 DEF OnWay
  <2>8. \A o \in Op : kind'[o] \in Latched => OnWay(o)'
    BY <2>4, <2>7 DEF WayInv, OnWay
  <2>9. \A o \in db' : o < next'
    BY <2>1 DEF WayInv, Op
  <2> QED
    BY <2>6, <2>8, <2>9 DEF WayInv, OnWay
<1>2. ASSUME NEW w \in Workers, Moved(w) \/ WriteWAL(w) \/ FireSoftSignal(w) PROVE WayInv'
  <2>1. UNCHANGED <<kind, next, db, queue, wal>>
    BY <1>2, MovedHolds DEF FireSoftSignal
  <2>2. Queued' = Queued /\ Logged(Len(wal))' = Logged(Len(wal))
    BY <2>1 DEF Queued, Logged
  <2>3. \A v \in Workers : Holding(v) => Holding(v)' /\ op'[v] = op[v]
    <3>1. CASE FireSoftSignal(w)
      BY <3>1 DEF FireSoftSignal, Goto, Holding, TypeOK
    <3> QED
      BY <1>2, <3>1, MovedHolds
  <2> QED
    BY <2>1, <2>2, <2>3, WayOn DEF OnWay, WayInv
<1>3. ASSUME NEW w \in Workers, ScanRemove(w) PROVE WayInv'
  <2>1. UNCHANGED <<kind, next, queue, wal>> /\ db' = db \cup {op[w]}
    BY <1>3 DEF ScanRemove
  <2>2. Queued' = Queued /\ Logged(Len(wal))' = Logged(Len(wal))
    BY <2>1 DEF Queued, Logged
  <2>3. \A v \in Workers : Holding(v) => Holding(v)' /\ op'[v] = op[v]
    <3>1. pc' = [pc EXCEPT ![w] = "idle"] /\ op' = [op EXCEPT ![w] = 0] /\ pc[w] = "remove"
      BY <1>3 DEF ScanRemove, Goto
    <3>2. DOMAIN pc = Workers /\ DOMAIN op = Workers
      BY DEF TypeOK
    <3> QED
      BY <3>1, <3>2 DEF Holding
  <2>4. \A o \in db' : o < next
    BY <2>1 DEF WayInv, PlaceInv
  <2> QED
    BY <2>1, <2>2, <2>3, <2>4, WayOn DEF OnWay
<1>4. ASSUME NEW w \in Workers, AsyncIO(w) PROVE WayInv'
  <2>1. UNCHANGED <<op, kind, next, db, wal>> /\ queue' = Append(queue, op[w]) /\ op[w] \in Entry
    BY <1>4 DEF AsyncIO, TypeOK
  <2>2. Queued' = Queued \cup ({op[w]} \ {0})
    BY <2>1, QueuedAppend
  <2>3. Logged(Len(wal))' = Logged(Len(wal))
    BY <2>1 DEF Logged
  <2>4. \A v \in Workers : Holding(v) => v = w \/ Holding(v)'
    BY <1>4 DEF AsyncIO, Goto, Holding, TypeOK
  <2>5. \A o \in Op : OnWay(o) => OnWay(o)'
    BY SMTT(30), <2>1, <2>2, <2>3, <2>4 DEF OnWay, Op
  <2> QED
    BY <2>1, <2>5, WayOn DEF WayInv
<1>5. ASSUME NEW w \in Workers, AddSlave(w) PROVE WayInv'
  <2>1. UNCHANGED <<kind, next, db, wal>> /\ queue' = Append(queue, 0) /\ 0 \in Entry
    BY <1>5, WriteLatchAssumption DEF AddSlave, Entry
  <2>2. Queued' = Queued
    BY Zenon, <2>1, QueuedAppend
  <2>3. Logged(Len(wal))' = Logged(Len(wal))
    BY <2>1 DEF Logged
  <2>4. \A v \in Workers : Holding(v) => Holding(v)' /\ op'[v] = op[v]
    BY <1>5 DEF AddSlave, Goto, Holding, TypeOK
  <2> QED
    BY <2>1, <2>2, <2>3, <2>4, WayOn DEF OnWay, WayInv
<1>6. ASSUME WriteWALCallback PROVE WayInv'
  <2>1. /\ queue # << >> /\ queue' = Tail(queue) /\ wal' = Append(wal, Head(queue))
        /\ UNCHANGED <<pc, op, kind, next, db>>
    BY <1>6 DEF WriteWALCallback
  <2>2. Queued' = Queued \ {Head(queue)} /\ Head(queue) \in Entry
    BY <2>1, QueuedTail
  <2>3. Logged(Len(wal))' = Logged(Len(wal)) \cup {Head(queue)}
    BY <2>1, <2>2, LoggedAppend
  <2>4. \A v \in Workers : Holding(v)' <=> Holding(v)
    BY <2>1 DEF Holding
  <2>5. \A o \in Op : OnWay(o) => OnWay(o)'
    BY <2>1, <2>2, <2>3, <2>4 DEF OnWay
  <2> QED
    BY <2>1, <2>5, WayOn DEF WayInv
<1>7. ASSUME Ping \/ Dequeued PROVE WayInv'
  <2>1. UNCHANGED <<pc, op, kind, next, db>>
    BY <1>7 DEF Ping, Dequeued
  <2>2. Queued' = Queued
    <3>1. CASE Ping
      BY <3>1 DEF Ping, Queued
    <3>2. CASE Dequeued
      BY Zenon, <3>2, QueuedTail DEF Dequeued, Queued
    <3> QED
      BY SMTT(30), <1>7, <3>1, <3>2
  <2>3. Logged(Len(wal)) \subseteq Logged(Len(wal))'
    <3>1. CASE Ping
      BY <3>1, LoggedAppend, WriteLatchAssumption DEF Ping, Entry
    <3>2. CASE Dequeued
      BY <3>2 DEF Dequeued, Logged
    <3> QED
      BY <1>7, <3>1, <3>2
  <2>4. \A v \in Workers : Holding(v)' <=> Holding(v)
    BY SMTT(30), <2>1 DEF Holding
  <2> QED
    BY <2>1, <2>2, <2>3, <2>4, WayOn DEF OnWay, WayInv
<1>8. ASSUME UNCHANGED <<pc, op, kind, next, db, queue, wal>> PROVE WayInv'
  BY <1>8, WayOn DEF WayInv, OnWay, Holding, Queued, Logged
<1>9. Turned \/ (\E s \in Savers : Saved(s)) => UNCHANGED <<pc, op, kind, next, db, queue, wal>>
  BY Zenon, SavedFrame DEF Turned
<1> QED
  BY Zenon, StepKinds, <1>1, <1>2, <1>3, <1>4, <1>5, <1>6, <1>7, <1>8, <1>9
     DEF WorkerSteps

-----------------------------------------------------------------------------
\* What is queued or logged is an operation or a ping, and an old one.
LEMMA OldOnes ==
  ASSUME Typed, Placed
  PROVE  /\ \A o \in Queued : o \in Entry /\ o < next
         /\ \A o \in Logged(Len(wal)) : o \in Entry /\ o < next
<1> TypeOK /\ PlaceInv
  BY Zenon DEF Typed, Placed
<1>1. queue \in [1 .. Len(queue) -> Entry] /\ wal \in [1 .. Len(wal) -> Entry]
  BY SeqFacts DEF TypeOK
<1> QED
  BY <1>1 DEF Queued, Logged, PlaceInv

\* A step changes the kind of no operation that has one already.
LEMMA KindEffect ==
  ASSUME Typed, [Next]_vars
  PROVE  \A o \in Entry : o # next => kind'[o] = kind[o]
<1> TypeOK
  BY Zenon DEF Typed
<1> USE DEF work, latch, mailbox, snaps
<1>1. ASSUME NEW w \in Workers, NEW k \in MadeKind, Made(w, k)
      PROVE  \A o \in Entry : o # next => kind'[o] = kind[o]
  BY SMTT(30), <1>1 DEF Made, NewOp, TypeOK
<1>2. ASSUME NEW w \in Workers, Moved(w) \/ WriteWAL(w) \/ AsyncIO(w) \/ FireSoftSignal(w)
                                \/ ScanRemove(w) \/ AddSlave(w)
      PROVE  kind' = kind
  BY <1>2 DEF Moved, WriteWAL, AsyncIO, FireSoftSignal, ScanRemove, AddSlave
<1>3. WriteWALCallback \/ Dequeued \/ Turned \/ Ping \/ (\E s \in Savers : Saved(s)) => kind' = kind
  BY Zenon, SavedFrame DEF WriteWALCallback, Dequeued, Turned, Ping
<1> QED
  BY Zenon, StepKinds, <1>1, <1>2, <1>3 DEF WorkerSteps

\* Only AsyncIO adds an operation to the queue.
LEMMA QueueEffect ==
  ASSUME Typed, Placed, [Next]_vars
  PROVE  \/ Queued' \subseteq Queued
         \/ \E w \in Workers : /\ pc[w] = "push"
                               /\ Queued' = Queued \cup ({op[w]} \ {0})
                               /\ op[w] \in Entry /\ kind' = kind
<1> TypeOK /\ PlaceInv
  BY Zenon DEF Typed, Placed
<1> USE DEF work, latch, mailbox, snaps
<1>1. ASSUME UNCHANGED queue PROVE Queued' = Queued
  BY <1>1 DEF Queued
<1>2. ASSUME NEW w \in Workers, Moved(w) \/ WriteWAL(w) \/ FireSoftSignal(w) \/ ScanRemove(w)
                                \/ (\E k \in MadeKind : Made(w, k))
      PROVE  UNCHANGED queue
  BY <1>2 DEF Moved, WriteWAL, FireSoftSignal, ScanRemove, Made, NewOp
<1>3. ASSUME NEW w \in Workers, AsyncIO(w)
      PROVE  /\ pc[w] = "push" /\ Queued' = Queued \cup ({op[w]} \ {0})
             /\ op[w] \in Entry /\ kind' = kind
  BY <1>3, QueuedAppend DEF AsyncIO, TypeOK
<1>4. ASSUME NEW w \in Workers, AddSlave(w) PROVE Queued' = Queued
  <2>1. queue' = Append(queue, 0) /\ 0 \in Entry
    BY <1>4, WriteLatchAssumption DEF AddSlave, Entry
  <2> QED
    BY Zenon, <2>1, QueuedAppend
<1>5. WriteWALCallback \/ Dequeued => Queued' \subseteq Queued
  BY QueuedTail DEF WriteWALCallback, Dequeued
<1>6. Turned \/ Ping \/ (\E s \in Savers : Saved(s)) => UNCHANGED queue
  BY Zenon, SavedFrame DEF Turned, Ping
<1> QED
  BY Zenon, StepKinds, <1>1, <1>2, <1>3, <1>4, <1>5, <1>6 DEF WorkerSteps

\* The log is left alone, or gets what was queued, or a ping.
LEMMA LogEffect ==
  ASSUME Typed, Placed, [Next]_vars
  PROVE  \/ UNCHANGED wal
         \/ /\ \E x \in Entry : wal' = Append(wal, x) /\ (x \in Queued \/ x = 0)
            /\ UNCHANGED <<kind, next, db, stage, offset, content>>
<1> TypeOK /\ PlaceInv
  BY Zenon DEF Typed, Placed
<1> USE DEF work, latch, mailbox, snaps
<1>1. ASSUME NEW w \in Workers, WorkerSteps(w) PROVE UNCHANGED wal
  BY <1>1, WorkerFrame
<1>2. ASSUME WriteWALCallback
      PROVE  /\ Head(queue) \in Entry /\ wal' = Append(wal, Head(queue)) /\ Head(queue) \in Queued
             /\ UNCHANGED <<kind, next, db, stage, offset, content>>
  BY <1>2, QueuedTail DEF WriteWALCallback
<1>3. ASSUME Ping
      PROVE  0 \in Entry /\ wal' = Append(wal, 0) /\ UNCHANGED <<kind, next, db, stage, offset, content>>
  BY <1>3, WriteLatchAssumption DEF Ping, Entry
<1>4. Dequeued \/ Turned \/ (\E s \in Savers : Saved(s)) => UNCHANGED wal
  BY Zenon, SavedFrame DEF Dequeued, Turned
<1> QED
  BY Zenon, StepKinds, <1>1, <1>2, <1>3, <1>4

\* A snapshot is left alone, or comes one stage further while nothing else moves.
LEMMA StageEffect ==
  ASSUME Typed, Placed, [Next]_vars, NEW t \in Savers
  PROVE  \/ UNCHANGED <<stage[t], offset[t], content[t]>>
         \/ StageStep(t) /\ UNCHANGED <<kind, next, db, wal>> /\ Queued' \subseteq Queued
<1> TypeOK /\ PlaceInv
  BY Zenon DEF Typed, Placed
<1> USE DEF work, latch, mailbox, snaps
<1>1. ASSUME NEW w \in Workers, WorkerSteps(w) PROVE UNCHANGED <<stage, offset, content>>
  BY SMTT(30), <1>1, WorkerFrame
<1>2. ASSUME NEW s \in Savers, Saved(s)
      PROVE  \/ UNCHANGED <<stage[t], offset[t], content[t]>>
             \/ StageStep(t) /\ UNCHANGED <<kind, next, db, wal>> /\ Queued' \subseteq Queued
  <2>1. UNCHANGED <<kind, next, db, wal, queue>>
    BY <1>2, SavedFrame
  <2>2. Queued' = Queued
    BY <2>1 DEF Queued
  <2> QED
    BY <1>2, <2>1, <2>2, SavedStage, SavedOther
<1>3. ASSUME Dequeued
      PROVE  \/ UNCHANGED <<stage[t], offset[t], content[t]>>
             \/ StageStep(t) /\ UNCHANGED <<kind, next, db, wal>> /\ Queued' \subseteq Queued
  <2>1. UNCHANGED <<kind, next, db, wal>> /\ Queued' \subseteq Queued
    BY <1>3, QueuedTail DEF Dequeued
  <2>2. DOMAIN stage = Savers /\ DOMAIN offset = Savers /\ DOMAIN content = Savers
    BY DEF TypeOK
  <2>3. UNCHANGED <<stage[t], offset[t], content[t]>> \/ StageStep(t)
    BY <1>3, <2>2 DEF Dequeued, Fresh, Stage, StageStep
  <2> QED
    BY <2>1, <2>3
<1>4. WriteWALCallback \/ Turned \/ Ping => UNCHANGED <<stage, offset, content>>
  BY ZenonT(30) DEF WriteWALCallback, Turned, Ping
<1> QED
  BY Zenon, StepKinds, <1>1, <1>2, <1>3, <1>4

\* From the moment the queue has run empty, no write command is in it.
LEMMA QuietQueue ==
  ASSUME Typed, Placed, Quieted, [Next]_vars, NEW t \in Savers,
         stage'[t] \in Drained, qsize = 0 => Queued = {}
  PROVE  \A o \in Queued' : kind'[o] \notin Latched
<1> TypeOK /\ PlaceInv /\ QuietInv
  BY Zenon DEF Typed, Placed, Quieted
<1>1. \A o \in Queued : kind'[o] = kind[o]
  <2>1. \A o \in Queued : o \in Entry /\ o # next
    BY OldOnes, NextFresh
  <2> QED
    BY <2>1, KindEffect
<1>2. CASE StageStep(t) /\ UNCHANGED <<kind, next, db, wal>> /\ Queued' \subseteq Queued
  <2>1. Queued = {} \/ stage[t] \in Drained
    BY <1>2 DEF StageStep, Drained
  <2> QED
    BY SMTT(30), <1>1, <1>2, <2>1 DEF QuietInv
<1>3. CASE UNCHANGED <<stage[t], offset[t], content[t]>>
  <2>1. Inside = {} /\ \A o \in Queued : kind[o] \notin Latched
    BY <1>3 DEF QuietInv
  <2>2. \A w \in Workers : pc[w] = "push" => kind[op[w]] \notin Latched
    BY SMTT(30), <2>1 DEF Inside, InLatch
  <2> QED
    BY <1>1, <2>1, <2>2, QueueEffect
<1> QED
  BY <1>2, <1>3, StageEffect

\* Once the end of the log is recorded, no write command goes behind it.
LEMMA QuietLog ==
  ASSUME Typed, Placed, Quieted, Snapped, [Next]_vars, NEW t \in Savers,
         stage'[t] \in {"cksm", "create", "backup"}
  PROVE  \A o \in Logged(Len(wal))' : kind'[o] \in Latched => o \in Logged(offset[t])'
<1> TypeOK /\ PlaceInv /\ QuietInv /\ SnapInv
  BY Zenon DEF Typed, Placed, Quieted, Snapped
<1>0. offset[t] \in Nat /\ offset[t] <= Len(wal) /\ Len(wal) \in Nat
  BY SMTT(30), SeqFacts DEF TypeOK, SnapInv
<1>1. CASE StageStep(t) /\ UNCHANGED <<kind, next, db, wal>> /\ Queued' \subseteq Queued
  <2>1. \/ offset'[t] = Len(wal)
        \/ stage[t] \in {"cksm", "create", "backup"} /\ offset'[t] = offset[t]
    BY <1>1 DEF StageStep
  <2>2. Logged(Len(wal))' = Logged(Len(wal)) /\ Logged(offset[t])' = Logged(offset'[t])
    BY <1>1 DEF Logged
  <2>3. ASSUME stage[t] \in {"cksm", "create", "backup"}, NEW o \in Logged(Len(wal)), kind[o] \in Latched
        PROVE  o \in Logged(offset[t])
    BY Zenon, <2>3 DEF QuietInv
  <2>4. ASSUME NEW o \in Logged(Len(wal))', kind'[o] \in Latched
        PROVE  o \in Logged(offset[t])'
    <3>1. o \in Logged(Len(wal)) /\ kind[o] \in Latched
      BY Zenon, <1>1, <2>2, <2>4
    <3>2. CASE offset'[t] = Len(wal)
      BY Zenon, <2>2, <3>1, <3>2
    <3>3. CASE stage[t] \in {"cksm", "create", "backup"} /\ offset'[t] = offset[t]
      <4>1. o \in Logged(offset[t])
        BY Zenon, <2>3, <3>1, <3>3
      <4> QED BY Zenon, <2>2, <3>3, <4>1
    <3> QED BY Zenon, <2>1, <3>2, <3>3
  <2> QED
    BY Zenon, <2>4
<1>2. CASE UNCHANGED <<stage[t], offset[t], content[t]>>
  <2>1. /\ \A o \in Queued : kind[o] \notin Latched
        /\ \A o \in Logged(Len(wal)) : kind[o] \in Latched => o \in Logged(offset[t])
    <3>1. stage[t] \in {"cksm", "create", "backup"} /\ stage[t] \in Drained
      BY Zenon, <1>2 DEF Drained
    <3> QED
      BY Zenon, <3>1 DEF QuietInv
  <2>2. CASE UNCHANGED wal
    <3>1. Logged(Len(wal))' = Logged(Len(wal)) /\ Logged(offset[t])' = Logged(offset[t])
      BY <1>2, <2>2 DEF Logged
    <3>2. \A o \in Logged(Len(wal)) : o \in Entry /\ o # next
      BY <1>0, OldOnes, NextFresh
    <3>3. \A o \in Logged(Len(wal)) : kind'[o] = kind[o]
      BY <3>2, KindEffect
    <3> QED
      BY <2>1, <3>1, <3>3
  <2>3. ASSUME NEW x \in Entry, wal' = Append(wal, x), x \in Queued \/ x = 0,
               UNCHANGED <<kind, next, db, stage, offset, content>>
        PROVE  \A o \in Logged(Len(wal))' : kind'[o] \in Latched => o \in Logged(offset[t])'
    <3>1. Logged(Len(wal))' = Logged(Len(wal)) \cup {x} /\ Logged(offset[t])' = Logged(offset[t])
      <4>1. /\ Logged(Len(wal))' = Logged(Len(wal)) \cup {x}
            /\ \A n \in Nat : n <= Len(wal) => Logged(n)' = Logged(n)
        BY <2>3, LoggedAppend
      <4>2. Logged(offset[t])' = {wal'[i] : i \in 1 .. offset[t]}
        BY SMTT(30), <2>3 DEF Logged
      <4> QED
        BY Zenon, <1>0, <4>1, <4>2 DEF Logged
    <3>2. kind[x] \notin Latched
      BY <2>1, <2>3 DEF PlaceInv, Latched
    <3> QED
      BY <2>1, <2>3, <3>1, <3>2
  <2> QED
    BY ZenonT(30), <2>2, <2>3, LogEffect
<1> QED
  BY <1>1, <1>2, StageEffect

\* Operations are numbered upwards.
LEMMA NextEffect ==
  ASSUME Typed, [Next]_vars
  PROVE  next \in Nat /\ next' \in Nat /\ next' >= next
<1> TypeOK
  BY Zenon DEF Typed
<1> USE DEF work, latch, mailbox, snaps
<1>0. next \in Nat
  BY DEF TypeOK
<1>1. ASSUME NEW w \in Workers, NEW k \in MadeKind, Made(w, k) PROVE next' = next + 1
  BY SMTT(30), <1>1 DEF Made, NewOp
<1>2. ASSUME NEW w \in Workers, Moved(w) \/ WriteWAL(w) \/ AsyncIO(w) \/ FireSoftSignal(w)
                                \/ ScanRemove(w) \/ AddSlave(w)
      PROVE  next' = next
  BY ZenonT(30), <1>2 DEF Moved, WriteWAL, AsyncIO, FireSoftSignal, ScanRemove, AddSlave
<1>3. WriteWALCallback \/ Dequeued \/ Turned \/ Ping \/ (\E s \in Savers : Saved(s)) => next' = next
  BY ZenonT(30), SavedFrame DEF WriteWALCallback, Dequeued, Turned, Ping
<1>4. next' = next \/ next' = next + 1
  BY Zenon, StepKinds, <1>1, <1>2, <1>3 DEF WorkerSteps
<1> QED
  BY <1>0, <1>4

\* A snapshot's offset lies in the log, its content has no operation of the future,
\* and a backup that starts in time is never late.
LEMMA SnapStep ==
  ASSUME BackupStartsInTime, Typed, Placed, Carried, Snapped, [Next]_vars
  PROVE  SnapInv'
<1> TypeOK /\ PlaceInv /\ WayInv /\ SnapInv
  BY Zenon DEF Typed, Placed, Carried, Snapped
<1> SUFFICES ASSUME NEW t \in Savers
             PROVE  /\ offset'[t] <= Len(wal') /\ stage'[t] # "late"
                    /\ \A o \in content'[t] : o < next'
  BY DEF SnapInv
<1>0. offset[t] \in Nat /\ offset[t] <= Len(wal) /\ Len(wal) \in Nat
  BY SeqFacts DEF TypeOK, SnapInv
<1>1. CASE StageStep(t) /\ UNCHANGED <<kind, next, db, wal>> /\ Queued' \subseteq Queued
  <2>0. StageStep(t)
    BY Zenon, <1>1
  <2>1. offset'[t] \in {0, offset[t], Len(wal)}
    BY ZenonT(60), <2>0 DEF StageStep
  <2>6. stage'[t] # "late"
    BY ZenonT(60), <2>0 DEF StageStep
  <2>2. content'[t] \in {{}, db, content[t]}
    BY ZenonT(60), <2>0 DEF StageStep
  <2>3. \A o \in content'[t] : o < next
    <3>1. (\A o \in db : o < next) /\ (\A o \in content[t] : o < next)
      BY Zenon DEF SnapInv, WayInv
    <3> QED
      BY Zenon, <2>2, <3>1
  <2>4. next' = next /\ wal' = wal
    BY Zenon, <1>1
  <2>5. offset'[t] <= Len(wal)
    BY <1>0, <2>1
  <2> QED
    BY Zenon, <2>3, <2>4, <2>5, <2>6
<1>2. CASE UNCHANGED <<stage[t], offset[t], content[t]>>
  <2>1. Len(wal') \in Nat /\ Len(wal') >= Len(wal)
    <3>1. ASSUME NEW x \in Entry, wal' = Append(wal, x) PROVE Len(wal') = Len(wal) + 1
      BY <3>1, LoggedAppend
    <3> QED
      BY <1>0, <3>1, LogEffect
  <2>2. \A o \in content[t] : o \in Nat /\ o < next
    BY DEF SnapInv, TypeOK, Op
  <2>3. \A o \in content[t] : o < next'
    <3>1. next \in Nat /\ next' \in Nat /\ next' >= next
      BY Zenon, NextEffect
    <3> QED BY <2>2, <3>1
  <2> QED
    BY <1>0, <1>2, <2>1, <2>3 DEF SnapInv
<1> QED
  BY ZenonT(30), <1>1, <1>2, StageEffect

\* A snapshot that gets its content now has what the log up to its offset has.
LEMMA ExactTaken ==
  ASSUME Carried, Quieted, NEW t \in Savers, stage[t] \in {"create", "backup"}
  PROVE  \A o \in Op :
           /\ kind[o] \in Latched => o \in db /\ o \in Logged(offset[t])
           /\ kind[o] \in {"pop", "del"} => o \in db
<1> WayInv /\ QuietInv
  BY Zenon DEF Carried, Quieted
<1>1. /\ Inside = {} /\ \A o \in Queued : kind[o] \notin Latched
      /\ \A o \in Logged(Len(wal)) : kind[o] \in Latched => o \in Logged(offset[t])
  BY DEF QuietInv, Drained
<1>2. \A w \in Workers : Holding(w) => kind[op[w]] \notin Latched
  BY <1>1 DEF Inside, InLatch, Holding
<1> QED
  BY <1>1, <1>2 DEF WayInv

\* There is nothing in the log before its first entry.
LEMMA NothingBefore == 1 .. 0 = {}
BY SMT

\* A taken snapshot stays exact, and one that gets its content now is.
LEMMA ExactStep ==
  ASSUME BackupStartsInTime, Typed, Placed, Carried, Quieted, Snapped, ExactlyOnce,
         [Next]_vars, NEW t \in Savers, Taken(t)'
  PROVE  Exact(t)'
<1> TypeOK /\ PlaceInv /\ WayInv /\ QuietInv /\ SnapInv
  BY Zenon DEF Typed, Placed, Carried, Quieted, Snapped
<1>0. offset[t] \in Nat /\ offset[t] <= Len(wal) /\ Len(wal) \in Nat
  BY SMTT(30), SeqFacts DEF TypeOK, SnapInv
<1>1. CASE StageStep(t) /\ UNCHANGED <<kind, next, db, wal>> /\ Queued' \subseteq Queued
  <2>0. Logged(offset[t])' = Logged(offset'[t])
    <3>1. wal' = wal
      BY Zenon, <1>1
    <3> QED BY Zenon, <3>1 DEF Logged
  <2>1. CASE offset'[t] = 0 /\ content'[t] = {}
    <3>0. 1 .. offset'[t] = {}
      BY Zenon, <2>1, NothingBefore
    <3>1. Logged(offset[t])' = {}
      BY Zenon, <3>0 DEF Logged
    <3> QED
      BY Zenon, <2>1, <3>1 DEF Exact
  <2>2. CASE stage[t] \in {"create", "backup"} /\ content'[t] = db /\ offset'[t] = offset[t]
    <3>1. kind' = kind /\ Logged(offset[t])' = Logged(offset[t])
      BY Zenon, <1>1, <2>0, <2>2
    <3> QED
      BY Zenon, <2>2, <3>1, ExactTaken DEF Exact
  <2>3. CASE Taken(t) /\ UNCHANGED <<offset[t], content[t]>>
    <3>1. kind' = kind /\ Logged(offset[t])' = Logged(offset[t]) /\ content'[t] = content[t]
      BY Zenon, <1>1, <2>0, <2>3
    <3>2. Exact(t)
      BY Zenon, <2>3 DEF ExactlyOnce
    <3> QED
      BY Zenon, <3>1, <3>2 DEF Exact
  <2>4. \/ offset'[t] = 0 /\ content'[t] = {}
        \/ stage[t] \in {"create", "backup"} /\ content'[t] = db /\ offset'[t] = offset[t]
        \/ Taken(t) /\ UNCHANGED <<offset[t], content[t]>>
    <3>1. stage[t] # "late"
      BY Zenon DEF SnapInv
    <3>2. StageStep(t)
      BY Zenon, <1>1
    <3>3. stage'[t] \notin {"cksm", "create", "backup", "late"}
      BY Zenon DEF Taken
    <3> QED
      BY ZenonT(60), <3>1, <3>2, <3>3 DEF StageStep, Taken
  <2> QED
    BY Zenon, <2>1, <2>2, <2>3, <2>4
<1>2. CASE UNCHANGED <<stage[t], offset[t], content[t]>>
  <2>1. Exact(t)
    BY <1>2 DEF ExactlyOnce, Taken
  <2>2. Logged(offset[t])' = Logged(offset[t])
    <3>1. Logged(offset[t])' = {wal'[i] : i \in 1 .. offset[t]}
      BY <1>2 DEF Logged
    <3>2. ASSUME NEW x \in Entry, wal' = Append(wal, x)
          PROVE  {wal'[i] : i \in 1 .. offset[t]} = Logged(offset[t])
      BY SMTT(30), <1>0, <3>2, LoggedAppend DEF Logged
    <3> QED
      BY Zenon, <3>1, <3>2, LogEffect DEF Logged
  <2>3. next \notin content[t] /\ next \notin Logged(offset[t])
    <3>1. next \notin content[t]
      BY DEF SnapInv, TypeOK
    <3> QED
      BY <1>0, <3>1, NextFresh
  <2>4. \A o \in Op : o # next => kind'[o] = kind[o]
    BY KindEffect DEF Op, Entry
  <2> QED
    BY <1>2, <2>1, <2>2, <2>3, <2>4 DEF Exact
<1> QED
  BY <1>1, <1>2, StageEffect
=============================================================================
