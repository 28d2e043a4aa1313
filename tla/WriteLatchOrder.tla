-------------------------- MODULE WriteLatchOrder ---------------------------
(* However late a backup starts, no change is missing from it and from the    *)
(* log behind its offset; and the log has the changes of every thread in the  *)
(* thread's order.                                                            *)
EXTENDS WriteLatchProofs

-----------------------------------------------------------------------------
(* The log keeps the order of every thread.                                  *)

\* The first entry of a queue comes before the others of its maker.
First(b, q) ==
    \A i \in 1 .. Len(Tail(q)) :
      Head(q) # 0 /\ b[Head(q)] = b[Tail(q)[i]] => Head(q) < Tail(q)[i]

\* Removing the first entry of a queue keeps the order of the others, which
\* come after it.
LEMMA OrderTail ==
  ASSUME NEW b, NEW q \in Seq(Entry), q # << >>, Ordered(b, q)
  PROVE  Ordered(b, Tail(q)) /\ First(b, q)
<1>1. /\ Len(Tail(q)) = Len(q) - 1 /\ Len(q) \in Nat /\ Len(q) >= 1 /\ Head(q) = q[1]
      /\ \A i \in 1 .. Len(q) - 1 : Tail(q)[i] = q[i + 1]
  BY TailSet, SeqFacts
<1>2. \A i \in 1 .. Len(q) - 1 : i + 1 \in 1 .. Len(q)
  BY <1>1
<1> QED
  BY <1>1, <1>2 DEF Ordered, First

\* A last entry that has a greater number than the ones of its maker keeps the
\* order.
LEMMA OrderAppend ==
  ASSUME NEW b, NEW q \in Seq(Entry), NEW x \in Entry, Ordered(b, q),
         \A i \in 1 .. Len(q) : q[i] # 0 /\ b[q[i]] = b[x] => q[i] < x
  PROVE  Ordered(b, Append(q, x))
<1>1. /\ Len(Append(q, x)) = Len(q) + 1 /\ Len(q) \in Nat
      /\ \A i \in 1 .. Len(q) : Append(q, x)[i] = q[i]
      /\ Append(q, x)[Len(q) + 1] = x
  BY AppendSet, SeqFacts
<1>2. \A i, j \in 1 .. Len(q) + 1 : i < j =>
        i \in 1 .. Len(q) /\ (j \in 1 .. Len(q) \/ j = Len(q) + 1)
  BY <1>1
<1> QED
  BY <1>1, <1>2 DEF Ordered

\* The order is about the makers of what is in the sequence only.
LEMMA OrderSame ==
  ASSUME NEW b, NEW c, NEW q, Ordered(b, q), \A i \in 1 .. Len(q) : c[q[i]] = b[q[i]]
  PROVE  Ordered(c, q)
  BY DEF Ordered

\* So is the order between two places.
LEMMA BeforeSame ==
  ASSUME NEW b, NEW c, NEW S, NEW T, Before(b, S, T), \A o \in S \cup T : c[o] = b[o]
  PROVE  Before(c, S, T)
  BY DEF Before

\* What is in the sequence is in the set of its elements.
LEMMA Elements ==
  /\ \A i \in 1 .. Len(queue) : queue[i] # 0 => queue[i] \in Queued
  /\ \A i \in 1 .. Len(wal) : wal[i] \in Logged(Len(wal))
  BY DEF Queued, Logged

\* The numbers of operations are natural numbers, with makers.
LEMMA MakersKnown ==
  ASSUME Typed, Placed, Sorted
  PROVE  \A o \in Queued \cup Logged(Len(wal)) : o # 0 => o \in Op /\ o < next /\ by[o] \in Workers
<1> TypeOK /\ PlaceInv /\ OrderInv
  BY Zenon DEF Typed, Placed, Sorted
<1>1. \A o \in Queued \cup Logged(Len(wal)) : o \in Entry /\ o < next
  BY Zenon, OldOnes
<1>2. \A o \in Entry : o # 0 => o \in Op
  BY WriteLatchAssumption DEF Entry, Op
<1> QED
  BY Zenon, <1>1, <1>2 DEF OrderInv

\* Nothing of the order depends on anything but makers, places and hands.
LEMMA OrderLess ==
  ASSUME Sorted, UNCHANGED <<by, next, queue, wal>>,
         \A v \in Workers : Holding(v)' => Holding(v) /\ op'[v] = op[v]
  PROVE  OrderInv'
<1> OrderInv
  BY Zenon DEF Sorted
<1>1. Queued' = Queued /\ Logged(Len(wal))' = Logged(Len(wal))
  BY DEF Queued, Logged
<1>2. Ordered(by, queue)' /\ Ordered(by, wal)'
  BY DEF OrderInv, Ordered
<1>3. Before(by, Logged(Len(wal)), Queued)'
  BY <1>1 DEF OrderInv, Before
<1>4. \A w \in Workers : Holding(w)' =>
        /\ by'[op'[w]] = w
        /\ Before(by, Queued, {op[w]})' /\ Before(by, Logged(Len(wal)), {op[w]})'
  BY <1>1 DEF OrderInv, Before
<1>5. by'[0] = Loop /\ \A o \in Op : o < next' => by'[o] \in Workers
  BY DEF OrderInv
<1> QED
  BY Zenon, <1>2, <1>3, <1>4, <1>5 DEF OrderInv

\* The log is not longer than itself.
LEMMA LenItself ==
  ASSUME Typed
  PROVE  Len(wal) \in Nat /\ Len(wal) <= Len(wal)
<1> TypeOK
  BY Zenon DEF Typed
<1>1. Len(wal) \in Nat
  BY SeqFacts DEF TypeOK
<1> QED
  BY <1>1

\* A thread that makes an operation gives it the greatest number so far.
LEMMA OrderMade ==
  ASSUME Typed, Placed, Sorted, NEW w \in Workers, NEW k \in MadeKind, Made(w, k)
  PROVE  OrderInv'
<1> TypeOK /\ PlaceInv /\ OrderInv
  BY Zenon DEF Typed, Placed, Sorted
<1>1. /\ by' = [by EXCEPT ![next] = w] /\ op' = [op EXCEPT ![w] = next]
      /\ pc' = [pc EXCEPT ![w] = "feed"] /\ next' = next + 1
      /\ next \in Op /\ UNCHANGED <<queue, wal>>
  BY DEF Made, NewOp, Goto, TypeOK, mailbox, Op
<1>2. /\ DOMAIN by = Entry /\ DOMAIN op = Workers /\ DOMAIN pc = Workers
      /\ next \in Entry /\ next # 0
  BY <1>1, WriteLatchAssumption DEF TypeOK, Entry, Op
<1>3. by'[next] = w /\ \A o \in Entry : o # next => by'[o] = by[o]
  BY <1>1, <1>2
<1>4. Queued' = Queued /\ Logged(Len(wal))' = Logged(Len(wal))
  BY <1>1 DEF Queued, Logged
<1>5. \A o \in Queued \cup Logged(Len(wal)) : o \in Entry /\ o # next /\ o < next
  BY Zenon, OldOnes, NextFresh, SeqFacts, LenItself DEF TypeOK
<1>6. \A o \in Queued \cup Logged(Len(wal)) : by'[o] = by[o]
  BY Zenon, <1>3, <1>5
<1>7. Ordered(by', queue') /\ Ordered(by', wal')
  <2>1. \A i \in 1 .. Len(queue) : by'[queue[i]] = by[queue[i]]
    <3>1. by'[0] = by[0]
      BY <1>2, <1>3, WriteLatchAssumption DEF Entry
    <3> QED
      BY Zenon, <1>6, <3>1, Elements
  <2>2. \A i \in 1 .. Len(wal) : by'[wal[i]] = by[wal[i]]
    BY Zenon, <1>6, Elements
  <2>3. Ordered(by, queue) /\ Ordered(by, wal)
    BY Zenon DEF OrderInv
  <2>4. Ordered(by', queue)
    BY <2>1, <2>3, OrderSame
  <2>5. Ordered(by', wal)
    BY <2>2, <2>3, OrderSame
  <2> QED
    BY Zenon, <1>1, <2>4, <2>5
<1>8. Before(by', Logged(Len(wal))', Queued')
  <2>1. Before(by, Logged(Len(wal)), Queued)
    BY Zenon DEF OrderInv
  <2> QED
    BY Zenon, <1>4, <1>6, <2>1, BeforeSame
<1>9. by'[0] = Loop /\ \A o \in Op : o < next' => by'[o] \in Workers
  BY <1>1, <1>2, <1>3, WriteLatchAssumption DEF OrderInv, Entry, Op
<1>10. ASSUME NEW v \in Workers, Holding(v)'
       PROVE  /\ by'[op'[v]] = v
              /\ Before(by', Queued', {op'[v]}) /\ Before(by', Logged(Len(wal))', {op'[v]})
  <2>1. CASE v = w
    <3>1. op'[v] = next
      BY <1>1, <1>2, <2>1
    <3>2. \A S : S \subseteq Queued \cup Logged(Len(wal)) => Before(by', S, {next})
      BY Zenon, <1>5 DEF Before
    <3> QED
      BY Zenon, <1>3, <1>4, <2>1, <3>1, <3>2
  <2>2. CASE v # w
    <3>0. op'[v] = op[v] /\ pc'[v] = pc[v]
      BY <1>1, <1>2, <2>2
    <3>1. op'[v] = op[v] /\ Holding(v)
      BY Zenon, <1>10, <3>0 DEF Holding
    <3>2. op[v] \in Entry /\ op[v] # next
      BY DEF TypeOK, PlaceInv, Entry
    <3>3. by'[op[v]] = by[op[v]]
      BY Zenon, <1>3, <3>2
    <3>4. by[op[v]] = v /\ Before(by, Queued, {op[v]}) /\ Before(by, Logged(Len(wal)), {op[v]})
      BY Zenon, <3>1 DEF OrderInv
    <3>5. Before(by', Queued, {op[v]}) /\ Before(by', Logged(Len(wal)), {op[v]})
      BY Zenon, <1>6, <3>3, <3>4, BeforeSame
    <3> QED
      BY Zenon, <1>4, <3>1, <3>3, <3>4, <3>5
  <2> QED
    BY Zenon, <2>1, <2>2
<1> QED
  BY Zenon, <1>7, <1>8, <1>9, <1>10 DEF OrderInv

\* A thread pushes what it has made: its earlier operations are before it.
LEMMA OrderPush ==
  ASSUME Typed, Placed, Sorted, NEW w \in Workers, AsyncIO(w)
  PROVE  OrderInv'
<1> TypeOK /\ PlaceInv /\ OrderInv
  BY Zenon DEF Typed, Placed, Sorted
<1>1. /\ queue' = Append(queue, op[w]) /\ pc' = [pc EXCEPT ![w] = "signal"]
      /\ UNCHANGED <<op, by, next, wal>> /\ Holding(w)
  BY DEF AsyncIO, Goto, Holding
<1>2. op[w] \in Entry /\ op[w] # 0 /\ DOMAIN pc = Workers /\ queue \in Seq(Entry)
  BY Zenon, <1>1 DEF TypeOK, PlaceInv
<1>3. /\ by[op[w]] = w
      /\ Before(by, Queued, {op[w]}) /\ Before(by, Logged(Len(wal)), {op[w]})
  BY Zenon, <1>1 DEF OrderInv
<1>4. Queued' = Queued \cup {op[w]} /\ Logged(Len(wal))' = Logged(Len(wal))
  <2>1. Queued' = Queued \cup ({op[w]} \ {0})
    BY Zenon, <1>1, <1>2, QueuedAppend
  <2>2. Logged(Len(wal))' = Logged(Len(wal))
    BY <1>1 DEF Logged
  <2> QED
    BY <1>2, <2>1, <2>2
<1>5. Ordered(by, queue')
  <2>1. Ordered(by, queue)
    BY Zenon DEF OrderInv
  <2>2. \A i \in 1 .. Len(queue) : queue[i] # 0 /\ by[queue[i]] = by[op[w]] => queue[i] < op[w]
    BY Zenon, <1>2, <1>3, Elements DEF Before
  <2> QED
    BY <1>1, <1>2, <2>1, <2>2, OrderAppend
<1>6. Before(by, Logged(Len(wal)), Queued \cup {op[w]})
  <2>1. Before(by, Logged(Len(wal)), Queued)
    BY Zenon DEF OrderInv
  <2> QED
    BY Zenon, <1>3, <2>1 DEF Before
<1>7. ASSUME NEW v \in Workers, Holding(v)'
      PROVE  /\ by[op[v]] = v
             /\ Before(by, Queued \cup {op[w]}, {op[v]}) /\ Before(by, Logged(Len(wal)), {op[v]})
  <2>1. v # w /\ Holding(v)
    BY <1>1, <1>2, <1>7 DEF Holding
  <2>2. by[op[v]] = v /\ Before(by, Queued, {op[v]}) /\ Before(by, Logged(Len(wal)), {op[v]})
    BY Zenon, <2>1 DEF OrderInv
  <2>3. by[op[w]] # by[op[v]]
    BY Zenon, <1>3, <2>1, <2>2
  <2> QED
    BY Zenon, <2>2, <2>3 DEF Before
<1>8. by[0] = Loop /\ (\A o \in Op : o < next => by[o] \in Workers) /\ Ordered(by, wal)
  BY Zenon DEF OrderInv
<1>9. by' = by /\ op' = op /\ next' = next /\ wal' = wal
  BY Zenon, <1>1
<1> QED
  BY Zenon, <1>4, <1>5, <1>6, <1>7, <1>8, <1>9 DEF OrderInv

\* A slave to be added to the queue, or taken off it, has no maker among the
\* threads.
LEMMA OrderSlave ==
  ASSUME Typed, Placed, Sorted, UNCHANGED <<by, next, wal>>,
         \A v \in Workers : Holding(v)' => Holding(v) /\ op'[v] = op[v],
         \/ queue' = Append(queue, 0)
         \/ queue # << >> /\ Head(queue) = 0 /\ queue' = Tail(queue)
  PROVE  OrderInv'
<1> TypeOK /\ PlaceInv /\ OrderInv
  BY Zenon DEF Typed, Placed, Sorted
<1>0. 0 \in Entry /\ queue \in Seq(Entry)
  BY WriteLatchAssumption DEF Entry, TypeOK
<1>1. Queued' = Queued
  <2>1. CASE queue' = Append(queue, 0)
    BY Zenon, <1>0, <2>1, QueuedAppend
  <2>2. CASE queue # << >> /\ Head(queue) = 0 /\ queue' = Tail(queue)
    <3>1. Queued' = Queued \ {0}
      BY Zenon, <2>2, QueuedTail
    <3>2. 0 \notin Queued
      BY Zenon DEF Queued
    <3> QED
      BY Zenon, <3>1, <3>2
  <2> QED
    BY Zenon, <2>1, <2>2
<1>2. Logged(Len(wal))' = Logged(Len(wal))
  BY DEF Logged
<1>3. Ordered(by, queue')
  <2>0. Ordered(by, queue)
    BY Zenon DEF OrderInv
  <2>1. CASE queue' = Append(queue, 0)
    <3>1. \A i \in 1 .. Len(queue) : queue[i] # 0 => by[queue[i]] # by[0]
      BY Zenon, MakersKnown, Elements, WriteLatchAssumption DEF OrderInv
    <3> QED
      BY <1>0, <2>0, <2>1, <3>1, OrderAppend
  <2>2. CASE queue # << >> /\ Head(queue) = 0 /\ queue' = Tail(queue)
    BY <1>0, <2>0, <2>2, OrderTail
  <2> QED
    BY Zenon, <2>1, <2>2
<1>4. \A w \in Workers : Holding(w)' =>
        /\ by[op'[w]] = w
        /\ Before(by, Queued, {op'[w]}) /\ Before(by, Logged(Len(wal)), {op'[w]})
  BY Zenon DEF OrderInv
<1>5. /\ by[0] = Loop /\ (\A o \in Op : o < next => by[o] \in Workers) /\ Ordered(by, wal)
      /\ Before(by, Logged(Len(wal)), Queued)
  BY Zenon DEF OrderInv
<1>6. by' = by /\ next' = next /\ wal' = wal
  OBVIOUS
<1> QED
  BY Zenon, <1>1, <1>2, <1>3, <1>4, <1>5, <1>6 DEF OrderInv

\* The loop appends the command that has waited longest.
LEMMA OrderLogged ==
  ASSUME Typed, Placed, Sorted, WriteWALCallback
  PROVE  OrderInv'
<1> TypeOK /\ PlaceInv /\ OrderInv
  BY Zenon DEF Typed, Placed, Sorted
<1>1. /\ queue # << >> /\ Head(queue) # 0 /\ queue' = Tail(queue) /\ wal' = Append(wal, Head(queue))
      /\ UNCHANGED <<pc, op, by, next>>
  BY DEF WriteWALCallback, work
<1>2. queue \in Seq(Entry) /\ wal \in Seq(Entry)
  BY Zenon DEF TypeOK
<1>3. /\ Queued' = Queued \ {Head(queue)} /\ Head(queue) \in Entry /\ Head(queue) \in Queued
  BY Zenon, <1>1, QueuedTail
<1>4. Logged(Len(wal))' = Logged(Len(wal)) \cup {Head(queue)}
  BY Zenon, <1>1, <1>3, LoggedAppend
<1>5. /\ Ordered(by, queue) /\ Ordered(by, wal) /\ Before(by, Logged(Len(wal)), Queued)
      /\ by[0] = Loop /\ (\A o \in Op : o < next => by[o] \in Workers)
  BY Zenon DEF OrderInv
<1>6. Ordered(by, Tail(queue)) /\ First(by, queue)
  BY Zenon, <1>1, <1>2, <1>5, OrderTail
<1>7. Ordered(by, wal')
  <2>1. \A i \in 1 .. Len(wal) : wal[i] # 0 /\ by[wal[i]] = by[Head(queue)] => wal[i] < Head(queue)
    BY Zenon, <1>1, <1>3, <1>5, Elements DEF Before
  <2> QED
    BY <1>1, <1>2, <1>3, <1>5, <2>1, OrderAppend
<1>8. Before(by, Logged(Len(wal))', Queued')
  <2>1. Before(by, {Head(queue)}, Queued')
    <3>1. \A p \in Queued' : \E i \in 1 .. Len(queue') : p = queue'[i]
      BY DEF Queued
    <3>2. queue' = Tail(queue)
      BY Zenon, <1>1
    <3> QED
      BY Zenon, <1>6, <3>1, <3>2 DEF Before, First
  <2>2. Before(by, Logged(Len(wal)), Queued')
    BY Zenon, <1>3, <1>5 DEF Before
  <2> QED
    BY Zenon, <1>4, <2>1, <2>2 DEF Before
<1>9. ASSUME NEW v \in Workers, Holding(v)'
      PROVE  /\ by[op[v]] = v
             /\ Before(by, Queued', {op[v]}) /\ Before(by, Logged(Len(wal))', {op[v]})
  <2>1. Holding(v)
    BY Zenon, <1>1, <1>9 DEF Holding
  <2>2. by[op[v]] = v /\ Before(by, Queued, {op[v]}) /\ Before(by, Logged(Len(wal)), {op[v]})
    BY Zenon, <2>1 DEF OrderInv
  <2> QED
    BY Zenon, <1>3, <1>4, <2>2 DEF Before
<1>10. by' = by /\ op' = op /\ next' = next /\ queue' = Tail(queue)
  BY Zenon, <1>1
<1> QED
  BY Zenon, <1>5, <1>6, <1>7, <1>8, <1>9, <1>10 DEF OrderInv

\* A ping has no maker among the threads either.
LEMMA OrderPing ==
  ASSUME Typed, Placed, Sorted, Ping
  PROVE  OrderInv'
<1> TypeOK /\ PlaceInv /\ OrderInv
  BY Zenon DEF Typed, Placed, Sorted
<1>1. wal' = Append(wal, 0) /\ UNCHANGED <<pc, op, by, next, queue>>
  BY DEF Ping, work, mailbox
<1>2. 0 \in Entry /\ wal \in Seq(Entry)
  BY WriteLatchAssumption DEF Entry, TypeOK
<1>3. Logged(Len(wal))' = Logged(Len(wal)) \cup {0} /\ Queued' = Queued
  <2>1. Logged(Len(wal))' = Logged(Len(wal)) \cup {0}
    BY Zenon, <1>1, <1>2, LoggedAppend
  <2>2. Queued' = Queued
    BY <1>1 DEF Queued
  <2> QED
    BY Zenon, <2>1, <2>2
<1>4. /\ Ordered(by, queue) /\ Ordered(by, wal) /\ Before(by, Logged(Len(wal)), Queued)
      /\ by[0] = Loop /\ (\A o \in Op : o < next => by[o] \in Workers)
  BY Zenon DEF OrderInv
<1>5. Ordered(by, wal')
  <2>1. \A i \in 1 .. Len(wal) : wal[i] # 0 => by[wal[i]] # by[0]
    BY Zenon, MakersKnown, Elements, WriteLatchAssumption DEF OrderInv
  <2> QED
    BY <1>1, <1>2, <1>4, <2>1, OrderAppend
<1>6. Before(by, Logged(Len(wal))', Queued)
  BY Zenon, <1>3, <1>4 DEF Before
<1>7. ASSUME NEW v \in Workers, Holding(v)'
      PROVE  /\ by[op[v]] = v
             /\ Before(by, Queued, {op[v]}) /\ Before(by, Logged(Len(wal))', {op[v]})
  <2>1. Holding(v)
    BY Zenon, <1>1, <1>7 DEF Holding
  <2>2. by[op[v]] = v /\ Before(by, Queued, {op[v]}) /\ Before(by, Logged(Len(wal)), {op[v]})
    BY Zenon, <2>1 DEF OrderInv
  <2> QED
    BY Zenon, <1>3, <2>2 DEF Before
<1>8. by' = by /\ op' = op /\ next' = next /\ queue' = queue
  BY Zenon, <1>1
<1> QED
  BY Zenon, <1>3, <1>4, <1>5, <1>6, <1>7, <1>8 DEF OrderInv

\* Every step keeps the order of every thread.
LEMMA OrderStep ==
  ASSUME Typed, Placed, Sorted, [Next]_vars
  PROVE  OrderInv'
<1> TypeOK /\ PlaceInv /\ OrderInv
  BY Zenon DEF Typed, Placed, Sorted
<1> USE DEF work, latch, mailbox, snaps
<1>1. ASSUME NEW w \in Workers, NEW k \in MadeKind, Made(w, k) PROVE OrderInv'
  BY <1>1, OrderMade
<1>2. ASSUME NEW w \in Workers, Moved(w) \/ WriteWAL(w) PROVE OrderInv'
  <2>1. UNCHANGED by
    BY <1>2 DEF Moved, WriteWAL
  <2> QED
    BY <1>2, <2>1, MovedHolds, OrderLess
<1>3. ASSUME NEW w \in Workers, FireSoftSignal(w) \/ ScanRemove(w) \/ AddSlave(w)
      PROVE  /\ \A v \in Workers : Holding(v)' => Holding(v) /\ op'[v] = op[v]
             /\ UNCHANGED <<by, next, wal>>
  <2>0. DOMAIN op = Workers /\ DOMAIN pc = Workers
    BY Zenon DEF TypeOK
  <2>1. UNCHANGED <<by, next, wal>>
    BY Zenon, <1>3 DEF FireSoftSignal, ScanRemove, AddSlave
  <2>2. \A v \in Workers : v # w => op'[v] = op[v] /\ pc'[v] = pc[v]
    BY <1>3, <2>0 DEF FireSoftSignal, ScanRemove, AddSlave, Goto
  <2>3. ~ Holding(w)'
    BY <1>3, <2>0 DEF FireSoftSignal, ScanRemove, AddSlave, Goto, Holding, AfterFeed
  <2> QED
    BY Zenon, <2>1, <2>2, <2>3 DEF Holding
<1>4. ASSUME NEW w \in Workers, FireSoftSignal(w) \/ ScanRemove(w) PROVE OrderInv'
  <2>1. UNCHANGED queue
    BY Zenon, <1>4 DEF FireSoftSignal, ScanRemove
  <2> QED
    BY <1>3, <1>4, <2>1, OrderLess
<1>5. ASSUME NEW w \in Workers, AddSlave(w) PROVE OrderInv'
  <2>1. queue' = Append(queue, 0)
    BY Zenon, <1>5 DEF AddSlave
  <2> QED
    BY <1>3, <1>5, <2>1, OrderSlave
<1>6. ASSUME NEW w \in Workers, AsyncIO(w) PROVE OrderInv'
  BY <1>6, OrderPush
<1>7. ASSUME Dequeued PROVE OrderInv'
  <2>1. /\ queue # << >> /\ Head(queue) = 0 /\ queue' = Tail(queue)
        /\ UNCHANGED <<pc, op, by, next, wal>>
    BY Zenon, <1>7 DEF Dequeued
  <2>2. \A v \in Workers : Holding(v)' => Holding(v) /\ op'[v] = op[v]
    BY Zenon, <2>1 DEF Holding
  <2> QED
    BY <2>1, <2>2, OrderSlave
<1>8. ASSUME Turned \/ (\E s \in Savers : Saved(s)) PROVE OrderInv'
  <2>1. UNCHANGED <<pc, op, by, next, queue, wal>>
    BY Zenon, <1>8, SavedFrame DEF Turned
  <2>2. \A v \in Workers : Holding(v)' => Holding(v) /\ op'[v] = op[v]
    BY Zenon, <2>1 DEF Holding
  <2> QED
    BY <2>1, <2>2, OrderLess
<1> QED
  BY Zenon, StepKinds, <1>1, <1>2, <1>4, <1>5, <1>6, <1>7, <1>8, OrderLogged, OrderPing
     DEF WorkerSteps

-----------------------------------------------------------------------------
(* A backup that starts late may have too much, but never too little.        *)

\* The log only grows, and an offset is the length it had.
LEMMA OffsetStep ==
  ASSUME Typed, Placed, Recorded, [Next]_vars
  PROVE  OffsetInv'
<1> TypeOK /\ PlaceInv /\ OffsetInv
  BY Zenon DEF Typed, Placed, Recorded
<1> SUFFICES ASSUME NEW t \in Savers PROVE offset'[t] <= Len(wal')
  BY DEF OffsetInv
<1>0. offset[t] \in Nat /\ offset[t] <= Len(wal) /\ Len(wal) \in Nat
  BY SeqFacts DEF TypeOK, OffsetInv
<1>1. CASE StageStep(t) /\ UNCHANGED <<kind, next, db, wal>> /\ Queued' \subseteq Queued
  <2>0. StageStep(t) /\ wal' = wal
    BY Zenon, <1>1
  <2>1. offset'[t] \in {0, offset[t], Len(wal)}
    BY SMTT(30), <2>0 DEF StageStep
  <2>2. offset'[t] <= Len(wal)
    BY <1>0, <2>1
  <2> QED
    BY Zenon, <2>0, <2>2
<1>2. CASE UNCHANGED <<stage[t], offset[t], content[t]>>
  <2>1. Len(wal') \in Nat /\ Len(wal') >= Len(wal)
    <3>1. ASSUME NEW x \in Entry, wal' = Append(wal, x) PROVE Len(wal') = Len(wal) + 1
      BY <3>1, LoggedAppend
    <3> QED
      BY <1>0, <3>1, LogEffect
  <2> QED
    BY <1>0, <1>2, <2>1
<1> QED
  BY ZenonT(30), <1>1, <1>2, StageEffect

\* What the log has up to a snapshot's offset, its content has, but for what is
\* logged before it is made.
Misses(t) ==
    \E o \in Op : /\ kind[o] \in Latched \cup {"pop", "del"}
                  /\ o \in Logged(offset[t]) /\ o \notin content[t]

\* A step that leaves a snapshot alone leaves what is logged before its offset.
LEMMA LoggedKept ==
  ASSUME Typed, Placed, Recorded, [Next]_vars, NEW t \in Savers, offset'[t] = offset[t]
  PROVE  Logged(offset[t])' = Logged(offset[t])
<1> TypeOK /\ PlaceInv /\ OffsetInv
  BY Zenon DEF Typed, Placed, Recorded
<1>0. offset[t] \in Nat /\ offset[t] <= Len(wal)
  BY DEF TypeOK, OffsetInv
<1>1. Logged(offset[t])' = {wal'[i] : i \in 1 .. offset[t]}
  BY DEF Logged
<1>2. ASSUME NEW x \in Entry, wal' = Append(wal, x)
      PROVE  {wal'[i] : i \in 1 .. offset[t]} = Logged(offset[t])
  BY SMTT(30), <1>0, <1>2, LoggedAppend DEF Logged
<1> QED
  BY Zenon, <1>1, <1>2, LogEffect DEF Logged

\* A snapshot that gets its content, early or late, has what is logged before its
\* offset, and keeps it.
LEMMA MissStep ==
  ASSUME Typed, Placed, Carried, Recorded, NeverMissing, [Next]_vars,
         NEW t \in Savers, Taken(t)'
  PROVE  ~ Misses(t)'
<1> TypeOK /\ PlaceInv /\ WayInv /\ OffsetInv
  BY Zenon DEF Typed, Placed, Carried, Recorded
<1>1. CASE StageStep(t) /\ UNCHANGED <<kind, next, db, wal>> /\ Queued' \subseteq Queued
  <2>1. CASE offset'[t] = 0 /\ content'[t] = {}
    <3>1. 1 .. offset'[t] = {}
      BY Zenon, <2>1, NothingBefore
    <3>2. Logged(offset[t])' = {}
      BY Zenon, <3>1 DEF Logged
    <3> QED
      BY Zenon, <3>2 DEF Misses
  <2>2. CASE content'[t] = db
    <3>1. kind' = kind
      BY Zenon, <1>1
    <3> QED
      BY Zenon, <2>2, <3>1 DEF Misses, WayInv
  <2>3. CASE Taken(t) /\ UNCHANGED <<offset[t], content[t]>>
    <3>1. kind' = kind /\ Logged(offset[t])' = Logged(offset[t]) /\ content'[t] = content[t]
      <4>1. offset'[t] = offset[t] /\ content'[t] = content[t] /\ kind' = kind
        BY Zenon, <1>1, <2>3
      <4> QED
        BY Zenon, <4>1, LoggedKept
    <3> QED
      BY Zenon, <2>3, <3>1 DEF Misses, NeverMissing
  <2>4. \/ offset'[t] = 0 /\ content'[t] = {}
        \/ content'[t] = db
        \/ Taken(t) /\ UNCHANGED <<offset[t], content[t]>>
    <3>1. StageStep(t)
      BY Zenon, <1>1
    <3>2. stage'[t] \notin {"cksm", "create", "backup", "late"}
      BY Zenon DEF Taken
    <3> QED
      BY ZenonT(60), <3>1, <3>2 DEF StageStep, Taken
  <2> QED
    BY Zenon, <2>1, <2>2, <2>3, <2>4
<1>2. CASE UNCHANGED <<stage[t], offset[t], content[t]>>
  <2>1. offset'[t] = offset[t] /\ content'[t] = content[t] /\ Taken(t)
    BY Zenon, <1>2 DEF Taken
  <2>2. Logged(offset[t])' = Logged(offset[t])
    BY Zenon, <2>1, LoggedKept
  <2>3. next \notin Logged(offset[t])
    BY NextFresh DEF TypeOK, OffsetInv
  <2>4. \A o \in Op : o # next => kind'[o] = kind[o]
    <3>1. \A o \in Op : o \in Entry
      BY DEF Op, Entry
    <3> QED
      BY Zenon, <3>1, KindEffect
  <2> QED
    BY Zenon, <2>1, <2>2, <2>3, <2>4 DEF Misses, NeverMissing
<1> QED
  BY Zenon, <1>1, <1>2, StageEffect

\* However late an engine backup starts, a slave that loads it and follows the log
\* from its offset misses no write command, no pop for a blocked client and no
\* removal of an expired key.
THEOREM NeverMissingCorrect == Spec => []NeverMissing
<1> DEFINE Inv == /\ TypeOK /\ LoopInv /\ CountInv /\ PlaceInv
                  /\ WayInv /\ OffsetInv /\ NeverMissing
<1>1. Init => Inv
  <2> SUFFICES ASSUME Init PROVE Inv
    OBVIOUS
  <2>1. TypeOK /\ LoopInv /\ CountInv /\ PlaceInv /\ WayInv
    BY Zenon, InitInv
  <2>2. Len(wal) = 0 /\ \A s \in Savers : offset[s] = 0
    BY DEF Init
  <2>3. OffsetInv
    BY <2>2 DEF OffsetInv
  <2>4. NeverMissing
    BY Zenon, <2>2, NothingBefore DEF NeverMissing, Logged
  <2> QED
    BY Zenon, <2>1, <2>3, <2>4
<1>2. Inv /\ [Next]_vars => Inv'
  <2> SUFFICES ASSUME Inv, [Next]_vars PROVE Inv'
    OBVIOUS
  <2>1. TypeOK' /\ LoopInv' /\ CountInv' /\ PlaceInv'
    BY Zenon, PlainStep
  <2>0. Typed /\ Placed /\ Carried /\ Recorded
    BY Zenon DEF Typed, Placed, Carried, Recorded
  <2>2. WayInv' /\ OffsetInv'
    BY Zenon, <2>0, WayStep, OffsetStep
  <2>3. NeverMissing'
    <3>1. \A s \in Savers : Taken(s)' => ~ Misses(s)'
      BY Zenon, <2>0, MissStep
    <3> QED
      BY Zenon, <3>1 DEF NeverMissing, Misses
  <2> QED
    BY Zenon, <2>1, <2>2, <2>3
<1> QED
  BY <1>1, <1>2, PTL DEF Spec

\* The log has the changes of every thread once each and in the order in which the
\* thread made them, for any number of threads, snapshots and slaves.
THEOREM SessionOrderCorrect == Spec => []SessionOrder
<1> DEFINE Inv == TypeOK /\ LoopInv /\ CountInv /\ PlaceInv /\ OrderInv
<1>1. Init => Inv
  <2> SUFFICES ASSUME Init PROVE Inv
    OBVIOUS
  <2>1. TypeOK /\ LoopInv /\ CountInv /\ PlaceInv
    BY Zenon, InitInv
  <2>2. /\ Len(wal) = 0 /\ Len(queue) = 0 /\ 0 \in Entry /\ by[0] = Loop
        /\ \A w \in Workers : ~ Holding(w)
    BY WriteLatchAssumption DEF Init, Holding, Entry
  <2>3. \A o \in Op : ~(o < next)
    BY DEF Init, Op
  <2>4. Logged(Len(wal)) = {} /\ Ordered(by, wal) /\ Ordered(by, queue)
    BY Zenon, <2>2, NothingBefore DEF Logged, Ordered
  <2>5. Before(by, Logged(Len(wal)), Queued)
    BY Zenon, <2>4 DEF Before
  <2> QED
    BY Zenon, <2>1, <2>2, <2>3, <2>4, <2>5 DEF OrderInv
<1>2. Inv /\ [Next]_vars => Inv'
  <2> SUFFICES ASSUME Inv, [Next]_vars PROVE Inv'
    OBVIOUS
  <2>1. Typed /\ Placed /\ Sorted
    BY Zenon DEF Typed, Placed, Sorted
  <2> QED
    BY Zenon, <2>1, PlainStep, OrderStep
<1>3. Inv => SessionOrder
  BY Zenon DEF OrderInv, SessionOrder
<1> QED
  BY <1>1, <1>2, <1>3, PTL DEF Spec
=============================================================================
