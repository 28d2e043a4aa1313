-------------------------- MODULE WriteLatchSteps ---------------------------
(* The steps of WriteLatch by what they do: to a thread and its operation, to *)
(* the queue and the log, to the loop, or to a snapshot.                      *)
EXTENDS WriteLatch, TLAPS

\* The invariants as the lemmas assume them, folded; a proof opens the one it
\* looks into.
Typed == TypeOK
Looped == LoopInv
Placed == PlaceInv
Carried == WayInv
Counted == CountInv
Quieted == QuietInv
Snapped == SnapInv
Sorted == OrderInv
Recorded == OffsetInv

\* A thread makes an operation of kind k.
Made(w, k) ==
    /\ pc[w] \in {"idle", "run", "wake"}
    /\ k \in Latched <=> pc[w] = "run"
    /\ NewOp(w, k)
    /\ db' = IF k = "scan" THEN db ELSE db \cup {next}

\* A thread with no operation on its hands goes on; it may pass the latch.
Outside == {"idle", "latch", "wake"}
Moved(w) ==
    /\ pc[w] \in Outside \cup {"run", "close"}
    /\ \E step \in Outside \cup {"run", "close"} :
         /\ Goto(w, step)
         /\ \/ callers' = callers /\ (pc[w] \in Outside <=> step \in Outside)
            \/ callers' = callers + 1 /\ prepare = 0 /\ pc[w] \in Outside /\ step \notin Outside
            \/ callers' = callers - 1 /\ pc[w] \notin Outside /\ step \in Outside
    /\ UNCHANGED <<op, kind, by, next, db, prepare, mailbox, lpc, wal, snaps, slaves, pings>>

\* The loop takes a slave off the queue.
Dequeued ==
    /\ queue # << >> /\ Head(queue) = 0
    /\ queue' = Tail(queue)
    /\ UNCHANGED <<work, latch, qsize, signal, wal, slaves, pings>>
    /\ lpc # "sub" /\ lpc' # "sub"
    /\ \/ UNCHANGED snaps
       \/ stage[Loop] = "idle" /\ Fresh(Loop)

\* The loop goes on, or nothing happens.
Turned ==
    /\ UNCHANGED <<work, latch, queue, wal, snaps, slaves, pings>>
    /\ signal' \in {FALSE, signal}
    /\ \/ qsize' = qsize /\ (lpc' = "sub" <=> lpc = "sub")
       \/ qsize' = qsize - 1 /\ lpc = "sub" /\ lpc' # "sub"

\* A snapshot is begun or goes on.
Saved(s) == (s \in Clients /\ NewSnapshot(s)) \/ Save(s)

MadeKind == {"cmd", "exp", "pop", "del", "scan"}

WorkerSteps(w) ==
    \/ \E k \in MadeKind : Made(w, k)
    \/ Moved(w) \/ WriteWAL(w) \/ AsyncIO(w) \/ FireSoftSignal(w) \/ ScanRemove(w) \/ AddSlave(w)

\* What a thread does.
LEMMA WorkerKinds ==
  ASSUME NEW w \in Workers, Begin(w) \/ Proceed(w)
  PROVE  WorkerSteps(w)
<1> USE DEF latch, mailbox, snaps, Latched, MadeKind, Outside
<1>1. CASE DoCall(w)
  BY <1>1 DEF DoCall, Moved, WorkerSteps
<1>2. CASE OpenWriteLatchByWriteCaller(w)
  BY <1>2 DEF OpenWriteLatchByWriteCaller, Moved, WorkerSteps
<1>3. CASE HandlerClean(w)
  BY <1>3 DEF HandlerClean, Moved, WorkerSteps
<1>4. CASE CloseWriteLatchByWriteCaller(w)
  BY <1>4 DEF CloseWriteLatchByWriteCaller, Moved, WorkerSteps
<1>5. CASE WakeNone(w)
  BY <1>5 DEF WakeNone, Moved, WorkerSteps
<1>6. CASE Handler(w)
  <2>1. Made(w, "cmd")
    BY <1>6 DEF Handler, Made
  <2> QED
    BY <2>1 DEF WorkerSteps
<1>7. CASE HandlerExpire(w)
  <2>1. Made(w, "exp")
    BY <1>7 DEF HandlerExpire, Made
  <2> QED
    BY <2>1 DEF WorkerSteps
<1>8. CASE WakePop(w)
  <2>1. Made(w, "pop")
    BY <1>8 DEF WakePop, Made
  <2> QED
    BY <2>1 DEF WorkerSteps
<1>9. CASE ExpireKey(w)
  <2>1. Made(w, "del")
    BY <1>9 DEF ExpireKey, Made
  <2> QED
    BY <2>1 DEF WorkerSteps
<1>10. CASE ScanExpiredKeys(w)
  <2>1. Made(w, "scan")
    BY <1>10 DEF ScanExpiredKeys, Made
  <2> QED
    BY <2>1 DEF WorkerSteps
<1> QED
  BY Zenon, <1>1, <1>2, <1>3, <1>4, <1>5, <1>6, <1>7, <1>8, <1>9, <1>10
     DEF Begin, Proceed, WorkerSteps

\* A thread leaves the loop, the log and the snapshots alone.
LEMMA WorkerFrame ==
  ASSUME NEW w \in Workers, WorkerSteps(w)
  PROVE  UNCHANGED <<prepare, lpc, wal, stage, offset, cksm, content, pings>>
  BY DEF WorkerSteps, Made, NewOp, Moved, WriteWAL, AsyncIO, FireSoftSignal, ScanRemove, AddSlave,
         latch, mailbox, snaps

\* What the loop does.
LEMMA LoopKinds ==
  ASSUME LoopStep
  PROVE  WriteWALCallback \/ Dequeued \/ Turned
<1> USE DEF work, latch, mailbox, snaps
<1>1. CASE OnSoftSignal \/ DrainEnd \/ SubQueueSize
  BY Zenon, <1>1 DEF OnSoftSignal, DrainEnd, SubQueueSize, Turned
<1>3. CASE Continue \/ ContinueReturn
  BY Zenon, <1>3 DEF Continue, ContinueReturn, Turned
<1>2. CASE SyncSlave \/ GetSyncSnapshot \/ GetSyncSnapshotAgain
  BY <1>2 DEF SyncSlave, GetSyncSnapshot, GetSyncSnapshotAgain, Dequeued
<1> QED
  BY Zenon, <1>1, <1>2, <1>3 DEF LoopStep

\* A snapshot leaves the threads, the queue and the log alone.
LEMMA SavedFrame ==
  ASSUME NEW s \in Savers, Saved(s)
  PROVE  UNCHANGED <<work, callers, mailbox, wal, slaves, pings>>
<1> USE DEF work, latch, mailbox, snaps
<1>1. CASE NewSnapshot(s)
  BY <1>1 DEF NewSnapshot
<1>2. CASE CloseWriteLatch(s) \/ NoCallers(s) \/ NoQueue(s) \/ RecordOffset(s) \/ CreateSnapshot(s)
  BY <1>2 DEF CloseWriteLatch, NoCallers, NoQueue, RecordOffset, CreateSnapshot
<1>3. CASE \E b \in BOOLEAN : RecordCksm(s, b)
  BY <1>3 DEF RecordCksm
<1>4. CASE OpenWriteLatchAfterSnapshotPrepare(s) \/ Backup(s) \/ BackupOpen(s)
  BY <1>4 DEF OpenWriteLatchAfterSnapshotPrepare, Backup, BackupOpen
<1> QED
  BY Zenon, <1>1, <1>2, <1>3, <1>4 DEF Saved, Save

\* How far a snapshot comes in one step.
StageStep(s) ==
    \/ /\ stage[s] = "idle" /\ stage'[s] = "close" /\ offset'[s] = 0 /\ content'[s] = {}
       /\ UNCHANGED prepare
    \/ /\ stage[s] = "close" /\ stage'[s] = "callers" /\ UNCHANGED <<offset, content>>
       /\ prepare' = prepare + 1
    \/ /\ stage[s] = "callers" /\ stage'[s] = "queue" /\ callers = 0
       /\ UNCHANGED <<offset, content, prepare>>
    \/ /\ stage[s] = "queue" /\ stage'[s] = "record" /\ qsize = 0
       /\ UNCHANGED <<offset, content, prepare>>
    \/ /\ stage[s] = "record" /\ stage'[s] = "cksm" /\ offset'[s] = Len(wal)
       /\ UNCHANGED <<content, prepare>>
    \/ /\ stage[s] = "cksm" /\ stage'[s] \in {"create", "backup"}
       /\ UNCHANGED <<offset, content, prepare>>
    \/ /\ \/ stage[s] = "create" /\ stage'[s] = "open"
          \/ stage[s] = "backup" /\ stage'[s] = "started"
          \/ stage[s] = "late" /\ stage'[s] = "idle"
       /\ content'[s] = db /\ UNCHANGED <<offset, prepare>>
    \/ /\ \/ stage[s] \in {"open", "started"} /\ stage'[s] = "idle"
          \/ stage[s] = "backup" /\ stage'[s] = "late" /\ ~BackupStartsInTime
       /\ UNCHANGED <<offset, content>> /\ prepare' = prepare - 1

(* A saver only moves its own stage, and only the one the action names.     *)
LEMMA SavedStage ==
  ASSUME Typed, NEW s \in Savers, Saved(s)
  PROVE  StageStep(s)
<1> TypeOK
  BY Zenon DEF Typed
<1> USE DEF Stage, latch
<1>0. DOMAIN stage = Savers /\ DOMAIN offset = Savers /\ DOMAIN content = Savers
  BY DEF TypeOK
<1>1. CASE NewSnapshot(s)
  BY <1>0, <1>1 DEF NewSnapshot, Fresh, StageStep
<1>2. CASE CloseWriteLatch(s)
  BY <1>0, <1>2 DEF CloseWriteLatch, StageStep
<1>3. CASE NoCallers(s)
  BY <1>0, <1>3 DEF NoCallers, StageStep
<1>4. CASE NoQueue(s)
  BY <1>0, <1>4 DEF NoQueue, StageStep
<1>5. CASE RecordOffset(s)
  BY <1>0, <1>5 DEF RecordOffset, StageStep
<1>6. CASE \E b \in BOOLEAN : RecordCksm(s, b)
  BY <1>0, <1>6 DEF RecordCksm, StageStep
<1>7. CASE CreateSnapshot(s)
  BY <1>0, <1>7 DEF CreateSnapshot, Take, StageStep
<1>8. CASE OpenWriteLatchAfterSnapshotPrepare(s)
  BY <1>0, <1>8 DEF OpenWriteLatchAfterSnapshotPrepare, StageStep
<1>9. CASE Backup(s)
  BY <1>0, <1>9 DEF Backup, Take, StageStep
<1>10. CASE BackupOpen(s)
  BY <1>0, <1>10 DEF BackupOpen, StageStep
<1> QED
  BY Zenon, <1>1, <1>2, <1>3, <1>4, <1>5, <1>6, <1>7, <1>8, <1>9, <1>10 DEF Saved, Save

\* A step of one snapshot leaves the others alone.
LEMMA SavedOther ==
  ASSUME Typed, NEW s \in Savers, Saved(s), NEW t \in Savers, t # s
  PROVE  UNCHANGED <<stage[t], offset[t], content[t]>>
<1> TypeOK
  BY Zenon DEF Typed
<1> USE DEF Stage
<1>0. DOMAIN stage = Savers /\ DOMAIN offset = Savers /\ DOMAIN content = Savers
  BY DEF TypeOK
<1>1. CASE NewSnapshot(s)
  BY <1>0, <1>1 DEF NewSnapshot, Fresh
<1>2. CASE CloseWriteLatch(s) \/ NoCallers(s) \/ NoQueue(s) \/ RecordOffset(s)
  BY <1>0, <1>2 DEF CloseWriteLatch, NoCallers, NoQueue, RecordOffset
<1>3. CASE \E b \in BOOLEAN : RecordCksm(s, b)
  BY <1>0, <1>3 DEF RecordCksm
<1>4. CASE CreateSnapshot(s) \/ OpenWriteLatchAfterSnapshotPrepare(s)
  BY <1>0, <1>4 DEF CreateSnapshot, Take, OpenWriteLatchAfterSnapshotPrepare
<1>5. CASE Backup(s) \/ BackupOpen(s)
  BY <1>0, <1>5 DEF Backup, Take, BackupOpen
<1> QED
  BY Zenon, <1>1, <1>2, <1>3, <1>4, <1>5 DEF Saved, Save

\* Every step is one of these.
LEMMA StepKinds ==
  ASSUME [Next]_vars
  PROVE  \/ \E w \in Workers : WorkerSteps(w)
         \/ WriteWALCallback \/ Dequeued \/ Turned \/ Ping
         \/ \E s \in Savers : Saved(s)
<1>1. CASE UNCHANGED vars
  BY <1>1 DEF vars, Turned, work, latch, snaps
<1>2. CASE \E c \in Clients : NewSnapshot(c)
  BY <1>2 DEF Saved, Savers
<1>3. CASE Next
  BY Zenon, <1>2, <1>3, WorkerKinds, LoopKinds DEF Next, Saved
<1> QED
  BY <1>1, <1>3

\* How a snapshot moves the loop: its own, when PrepareSave returns.
LEMMA SavedLoop ==
  ASSUME Typed, NEW s \in Savers, Saved(s)
  PROVE  /\ lpc' = (IF s = Loop /\ stage[s] \in Preparing /\ stage'[s] \notin Preparing
                    THEN "drain" ELSE lpc)
         /\ s = Loop => stage[s] # "idle" /\ (stage[s] = "queue" => lpc = "prep")
<1> TypeOK
  BY Zenon DEF Typed
<1> USE DEF Stage, Preparing
<1>0. DOMAIN stage = Savers
  BY DEF TypeOK
<1>1. CASE s \in Clients /\ NewSnapshot(s)
  BY <1>0, <1>1, WriteLatchAssumption DEF NewSnapshot, Fresh
<1>2. CASE CloseWriteLatch(s) \/ NoCallers(s)
  BY <1>0, <1>2 DEF CloseWriteLatch, NoCallers
<1>3. CASE NoQueue(s)
  BY <1>0, <1>3 DEF NoQueue, LatchFree, Nested
<1>4. CASE \E b \in BOOLEAN : RecordCksm(s, b)
  BY <1>0, <1>4 DEF RecordCksm
<1>5. CASE CreateSnapshot(s) \/ RecordOffset(s)
  BY <1>0, <1>5 DEF CreateSnapshot, RecordOffset
<1>6. CASE OpenWriteLatchAfterSnapshotPrepare(s)
  BY <1>0, <1>6 DEF OpenWriteLatchAfterSnapshotPrepare
<1>7. CASE Backup(s) \/ BackupOpen(s)
  BY <1>0, <1>7 DEF Backup, BackupOpen
<1> QED
  BY Zenon, <1>1, <1>2, <1>3, <1>4, <1>5, <1>6, <1>7 DEF Saved, Save

\* The loop is inside PrepareSave or has an empty hand.
LEMMA LoopInvStep ==
  ASSUME Typed, Looped, [Next]_vars
  PROVE  LoopInv' /\ lpc' \in {"idle", "drain", "sub", "prep", "stuck"}
<1> TypeOK /\ LoopInv
  BY Zenon DEF Typed, Looped
<1> USE DEF work, latch, mailbox, snaps
<1>0. lpc \in {"idle", "drain", "sub", "prep", "stuck"}
  BY DEF TypeOK
<1>1. ASSUME UNCHANGED <<lpc, stage>> PROVE LoopInv'
  BY <1>1 DEF LoopInv
<1>2. (\E w \in Workers : Begin(w) \/ Proceed(w)) \/ Ping \/ UNCHANGED vars => UNCHANGED <<lpc, stage>>
  BY WorkerKinds, WorkerFrame DEF Ping, vars
<1>3. ASSUME OnSoftSignal \/ WriteWALCallback \/ SubQueueSize \/ DrainEnd
      PROVE  LoopInv' /\ lpc' \in {"drain", "sub", "idle"}
  BY <1>3 DEF OnSoftSignal, WriteWALCallback, SubQueueSize, DrainEnd, LoopInv
<1>4. ASSUME SyncSlave PROVE LoopInv' /\ lpc' = lpc
  BY <1>4 DEF SyncSlave, LoopInv
<1>5. ASSUME GetSyncSnapshot PROVE LoopInv' /\ lpc' = "prep"
  BY <1>5 DEF GetSyncSnapshot, Fresh, Stage, LoopInv, Preparing, TypeOK, Savers
<1>6. ASSUME GetSyncSnapshotAgain PROVE LoopInv' /\ lpc' = "stuck"
  BY <1>6 DEF GetSyncSnapshotAgain, SnapshotsLocked, LoopInv, Preparing
<1>7. ASSUME Continue \/ ContinueReturn PROVE LoopInv' /\ lpc' \in {"idle", "prep"}
  BY <1>7 DEF Continue, ContinueReturn, Nested, LoopInv, Preparing
<1>8. ASSUME NEW s \in Savers, Saved(s)
      PROVE  LoopInv' /\ lpc' \in {"idle", "drain", "sub", "prep", "stuck"}
  <2>1. CASE s # Loop
    <3>1. stage'[Loop] = stage[Loop] /\ lpc' = lpc
      BY <1>8, <2>1, SavedLoop, SavedOther DEF Savers
    <3> QED
      BY <1>0, <3>1 DEF LoopInv
  <2>2. CASE s = Loop
    <3>1. lpc' = lpc \/ lpc' = "drain"
      BY <1>8, SavedLoop
    <3>2. stage'[Loop] \notin Preparing => lpc' \notin {"prep", "stuck"}
      BY <1>8, <2>2, SavedLoop DEF LoopInv
    <3>3. stage'[Loop] \in Preparing \ {"queue"} => stage[Loop] \in Preparing
      BY <1>8, <2>2, SavedStage, SavedLoop DEF StageStep, Preparing
    <3>4. stage'[Loop] \in Preparing \ {"queue"} => lpc' = "prep"
      BY <1>8, <2>2, <3>3, SavedLoop DEF LoopInv
    <3> QED
      BY <1>0, <3>1, <3>2, <3>4 DEF LoopInv
  <2> QED
    BY <2>1, <2>2
<1>9. ASSUME LoopStep PROVE LoopInv' /\ lpc' \in {"idle", "drain", "sub", "prep", "stuck"}
  BY <1>0, <1>3, <1>4, <1>5, <1>6, <1>7, <1>9 DEF LoopStep
<1>10. ASSUME NEW c \in Clients, NewSnapshot(c) PROVE c \in Savers /\ Saved(c)
  BY <1>10 DEF Saved, Savers
<1> QED
  BY <1>0, <1>1, <1>2, <1>8, <1>9, <1>10 DEF Next, Saved

\* What a sequence is a function on.
LEMMA SeqFacts ==
  ASSUME NEW S, NEW q \in Seq(S)
  PROVE  /\ Len(q) \in Nat
         /\ q \in [1 .. Len(q) -> S]
         /\ DOMAIN q = 1 .. Len(q)
  BY SMT

\* The elements of a sequence, one longer.
LEMMA AppendSet ==
  ASSUME NEW S, NEW q \in Seq(S), NEW x \in S
  PROVE  /\ Append(q, x) \in Seq(S)
         /\ Len(Append(q, x)) = Len(q) + 1
         /\ \A i \in 1 .. Len(q) : Append(q, x)[i] = q[i]
         /\ Append(q, x)[Len(q) + 1] = x
  BY SMT

\* The elements of a sequence, one shorter.
LEMMA TailSet ==
  ASSUME NEW S, NEW q \in Seq(S), q # << >>
  PROVE  /\ Tail(q) \in Seq(S)
         /\ Len(Tail(q)) = Len(q) - 1
         /\ Len(q) >= 1
         /\ Head(q) = q[1] /\ Head(q) \in S
         /\ \A i \in 1 .. Len(q) - 1 : Tail(q)[i] = q[i + 1]
  BY SMT

\* A command that is pushed joins the queue; a slave is not counted.
LEMMA QueuedAppend ==
  ASSUME Typed, NEW x \in Entry, queue' = Append(queue, x)
  PROVE  Queued' = Queued \cup ({x} \ {0})
<1> TypeOK
  BY Zenon DEF Typed
<1>1. /\ Len(queue') = Len(queue) + 1 /\ Len(queue) \in Nat
      /\ \A i \in 1 .. Len(queue) : queue'[i] = queue[i]
      /\ queue'[Len(queue) + 1] = x
  BY AppendSet, SeqFacts DEF TypeOK
<1>2. \A e : (\E i \in 1 .. Len(queue') : queue'[i] = e)
             <=> (\E i \in 1 .. Len(queue) : queue[i] = e) \/ e = x
  BY <1>1
<1> QED
  BY <1>2 DEF Queued

\* What is popped leaves the queue.
LEMMA QueuedTail ==
  ASSUME Typed, Placed, queue # << >>, queue' = Tail(queue)
  PROVE  /\ Queued' = Queued \ {Head(queue)}
         /\ Head(queue) \in Entry
         /\ Head(queue) # 0 => Head(queue) \in Queued
<1> TypeOK /\ PlaceInv
  BY Zenon DEF Typed, Placed
<1>1. /\ Len(queue') = Len(queue) - 1 /\ Len(queue) \in Nat /\ Len(queue) >= 1
      /\ Head(queue) = queue[1] /\ Head(queue) \in Entry
      /\ \A i \in 1 .. Len(queue) - 1 : queue'[i] = queue[i + 1]
  BY TailSet, SeqFacts DEF TypeOK
<1>2. ASSUME NEW e, e # 0
      PROVE  (\E i \in 1 .. Len(queue') : queue'[i] = e)
             <=> (\E i \in 1 .. Len(queue) : queue[i] = e) /\ e # Head(queue)
  <2>1. ASSUME NEW i \in 1 .. Len(queue'), queue'[i] = e
        PROVE  (\E j \in 1 .. Len(queue) : queue[j] = e) /\ e # Head(queue)
    <3>1. i + 1 \in 1 .. Len(queue) /\ queue[i + 1] = e /\ i + 1 # 1
      BY <1>1, <2>1
    <3>2. 1 \in 1 .. Len(queue)
      BY <1>1
    <3>3. e # queue[1]
      BY <1>2, <3>1, <3>2 DEF PlaceInv
    <3> QED
      BY <1>1, <3>1, <3>3
  <2>2. ASSUME NEW i \in 1 .. Len(queue), queue[i] = e, e # Head(queue)
        PROVE  \E j \in 1 .. Len(queue') : queue'[j] = e
    <3>1. i - 1 \in 1 .. Len(queue) - 1 /\ (i - 1) + 1 = i
      BY <1>1, <2>2
    <3> QED
      BY ZenonT(60), <1>1, <2>2, <3>1
  <2> QED
    BY <2>1, <2>2
<1>3. Queued' = Queued \ {Head(queue)}
  <2>1. ASSUME NEW e PROVE e \in Queued' <=> e \in Queued /\ e # Head(queue)
    <3>1. CASE e = 0
      BY <3>1 DEF Queued
    <3>2. CASE e # 0
      BY ZenonT(60), <1>2, <3>2 DEF Queued
    <3> QED
      BY <3>1, <3>2
  <2> QED
    BY <2>1
<1>4. Head(queue) # 0 => Head(queue) \in Queued
  BY <1>1 DEF Queued
<1> QED
  BY <1>1, <1>3, <1>4

\* What is appended to the log leaves every prefix of it alone.
LEMMA LoggedAppend ==
  ASSUME Typed, NEW x \in Entry, wal' = Append(wal, x)
  PROVE  /\ Len(wal') = Len(wal) + 1 /\ Len(wal) \in Nat
         /\ Logged(Len(wal))' = Logged(Len(wal)) \cup {x}
         /\ \A n \in Nat : n <= Len(wal) => Logged(n)' = Logged(n)
<1> TypeOK
  BY Zenon DEF Typed
<1>1. /\ Len(wal') = Len(wal) + 1 /\ Len(wal) \in Nat
      /\ \A i \in 1 .. Len(wal) : wal'[i] = wal[i]
      /\ wal'[Len(wal) + 1] = x
  BY AppendSet, SeqFacts DEF TypeOK
<1>2. \A e : (\E i \in 1 .. Len(wal') : wal'[i] = e)
             <=> (\E i \in 1 .. Len(wal) : wal[i] = e) \/ e = x
  BY <1>1
<1>3. ASSUME NEW n \in Nat, n <= Len(wal)
      PROVE  \A i \in 1 .. n : wal'[i] = wal[i]
  BY <1>1, <1>3
<1> QED
  BY <1>1, <1>2, <1>3 DEF Logged

\* The next operation is nowhere yet.
LEMMA NextFresh ==
  ASSUME Typed, Placed
  PROVE  /\ next \notin Queued
         /\ \A n \in Nat : n <= Len(wal) => next \notin Logged(n)
<1> TypeOK /\ PlaceInv
  BY Zenon DEF Typed, Placed
<1>1. next \notin Queued
  BY DEF PlaceInv, Queued, TypeOK
<1>2. Len(wal) \in Nat
  BY SeqFacts DEF TypeOK
<1>3. ASSUME NEW n \in Nat, n <= Len(wal) PROVE next \notin Logged(n)
  <2>1. \A i \in 1 .. n : i \in 1 .. Len(wal)
    BY <1>2, <1>3
  <2>2. \A i \in 1 .. n : wal[i] < next
    BY <2>1 DEF PlaceInv
  <2>3. ~(next < next)
    BY DEF TypeOK
  <2> QED
    BY <2>2, <2>3 DEF Logged
<1> QED
  BY <1>1, <1>3

\* The types of everything but the counters and the loop.
Shape ==
    /\ pc \in [Workers -> {"idle", "latch", "run", "feed", "push", "signal",
                           "close", "wake", "remove"}]
    /\ op \in [Workers -> Entry]
    /\ kind \in [Entry -> {"none", "cmd", "exp", "pop", "del", "scan"}]
    /\ by \in [Entry -> Workers \cup {Loop}]
    /\ next \in 1 .. MaxOps + 1
    /\ db \subseteq Op
    /\ queue \in Seq(Entry) /\ wal \in Seq(Entry)
    /\ signal \in BOOLEAN
    /\ stage \in [Savers -> Preparing \cup {"idle", "backup", "started", "late"}]
    /\ offset \in [Savers -> Nat] /\ cksm \in [Savers -> Nat]
    /\ content \in [Savers -> SUBSET Op]
    /\ slaves \in 0 .. MaxSlaves /\ pings \in 0 .. MaxPings

\* Threads keep their types.
LEMMA WorkerTypes ==
  ASSUME Typed, Placed, NEW w \in Workers, WorkerSteps(w)
  PROVE  /\ pc' \in [Workers -> {"idle", "latch", "run", "feed", "push", "signal",
                                 "close", "wake", "remove"}]
         /\ op' \in [Workers -> Entry]
         /\ kind' \in [Entry -> {"none", "cmd", "exp", "pop", "del", "scan"}]
         /\ by' \in [Entry -> Workers \cup {Loop}]
         /\ next' \in 1 .. MaxOps + 1 /\ db' \subseteq Op
         /\ queue' \in Seq(Entry) /\ signal' \in BOOLEAN
         /\ slaves' \in 0 .. MaxSlaves
<1> TypeOK /\ PlaceInv
  BY Zenon DEF Typed, Placed
<1> USE DEF latch, mailbox, snaps, Goto
<1>1. CASE \E k \in MadeKind : Made(w, k)
  BY <1>1, WriteLatchAssumption DEF Made, NewOp, MadeKind, TypeOK, Entry, Op
<1>2. CASE Moved(w)
  BY <1>2 DEF Moved, Outside, TypeOK
<1>3. CASE WriteWAL(w)
  BY <1>3 DEF WriteWAL, TypeOK
<1>7. CASE AsyncIO(w)
  BY <1>7 DEF AsyncIO, TypeOK
<1>4. CASE FireSoftSignal(w)
  BY <1>4, WriteLatchAssumption DEF FireSoftSignal, AfterFeed, TypeOK, Entry
<1>5. CASE ScanRemove(w)
  <2>1. op[w] \in Op
    BY <1>5 DEF ScanRemove, TypeOK, PlaceInv, Entry, Op
  <2> QED
    BY <1>5, <2>1, WriteLatchAssumption DEF ScanRemove, TypeOK, Entry
<1>6. CASE AddSlave(w)
  BY <1>6, WriteLatchAssumption DEF AddSlave, TypeOK, Entry
<1> QED
  BY Zenon, <1>1, <1>2, <1>3, <1>4, <1>5, <1>6, <1>7 DEF WorkerSteps

\* Snapshots keep their types.
LEMMA SaverTypes ==
  ASSUME Typed, NEW s \in Savers, Saved(s)
  PROVE  /\ stage' \in [Savers -> Preparing \cup {"idle", "backup", "started", "late"}]
         /\ offset' \in [Savers -> Nat] /\ cksm' \in [Savers -> Nat]
         /\ content' \in [Savers -> SUBSET Op]
<1> TypeOK
  BY Zenon DEF Typed
<1> USE DEF Stage, Preparing
<1>0. /\ stage \in [Savers -> Preparing \cup {"idle", "backup", "started", "late"}]
      /\ offset \in [Savers -> Nat] /\ cksm \in [Savers -> Nat]
      /\ content \in [Savers -> SUBSET Op] /\ Len(wal) \in Nat /\ db \in SUBSET Op
  BY SeqFacts DEF TypeOK
<1>1. CASE NewSnapshot(s)
  BY <1>0, <1>1 DEF NewSnapshot, Fresh
<1>2. CASE CloseWriteLatch(s) \/ NoCallers(s) \/ NoQueue(s)
  BY Zenon, <1>0, <1>2 DEF CloseWriteLatch, NoCallers, NoQueue
<1>6. CASE RecordOffset(s)
  BY <1>0, <1>6 DEF RecordOffset
<1>3. CASE \E b \in BOOLEAN : RecordCksm(s, b)
  BY <1>0, <1>3 DEF RecordCksm
<1>4. CASE CreateSnapshot(s) \/ OpenWriteLatchAfterSnapshotPrepare(s)
  BY Zenon, <1>0, <1>4 DEF CreateSnapshot, Take, OpenWriteLatchAfterSnapshotPrepare
<1>5. CASE Backup(s) \/ BackupOpen(s)
  BY Zenon, <1>0, <1>5 DEF Backup, Take, BackupOpen
<1> QED
  BY Zenon, <1>1, <1>2, <1>3, <1>4, <1>5, <1>6 DEF Saved, Save

\* The loop keeps the types of the queue and the log.
LEMMA LoopTypes ==
  ASSUME Typed, WriteWALCallback \/ Dequeued \/ Ping
  PROVE  /\ queue' \in Seq(Entry) /\ wal' \in Seq(Entry) /\ pings' \in 0 .. MaxPings
         /\ stage' \in [Savers -> Preparing \cup {"idle", "backup", "started", "late"}]
         /\ offset' \in [Savers -> Nat] /\ cksm' \in [Savers -> Nat]
         /\ content' \in [Savers -> SUBSET Op]
<1> TypeOK
  BY Zenon DEF Typed
<1> USE DEF work, latch, mailbox, snaps
<1>1. CASE WriteWALCallback
  <2>1. /\ queue # << >> /\ queue' = Tail(queue) /\ wal' = Append(wal, Head(queue))
        /\ UNCHANGED <<stage, offset, cksm, content, pings>>
    BY <1>1 DEF WriteWALCallback
  <2>2. queue \in Seq(Entry) /\ wal \in Seq(Entry)
    BY DEF TypeOK
  <2>3. queue' \in Seq(Entry) /\ wal' \in Seq(Entry)
    BY <2>1, <2>2
  <2> QED
    BY <2>1, <2>3 DEF TypeOK
<1>2. CASE Dequeued
  <2>1. queue' \in Seq(Entry)
    BY <1>2 DEF Dequeued, TypeOK
  <2>2. UNCHANGED <<wal, pings>>
    BY <1>2 DEF Dequeued
  <2>3. UNCHANGED snaps \/ Fresh(Loop)
    BY <1>2 DEF Dequeued
  <2>4. CASE UNCHANGED snaps
    BY <2>1, <2>2, <2>4 DEF TypeOK
  <2>5. CASE Fresh(Loop)
    <3>1. /\ stage \in [Savers -> Preparing \cup {"idle", "backup", "started", "late"}]
          /\ offset \in [Savers -> Nat] /\ cksm \in [Savers -> Nat]
          /\ content \in [Savers -> SUBSET Op]
      BY DEF TypeOK
    <3>2. /\ stage' \in [Savers -> Preparing \cup {"idle", "backup", "started", "late"}]
          /\ offset' \in [Savers -> Nat] /\ cksm' \in [Savers -> Nat]
          /\ content' \in [Savers -> SUBSET Op]
      BY Zenon, <2>5, <3>1 DEF Fresh, Stage, Preparing
    <3> QED
      BY <2>1, <2>2, <3>2 DEF TypeOK
  <2> QED
    BY <2>3, <2>4, <2>5
<1>3. CASE Ping
  <2>1. wal' \in Seq(Entry)
    BY <1>3, WriteLatchAssumption DEF Ping, TypeOK, Entry
  <2> QED
    BY <1>3, <2>1, WriteLatchAssumption DEF Ping, TypeOK
<1> QED
  BY <1>1, <1>2, <1>3

(* Every step keeps the shape of the state: the domains and ranges of the  *)
(* variables, whatever worker, saver or loop callback takes it.            *)
LEMMA ShapeStep ==
  ASSUME Typed, Placed, [Next]_vars
  PROVE  Shape'
<1> TypeOK /\ PlaceInv
  BY Zenon DEF Typed, Placed
<1> USE DEF work, latch, mailbox, snaps
<1>0. Shape
  BY Zenon DEF TypeOK, Shape
<1>1. ASSUME NEW w \in Workers, WorkerSteps(w) PROVE Shape'
  <2>1. UNCHANGED <<wal, stage, offset, cksm, content, pings>>
    BY <1>1, WorkerFrame
  <2> QED
    BY Zenon, <1>0, <1>1, <2>1, WorkerTypes DEF Shape
<1>2. ASSUME NEW s \in Savers, Saved(s) PROVE Shape'
  <2>1. UNCHANGED <<pc, op, kind, by, next, db, queue, signal, wal, slaves, pings>>
    BY <1>2, SavedFrame
  <2> QED
    BY Zenon, <1>0, <1>2, <2>1, SaverTypes DEF Shape
<1>3. ASSUME WriteWALCallback \/ Dequeued \/ Ping PROVE Shape'
  <2>1. UNCHANGED <<pc, op, kind, by, next, db, signal, slaves>>
    BY <1>3 DEF WriteWALCallback, Dequeued, Ping
  <2> QED
    BY Zenon, <1>0, <1>3, <2>1, LoopTypes DEF Shape
<1>4. ASSUME Turned PROVE Shape'
  <2>1. UNCHANGED <<pc, op, kind, by, next, db, queue, wal, stage, offset, cksm, content, slaves, pings>>
    BY <1>4 DEF Turned
  <2>2. signal' \in BOOLEAN
    BY Zenon, <1>0, <1>4 DEF Turned, Shape
  <2> QED
    BY Zenon, <1>0, <2>1, <2>2 DEF Shape
<1> QED
  BY Zenon, StepKinds, <1>1, <1>2, <1>3, <1>4
=============================================================================
