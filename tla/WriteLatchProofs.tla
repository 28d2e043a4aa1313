-------------------------- MODULE WriteLatchProofs --------------------------
(* Every write command is executed exactly once by a slave that loads a     *)
(* snapshot and follows the log from its offset, for any number of threads, *)
(* snapshots and slaves.                                                    *)
EXTENDS WriteLatchPlace, FiniteSetTheorems

-----------------------------------------------------------------------------
(* The counters of the write latch and of the queue count what they are said *)
(* to.                                                                       *)

\* Counting one more and one less.
LEMMA CountOne ==
  ASSUME NEW S, IsFiniteSet(S)
  PROVE  /\ Cardinality(S) \in Nat
         /\ Cardinality(S) = 0 <=> S = {}
         /\ \A x : x \notin S => Cardinality(S \cup {x}) = Cardinality(S) + 1
         /\ \A x : x \in S => Cardinality(S \ {x}) = Cardinality(S) - 1
<1>1. ASSUME NEW x, x \notin S PROVE Cardinality(S \cup {x}) = Cardinality(S) + 1
  BY <1>1, FS_AddElement
<1>2. ASSUME NEW x, x \in S PROVE Cardinality(S \ {x}) = Cardinality(S) - 1
  BY <1>2, FS_RemoveElement
<1> QED
  BY <1>1, <1>2, FS_CardinalityType, FS_EmptySet

\* The sets the counters count are finite.
LEMMA Finite ==
  /\ \A S \in SUBSET Workers : IsFiniteSet(S)
  /\ \A S \in SUBSET Savers : IsFiniteSet(S)
  /\ \A S \in SUBSET Entry : IsFiniteSet(S)
<1>1. IsFiniteSet(Savers)
  BY WriteLatchAssumption, FS_AddElement, FS_Singleton, FS_Union DEF Savers
<1>2. IsFiniteSet(Entry)
  BY WriteLatchAssumption, FS_Interval DEF Entry
<1> QED
  BY Zenon, <1>1, <1>2, WriteLatchAssumption, FS_Subset

(* The sets the counters of the latch count are finite in every state.     *)
LEMMA FiniteNow ==
  ASSUME Typed
  PROVE  /\ IsFiniteSet(Inside) /\ IsFiniteSet(Closed)
         /\ IsFiniteSet(Pushing) /\ IsFiniteSet(Queued)
<1> TypeOK
  BY Zenon DEF Typed
<1>1. Inside \in SUBSET Workers /\ Pushing \in SUBSET Workers /\ Closed \in SUBSET Savers
  BY DEF Inside, Pushing, Closed
<1>2. Queued \in SUBSET Entry
  BY DEF Queued, TypeOK
<1> QED
  BY Zenon, <1>1, <1>2, Finite

\* How m_write_caller_num moves with the threads inside the latch.
CallersEffect ==
    \/ callers' = callers /\ Inside' = Inside
    \/ callers' = callers + 1 /\ prepare = 0 /\ \E w \in Workers \ Inside : Inside' = Inside \cup {w}
    \/ callers' = callers - 1 /\ \E w \in Inside : Inside' = Inside \ {w}

(* A worker that moves on changes the set of callers by at most itself.    *)
LEMMA CallersMove ==
  ASSUME Typed, Placed, [Next]_vars
  PROVE  CallersEffect
<1> TypeOK /\ PlaceInv
  BY Zenon DEF Typed, Placed
<1> USE DEF work, latch, mailbox, snaps
<1>0. /\ DOMAIN pc = Workers /\ DOMAIN op = Workers /\ DOMAIN kind = Entry
      /\ \A v \in Workers : op[v] \in Entry /\ op[v] # next
  BY DEF TypeOK, PlaceInv, Entry
<1>1. ASSUME NEW w \in Workers, NEW k \in MadeKind, Made(w, k) PROVE CallersEffect
  <2>1. /\ callers' = callers /\ pc' = [pc EXCEPT ![w] = "feed"] /\ op' = [op EXCEPT ![w] = next]
        /\ kind' = [kind EXCEPT ![next] = k] /\ pc[w] \in {"idle", "run", "wake"}
        /\ (k \in Latched <=> pc[w] = "run") /\ next \in Entry
    BY <1>1 DEF Made, NewOp, Goto, TypeOK, Entry
  <2>2. \A v \in Workers : v # w => pc'[v] = pc[v] /\ kind'[op'[v]] = kind[op[v]]
    BY <1>0, <2>1
  <2>3. pc'[w] = "feed" /\ kind'[op'[w]] = k
    BY <1>0, <2>1
  <2>4. \A v \in Workers : InLatch(v)' <=> InLatch(v)
    BY <2>1, <2>2, <2>3 DEF InLatch
  <2> QED
    BY <2>1, <2>4 DEF Inside, CallersEffect
<1>2. ASSUME NEW w \in Workers, Moved(w) PROVE CallersEffect
  <2>1. PICK step \in Outside \cup {"run", "close"} :
          /\ pc' = [pc EXCEPT ![w] = step]
          /\ \/ callers' = callers /\ (pc[w] \in Outside <=> step \in Outside)
             \/ callers' = callers + 1 /\ prepare = 0 /\ pc[w] \in Outside /\ step \notin Outside
             \/ callers' = callers - 1 /\ pc[w] \notin Outside /\ step \in Outside
    BY Zenon, <1>2 DEF Moved, Goto
  <2>2. pc[w] \in Outside \cup {"run", "close"} /\ UNCHANGED <<op, kind>>
    BY <1>2 DEF Moved
  <2>3. pc'[w] = step /\ \A v \in Workers : v # w => pc'[v] = pc[v]
    BY <1>0, <2>1
  <2>4. /\ InLatch(w) <=> pc[w] \notin Outside
        /\ InLatch(w)' <=> step \notin Outside
        /\ \A v \in Workers : v # w => (InLatch(v)' <=> InLatch(v))
    BY <2>2, <2>3 DEF InLatch, Outside
  <2>5. CASE pc[w] \in Outside <=> step \in Outside
    <3>1. Inside' = Inside
      BY <2>4, <2>5 DEF Inside
    <3> QED
      BY <2>1, <2>5, <3>1 DEF CallersEffect
  <2>6. CASE pc[w] \in Outside /\ step \notin Outside
    <3>1. Inside' = Inside \cup {w} /\ w \in Workers \ Inside
      BY <2>4, <2>6 DEF Inside
    <3> QED
      BY <2>1, <2>6, <3>1 DEF CallersEffect
  <2>7. CASE pc[w] \notin Outside /\ step \in Outside
    <3>1. Inside' = Inside \ {w} /\ w \in Inside
      BY <2>4, <2>7 DEF Inside
    <3> QED
      BY <2>1, <2>7, <3>1 DEF CallersEffect
  <2> QED
    BY <2>5, <2>6, <2>7
<1>3. ASSUME NEW w \in Workers, WriteWAL(w) \/ AsyncIO(w) PROVE CallersEffect
  <2>1. \A v \in Workers : InLatch(v)' <=> InLatch(v)
    BY <1>0, <1>3 DEF WriteWAL, AsyncIO, Goto, InLatch
  <2> QED
    BY <1>3, <2>1 DEF WriteWAL, AsyncIO, Inside, CallersEffect
<1>4. ASSUME NEW w \in Workers, FireSoftSignal(w) PROVE CallersEffect
  <2>1. \A v \in Workers : InLatch(v)' <=> InLatch(v)
    BY <1>0, <1>4 DEF FireSoftSignal, AfterFeed, Goto, InLatch, Latched
  <2> QED
    BY <1>4, <2>1 DEF FireSoftSignal, Inside, CallersEffect
<1>5. ASSUME NEW w \in Workers, ScanRemove(w) \/ AddSlave(w) PROVE CallersEffect
  <2>1. \A v \in Workers : InLatch(v)' <=> InLatch(v)
    BY <1>0, <1>5 DEF ScanRemove, AddSlave, Goto, InLatch, Latched, PlaceInv
  <2> QED
    BY <1>5, <2>1 DEF ScanRemove, AddSlave, Inside, CallersEffect
<1>6. ASSUME UNCHANGED <<pc, op, kind, callers>> PROVE CallersEffect
  BY <1>6 DEF Inside, InLatch, CallersEffect
<1>7. WriteWALCallback \/ Dequeued \/ Turned \/ Ping \/ (\E s \in Savers : Saved(s))
        => UNCHANGED <<pc, op, kind, callers>>
  BY Zenon, SavedFrame DEF WriteWALCallback, Dequeued, Turned, Ping
<1> QED
  BY ZenonT(30), StepKinds, <1>1, <1>2, <1>3, <1>4, <1>5, <1>6, <1>7 DEF WorkerSteps

\* m_write_caller_num is the number of threads inside the latch.
LEMMA CallersStep ==
  ASSUME Typed, Placed, callers = Cardinality(Inside), [Next]_vars
  PROVE  callers' = Cardinality(Inside')
<1> TypeOK /\ PlaceInv
  BY Zenon DEF Typed, Placed
<1>1. IsFiniteSet(Inside)
  BY FiniteNow
<1> QED
  BY <1>1, CallersMove, CountOne DEF CallersEffect

\* m_prepare_snapshot_num is the number of snapshots that keep the latch closed.
LEMMA PrepareStep ==
  ASSUME Typed, prepare = Cardinality(Closed), [Next]_vars
  PROVE  prepare' = Cardinality(Closed')
<1> TypeOK
  BY Zenon DEF Typed
<1> USE DEF work, latch, mailbox, snaps
<1>0. IsFiniteSet(Closed)
  BY FiniteNow
<1>1. ASSUME NEW s \in Savers, StageStep(s), \A t \in Savers : t # s => stage'[t] = stage[t]
      PROVE  prepare' = Cardinality(Closed')
  <2>1. CASE stage[s] = "close"
    <3>1. prepare' = prepare + 1 /\ stage'[s] = "callers"
      BY <1>1, <2>1 DEF StageStep
    <3>2. Closed' = Closed \cup {s} /\ s \notin Closed
      BY <1>1, <2>1, <3>1 DEF Closed, Drained
    <3> QED
      BY <1>0, <3>1, <3>2, CountOne
  <2>2. CASE stage[s] \in {"open", "started"} \/ (stage[s] = "backup" /\ stage'[s] = "late")
    <3>1. prepare' = prepare - 1 /\ stage'[s] \in {"idle", "late"}
      BY <1>1, <2>2 DEF StageStep
    <3>2. Closed' = Closed \ {s} /\ s \in Closed
      BY <1>1, <2>2, <3>1 DEF Closed, Drained
    <3> QED
      BY SMTT(30), <1>0, <3>1, <3>2, CountOne
  <2>3. CASE ~(stage[s] = "close" \/ stage[s] \in {"open", "started"}
               \/ (stage[s] = "backup" /\ stage'[s] = "late"))
    <3>1. prepare' = prepare
      BY <1>1, <2>3 DEF StageStep
    <3>2. stage'[s] \in Drained \cup {"callers", "queue"} <=> stage[s] \in Drained \cup {"callers", "queue"}
      BY <1>1, <2>3 DEF StageStep, Drained
    <3>3. Closed' = Closed
      BY <1>1, <3>2 DEF Closed
    <3> QED
      BY <3>1, <3>3
  <2> QED
    BY <2>1, <2>2, <2>3
<1>2. ASSUME NEW s \in Savers, Saved(s) PROVE prepare' = Cardinality(Closed')
  BY <1>1, <1>2, SavedStage, SavedOther
<1>3. ASSUME Dequeued PROVE prepare' = Cardinality(Closed')
  <2>1. CASE stage' = stage
    BY <1>3, <2>1 DEF Dequeued, Closed
  <2>2. CASE stage[Loop] = "idle" /\ Fresh(Loop)
    <3>1. \A t \in Savers : stage'[t] = stage[t] \/ (stage[t] = "idle" /\ stage'[t] = "close")
      BY <2>2 DEF Fresh, Stage, TypeOK
    <3>2. Closed' = Closed
      BY <3>1 DEF Closed, Drained
    <3> QED
      BY <1>3, <3>2 DEF Dequeued
  <2> QED
    BY <1>3, <2>1, <2>2 DEF Dequeued
<1>4. ASSUME UNCHANGED <<prepare, stage>> PROVE prepare' = Cardinality(Closed')
  BY <1>4 DEF Closed
<1>5. (\E w \in Workers : WorkerSteps(w)) \/ WriteWALCallback \/ Turned \/ Ping => UNCHANGED <<prepare, stage>>
  BY Zenon, WorkerFrame DEF WriteWALCallback, Turned, Ping
<1> QED
  BY Zenon, StepKinds, <1>2, <1>3, <1>4, <1>5

\* m_wal_queue_size is the number of commands on their way to the log.
LEMMA QsizeStep ==
  ASSUME Typed, Placed, Looped, [Next]_vars,
         qsize = Cardinality(Pushing) + Cardinality(Queued) + Appended
  PROVE  qsize' = Cardinality(Pushing') + Cardinality(Queued') + Appended'
<1> TypeOK /\ PlaceInv /\ LoopInv
  BY Zenon DEF Typed, Placed, Looped
<1> USE DEF work, latch, mailbox, snaps
<1> DEFINE SizeRight == qsize' = Cardinality(Pushing') + Cardinality(Queued') + Appended'
<1>0. /\ IsFiniteSet(Pushing) /\ IsFiniteSet(Queued) /\ DOMAIN pc = Workers
      /\ Cardinality(Pushing) \in Nat /\ Cardinality(Queued) \in Nat /\ Appended \in Nat
  BY FiniteNow, CountOne DEF TypeOK, Appended
<1>1. ASSUME UNCHANGED qsize, Pushing' = Pushing, Queued' = Queued, lpc' = "sub" <=> lpc = "sub"
      PROVE  SizeRight
  BY <1>1 DEF Appended
<1>2. ASSUME NEW w \in Workers, Moved(w) PROVE UNCHANGED <<qsize, lpc, queue>> /\ Pushing' = Pushing
  BY <1>0, <1>2 DEF Moved, Outside, Goto, Pushing
<1>3. ASSUME NEW w \in Workers, FireSoftSignal(w) \/ ScanRemove(w)
      PROVE  UNCHANGED <<qsize, lpc, queue>> /\ Pushing' = Pushing
  BY <1>0, <1>3 DEF FireSoftSignal, AfterFeed, ScanRemove, Goto, Pushing
<1>13. ASSUME NEW w \in Workers, NEW k \in MadeKind, Made(w, k)
       PROVE  UNCHANGED <<qsize, lpc, queue>> /\ Pushing' = Pushing
  BY <1>0, <1>13 DEF Made, NewOp, Goto, Pushing
<1>14. UNCHANGED queue => Queued' = Queued
  BY DEF Queued
<1>4. ASSUME NEW w \in Workers, AddSlave(w) PROVE SizeRight
  <2>1. queue' = Append(queue, 0) /\ 0 \in Entry
    BY <1>4, WriteLatchAssumption DEF AddSlave, Entry
  <2>2. Queued' = Queued
    BY Zenon, <2>1, QueuedAppend
  <2>3. UNCHANGED <<qsize, lpc>> /\ Pushing' = Pushing
    BY <1>0, <1>4 DEF AddSlave, Goto, Pushing
  <2> QED
    BY <1>1, <2>2, <2>3
<1>5. ASSUME NEW w \in Workers, WriteWAL(w) PROVE SizeRight
  <2>1. Pushing' = Pushing \cup {w} /\ w \notin Pushing
    BY <1>0, <1>5 DEF WriteWAL, Goto, Pushing
  <2>2. Cardinality(Pushing') = Cardinality(Pushing) + 1
    BY <1>0, <2>1, CountOne
  <2>3. qsize' = qsize + 1 /\ Queued' = Queued /\ Appended' = Appended
    BY <1>5 DEF WriteWAL, Queued, Appended
  <2> QED
    BY <2>2, <2>3, <1>0
<1>6. ASSUME NEW w \in Workers, AsyncIO(w) PROVE SizeRight
  <2>1. Pushing' = Pushing \ {w} /\ w \in Pushing
    BY <1>0, <1>6 DEF AsyncIO, Goto, Pushing
  <2>2. Cardinality(Pushing') = Cardinality(Pushing) - 1
    BY SMTT(30), <1>0, <2>1, CountOne
  <2>3. op[w] \in Entry /\ op[w] # 0 /\ op[w] \notin Queued
    BY <1>6 DEF AsyncIO, TypeOK, PlaceInv, Holding
  <2>4. Queued' = Queued \cup {op[w]}
    BY <1>6, <2>3, QueuedAppend DEF AsyncIO
  <2>5. Cardinality(Queued') = Cardinality(Queued) + 1
    BY <1>0, <2>3, <2>4, CountOne
  <2>6. qsize' = qsize /\ Appended' = Appended
    BY <1>6 DEF AsyncIO, Appended
  <2> QED
    BY <2>2, <2>5, <2>6, <1>0
<1>7. ASSUME WriteWALCallback PROVE SizeRight
  <2>1. Queued' = Queued \ {Head(queue)} /\ Head(queue) \in Queued
    BY <1>7, QueuedTail DEF WriteWALCallback
  <2>2. Cardinality(Queued') = Cardinality(Queued) - 1
    BY <1>0, <2>1, CountOne
  <2>3. qsize' = qsize /\ Pushing' = Pushing /\ Appended = 0 /\ Appended' = 1
    BY <1>7 DEF WriteWALCallback, Pushing, Appended
  <2> QED
    BY <2>2, <2>3, <1>0
<1>8. ASSUME Turned PROVE SizeRight
  <2>1. Pushing' = Pushing /\ Queued' = Queued
    BY <1>8 DEF Turned, Pushing, Queued
  <2>2. CASE qsize' = qsize - 1 /\ lpc = "sub" /\ lpc' # "sub"
    <3>1. Appended = 1 /\ Appended' = 0
      BY <2>2 DEF Appended
    <3> QED
      BY <1>0, <2>1, <2>2, <3>1
  <2> QED
    BY <1>1, <1>8, <2>1, <2>2 DEF Turned
<1>9. ASSUME Dequeued PROVE SizeRight
  <2>1. Queued' = Queued
    BY Zenon, <1>9, QueuedTail DEF Dequeued, Queued
  <2>2. UNCHANGED <<qsize, pc>> /\ lpc # "sub" /\ lpc' # "sub"
    BY <1>9 DEF Dequeued
  <2> QED
    BY <1>1, <2>1, <2>2 DEF Pushing
<1>10. ASSUME Ping PROVE SizeRight
  BY <1>1, <1>10 DEF Ping, Pushing, Queued
<1>11. ASSUME NEW s \in Savers, Saved(s) PROVE SizeRight
  <2>1. UNCHANGED <<qsize, pc, queue>>
    BY SMTT(30), <1>11, SavedFrame
  <2>2. lpc' = "sub" <=> lpc = "sub"
    BY <1>11, SavedLoop, SavedStage DEF StageStep, LoopInv, Preparing
  <2> QED
    BY <1>1, <2>1, <2>2 DEF Pushing, Queued
<1>12. ASSUME NEW w \in Workers, WorkerSteps(w) PROVE SizeRight
  BY ZenonT(30), <1>1, <1>2, <1>3, <1>4, <1>5, <1>6, <1>12, <1>13, <1>14 DEF WorkerSteps
<1> QED
  BY ZenonT(30), StepKinds, <1>7, <1>8, <1>9, <1>10, <1>11, <1>12

\* The counters of OpenWriteLatchByWriteCaller, CloseWriteLatchBeforeSnapshotPrepare
\* and WriteWAL count what they are meant to.
LEMMA CountStep ==
  ASSUME Typed, Looped, Counted, Placed, [Next]_vars
  PROVE  CountInv'
<1> TypeOK /\ PlaceInv /\ CountInv /\ LoopInv
  BY Zenon DEF Typed, Placed, Counted, Looped
<1> QED
  BY CallersStep, PrepareStep, QsizeStep DEF CountInv

-----------------------------------------------------------------------------

\* Every step keeps the types; that no counter runs below zero follows from what
\* it counts.
LEMMA TypeStep ==
  ASSUME Typed, Looped, Counted, Placed, [Next]_vars
  PROVE  TypeOK'
<1> TypeOK /\ PlaceInv /\ CountInv /\ LoopInv
  BY Zenon DEF Typed, Placed, Counted, Looped
<1>1. Shape'
  BY ShapeStep
<1>2. lpc' \in {"idle", "drain", "sub", "prep", "stuck"}
  BY LoopInvStep
<1>3. CountInv'
  BY CountStep
<1>4. /\ IsFiniteSet(Inside') /\ IsFiniteSet(Closed')
      /\ IsFiniteSet(Pushing') /\ IsFiniteSet(Queued')
  <2>1. Inside' \in SUBSET Workers /\ Pushing' \in SUBSET Workers /\ Closed' \in SUBSET Savers
    BY DEF Inside, Pushing, Closed
  <2>2. queue' \in Seq(Entry)
    BY <1>1 DEF Shape
  <2>3. Queued' \in SUBSET Entry
    BY <2>2 DEF Queued
  <2> QED
    BY Zenon, <2>1, <2>3, Finite
<1>5. callers' \in Nat /\ prepare' \in Nat /\ qsize' \in Nat
  <2>1. Appended' \in Nat
    BY DEF Appended
  <2> QED
    BY <1>3, <1>4, <2>1, CountOne DEF CountInv
<1> QED
  BY Zenon, <1>1, <1>2, <1>5 DEF TypeOK, Shape

\* With no write command under way and the latch closed, none gets under way.
LEMMA InsideStep ==
  ASSUME Typed, Counted, Placed, [Next]_vars, Inside = {}, Closed # {}
  PROVE  Inside' = {}
<1> TypeOK /\ PlaceInv /\ CountInv
  BY Zenon DEF Typed, Placed, Counted
<1>1. prepare # 0
  BY FiniteNow, CountOne DEF CountInv
<1> QED
  BY <1>1, CallersMove DEF CallersEffect

\* While a snapshot waits for the queue or is being taken, no write command is
\* under way.
LEMMA QuietInside ==
  ASSUME Typed, Counted, Placed, Quieted, [Next]_vars, NEW t \in Savers,
         stage'[t] \in Drained \cup {"queue"}
  PROVE  Inside' = {}
<1> TypeOK /\ PlaceInv /\ QuietInv /\ CountInv
  BY Zenon DEF Typed, Placed, Quieted, Counted
<1>1. CASE stage[t] \in Drained \cup {"queue"}
  BY <1>1, InsideStep DEF QuietInv, Closed
<1>2. CASE stage[t] \notin Drained \cup {"queue"}
  <2>1. stage[t] = "callers" /\ callers = 0
    BY <1>2, StageEffect DEF StageStep, Drained
  <2>2. Inside = {}
    BY Zenon, <2>1, FiniteNow, CountOne DEF CountInv
  <2> QED
    BY <2>1, <2>2, InsideStep DEF Closed
<1> QED
  BY <1>1, <1>2

\* While a snapshot keeps the latch closed, the log and the data set stay in step.
LEMMA QuietStep ==
  ASSUME Typed, Counted, Placed, Quieted, Snapped, [Next]_vars
  PROVE  QuietInv'
<1> TypeOK /\ PlaceInv /\ QuietInv /\ SnapInv /\ CountInv
  BY Zenon DEF Typed, Placed, Quieted, Snapped, Counted
<1>1. qsize = 0 => Queued = {}
  BY FiniteNow, CountOne DEF CountInv, Appended
<1> QED
  BY <1>1, QuietInside, QuietQueue, QuietLog DEF QuietInv

\* What holds at the start.
LEMMA InitInv ==
  ASSUME Init
  PROVE  /\ TypeOK /\ LoopInv /\ CountInv /\ PlaceInv
         /\ WayInv /\ QuietInv /\ SnapInv /\ ExactlyOnce
<1> USE WriteLatchAssumption DEF Init, Op, Entry
<1>1. TypeOK
  <2>1. queue \in Seq(Entry) /\ wal \in Seq(Entry)
    OBVIOUS
  <2>2. /\ op \in [Workers -> Entry] /\ by \in [Entry -> Workers \cup {Loop}]
        /\ kind \in [Entry -> {"none", "cmd", "exp", "pop", "del", "scan"}]
        /\ next \in 1 .. MaxOps + 1 /\ db \subseteq Op
        /\ slaves \in 0 .. MaxSlaves /\ pings \in 0 .. MaxPings
    OBVIOUS
  <2>3. /\ offset \in [Savers -> Nat] /\ cksm \in [Savers -> Nat]
        /\ content \in [Savers -> SUBSET Op]
    OBVIOUS
  <2> QED
    BY ZenonT(60), <2>1, <2>2, <2>3 DEF TypeOK
<1>2. Inside = {} /\ Closed = {} /\ Pushing = {} /\ Queued = {}
  BY DEF Inside, InLatch, Closed, Drained, Pushing, Queued
<1>3. CountInv
  BY <1>2, FS_EmptySet DEF CountInv, Appended
<1>4. Logged(0) = {} /\ Len(wal) = 0
  BY DEF Logged
<1>5. LoopInv
  BY DEF LoopInv, Preparing, Savers
<1>6. PlaceInv
  BY <1>2, <1>4 DEF PlaceInv, Holding
<1>7. WayInv
  BY DEF WayInv, Latched
<1>8. QuietInv /\ SnapInv
  BY <1>4 DEF QuietInv, SnapInv, Drained
<1>9. ExactlyOnce
  BY <1>4 DEF ExactlyOnce, Exact
<1> QED
  BY ZenonT(30), <1>1, <1>3, <1>5, <1>6, <1>7, <1>8, <1>9

\* Steps keep the types, the loop, the counters and the places.
LEMMA PlainStep ==
  ASSUME TypeOK, LoopInv, CountInv, PlaceInv, [Next]_vars
  PROVE  TypeOK' /\ LoopInv' /\ CountInv' /\ PlaceInv'
<1>1. Typed /\ Looped /\ Counted /\ Placed
  BY Zenon DEF Typed, Looped, Counted, Placed
<1> QED
  BY Zenon, <1>1, TypeStep, LoopInvStep, CountStep, PlaceStep

\* Every thread stays at one of its steps, and no counter of the latch or of the
\* queue ever runs below zero, whatever the threads, snapshots and slaves.
THEOREM LatchTypeCorrect == Spec => []TypeOK
<1> DEFINE Inv == TypeOK /\ LoopInv /\ CountInv /\ PlaceInv
<1>1. Init => Inv
  BY InitInv
<1>2. Inv /\ [Next]_vars => Inv'
  BY Zenon, PlainStep
<1> QED
  BY <1>1, <1>2, PTL DEF Spec

\* For a backup that starts within BackupSave's second: a slave that loads a
\* snapshot and follows the log from its offset executes every write command
\* exactly once.
THEOREM ExactlyOnceCorrect == ASSUME BackupStartsInTime PROVE Spec => []ExactlyOnce
<1> DEFINE Inv == /\ TypeOK /\ LoopInv /\ CountInv /\ PlaceInv
                  /\ WayInv /\ QuietInv /\ SnapInv /\ ExactlyOnce
<1>1. Init => Inv
  BY InitInv
<1>2. Inv /\ [Next]_vars => Inv'
  <2> SUFFICES ASSUME Inv, [Next]_vars PROVE Inv'
    OBVIOUS
  <2>1. TypeOK' /\ LoopInv' /\ CountInv' /\ PlaceInv'
    BY Zenon, PlainStep
  <2>0. Typed /\ Counted /\ Placed /\ Carried /\ Quieted /\ Snapped
    BY Zenon DEF Typed, Counted, Placed, Carried, Quieted, Snapped
  <2>2. WayInv' /\ QuietInv' /\ SnapInv'
    BY Zenon, <2>0, WayStep, QuietStep, SnapStep
  <2>3. ExactlyOnce'
    BY <2>0, ExactStep DEF ExactlyOnce
  <2> QED
    BY Zenon, <2>1, <2>2, <2>3
<1> QED
  BY <1>1, <1>2, PTL DEF Spec
=============================================================================
