------------------------------ MODULE DBWriter ------------------------------
(***************************************************************************)
(* The queue and the worker threads that execute a slave's commands         *)
(* (DBWriter and DBWriterWorker, db/db_utils.cpp), as the replication       *)
(* thread uses them.                                                        *)
(*                                                                          *)
(* The replication thread puts a stream of commands and selects.            *)
(* A command is known by its place in the stream.  Its epoch is the number  *)
(* of selects before it: each select names a namespace of its own, so that  *)
(* the epoch a worker is in stands for the namespace of its context.        *)
(***************************************************************************)
EXTENDS Integers, Sequences

CONSTANTS
    N,          \* number of workers, more than one
    QueueLimit, \* max-slave-worker-queue
    MaxPuts,    \* bound: commands put
    MaxSelects  \* bound: selects put

ASSUME DBWriterAssumption ==
    /\ N \in Nat \ {0, 1} /\ QueueLimit \in Nat \ {0}
    /\ MaxPuts \in Nat /\ MaxSelects \in Nat

Workers == 1 .. N

VARIABLES
    queue,    \* m_queue
    puts,     \* the epochs of the commands put so far
    epoch,    \* selects put so far
    lpc,      \* what the replication thread does in Enqueue
    turn,     \* the worker a select has come to
    wpc,      \* what each worker does
    wcmd,     \* the command each worker has taken
    writing,  \* the flag of each worker
    ns,       \* the epoch of each worker's context
    done      \* the commands executed, with the epochs they were executed in

loop == <<puts, epoch, lpc, turn>>
writerVars == <<queue, puts, epoch, lpc, turn, wpc, wcmd, writing, ns, done>>

-----------------------------------------------------------------------------
(* The replication thread                                                  *)

\* Enqueue of a command: it waits while the queue is full.
Enqueue ==
    /\ lpc = "idle" /\ Len(puts) < MaxPuts
    /\ Len(queue) < QueueLimit
    /\ puts' = Append(puts, epoch)
    /\ queue' = Append(queue, Len(puts) + 1)
    /\ UNCHANGED <<epoch, lpc, turn, wpc, wcmd, writing, ns, done>>

\* Enqueue of a select begins to wait for the queue to run empty.
EnqueueSelect ==
    /\ lpc = "idle" /\ epoch < MaxSelects
    /\ epoch' = epoch + 1
    /\ lpc' = "drain"
    /\ UNCHANGED <<queue, puts, turn, wpc, wcmd, writing, ns, done>>

\* A bug: the first worker is left out.
SelectDrainedLate ==
    /\ lpc = "drain" /\ queue = << >>
    /\ lpc' = "check" /\ turn' = 2
    /\ UNCHANGED <<queue, puts, epoch, wpc, wcmd, writing, ns, done>>

SelectDrained ==
    /\ lpc = "drain" /\ queue = << >>
    /\ lpc' = "check" /\ turn' = 1
    /\ UNCHANGED <<queue, puts, epoch, wpc, wcmd, writing, ns, done>>

\* A worker that is not writing is about to be given the select ...
SelectCheck ==
    /\ lpc = "check" /\ ~writing[turn]
    /\ lpc' = "call"
    /\ UNCHANGED <<queue, puts, epoch, turn, wpc, wcmd, writing, ns, done>>

\* ... which is executed in this thread, in the worker's context; Call clears
\* the worker's flag at its end.
SelectCall ==
    /\ lpc = "call"
    /\ ns' = [ns EXCEPT ![turn] = epoch]
    /\ writing' = [writing EXCEPT ![turn] = FALSE]
    /\ lpc' = IF turn = N THEN "idle" ELSE "check"
    /\ turn' = IF turn = N THEN 0 ELSE turn + 1
    /\ UNCHANGED <<queue, puts, epoch, wpc, wcmd, done>>

-----------------------------------------------------------------------------
(* Workers                                                                 *)

\* A bug: the front of the queue is read and left there.
DequeuePeeks(w) ==
    /\ wpc[w] = "idle" /\ queue # << >>
    /\ wcmd' = [wcmd EXCEPT ![w] = Head(queue)]
    /\ queue' = IF Len(queue) = 1 THEN << >> ELSE queue
    /\ wpc' = [wpc EXCEPT ![w] = "taken"]
    /\ UNCHANGED <<loop, writing, ns, done>>

\* Dequeue, with the lock of the queue.
Dequeue(w) ==
    /\ wpc[w] = "idle" /\ queue # << >>
    /\ wcmd' = [wcmd EXCEPT ![w] = Head(queue)]
    /\ queue' = Tail(queue)
    /\ wpc' = [wpc EXCEPT ![w] = "taken"]
    /\ UNCHANGED <<loop, writing, ns, done>>

\* Call: the flag is set, ...
CallBegin(w) ==
    /\ wpc[w] = "taken"
    /\ writing' = [writing EXCEPT ![w] = TRUE]
    /\ wpc' = [wpc EXCEPT ![w] = "call"]
    /\ UNCHANGED <<queue, loop, wcmd, ns, done>>

\* ... the command is executed in the namespace of the worker's context, ...
CallRun(w) ==
    /\ wpc[w] = "call"
    /\ done' = Append(done, [at |-> wcmd[w], epoch |-> ns[w]])
    /\ wpc' = [wpc EXCEPT ![w] = "ran"]
    /\ UNCHANGED <<queue, loop, wcmd, writing, ns>>

\* A bug: a command that fails leaves the flag set.
CallEndLeaves(w) ==
    /\ wpc[w] = "ran"
    /\ wpc' = [wpc EXCEPT ![w] = "idle"]
    /\ wcmd' = [wcmd EXCEPT ![w] = 0]
    /\ UNCHANGED <<queue, loop, writing, ns, done>>

\* ... and the flag is cleared.
CallEnd(w) ==
    /\ wpc[w] = "ran"
    /\ writing' = [writing EXCEPT ![w] = FALSE]
    /\ wpc' = [wpc EXCEPT ![w] = "idle"]
    /\ wcmd' = [wcmd EXCEPT ![w] = 0]
    /\ UNCHANGED <<queue, loop, ns, done>>

-----------------------------------------------------------------------------
WriterInit ==
    /\ queue = << >> /\ puts = << >> /\ epoch = 0
    /\ lpc = "idle" /\ turn = 0
    /\ wpc = [w \in Workers |-> "idle"] /\ wcmd = [w \in Workers |-> 0]
    /\ writing = [w \in Workers |-> FALSE] /\ ns = [w \in Workers |-> 0]
    /\ done = << >>

Select == SelectDrained \/ SelectCheck \/ SelectCall
Worker(w) == Dequeue(w) \/ CallBegin(w) \/ CallRun(w) \/ CallEnd(w)

WriterNext ==
    \/ Enqueue
    \/ EnqueueSelect
    \/ Select
    \/ \E w \in Workers : Worker(w)

WriterSpec == WriterInit /\ [][WriterNext]_writerVars

\* The replication thread and the workers are threads of their own; Wait(1)
\* wakes up every millisecond whether it was notified or not.
WriterFairSpec ==
    WriterSpec /\ WF_writerVars(Select) /\ \A w \in Workers : WF_writerVars(Worker(w))

-----------------------------------------------------------------------------
(* Properties                                                              *)

WriterTypeOK ==
    /\ queue \in Seq(DOMAIN puts) /\ Len(queue) <= QueueLimit
    /\ puts \in Seq(0 .. epoch)
    /\ epoch \in 0 .. MaxSelects
    /\ lpc \in {"idle", "drain", "check", "call"} /\ turn \in 0 .. N
    /\ wpc \in [Workers -> {"idle", "taken", "call", "ran"}]
    /\ wcmd \in [Workers -> 0 .. Len(puts)]
    /\ writing \in [Workers -> BOOLEAN]
    /\ ns \in [Workers -> 0 .. epoch]
    /\ done \in Seq([at : DOMAIN puts, epoch : 0 .. epoch])

\* Workers with a command they have not executed yet.
Held == {w \in Workers : wpc[w] \in {"taken", "call"}}

\* The places where the i-th command put is.
Whereabouts(i) ==
    {<<"queue", j>> : j \in {x \in DOMAIN queue : queue[x] = i}}
      \cup {<<"worker", w>> : w \in {x \in Held : wcmd[x] = i}}
      \cup {<<"done", j>> : j \in {x \in DOMAIN done : done[x].at = i}}

\* Every command put is in one place: queued, with one worker that has not
\* executed it yet, or executed, once (Enqueue, Dequeue).
EachOnce == \A i \in DOMAIN puts : \E p \in Whereabouts(i) : Whereabouts(i) = {p}

\* No command is executed in a namespace that an earlier select chose: a worker
\* has been given every select before it takes a command put behind it
\* (the loop over m_workers in Enqueue).
NeverStaleNamespace ==
    \A j \in DOMAIN done : done[j].epoch >= puts[done[j].at]

\* Every command is executed in the namespace of the select before it; a select
\* waits for the commands before it (the while loops in Enqueue).
OwnNamespace ==
    \A j \in DOMAIN done : done[j].epoch = puts[done[j].at]

\* The replication thread gets out of the wait for the queue and for the workers'
\* flags (the while loops in Enqueue).
SelectReturns == lpc # "idle" ~> lpc = "idle"

\* Every command put is executed, whatever selects come behind it (Dequeue, Call).
EveryPutRuns ==
    \A i \in 1 .. MaxPuts :
        Len(puts) >= i ~> \E j \in DOMAIN done : done[j].at = i

\* The workers and the replication thread do not hold each other up for ever: a
\* select gets its turn and so does every command (Enqueue, Dequeue, Call).
WorkersLive == SelectReturns /\ EveryPutRuns
=============================================================================
