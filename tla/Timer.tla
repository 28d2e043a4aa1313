-------------------------------- MODULE Timer --------------------------------
(* The timer of an event loop (common/channel/timer/): a binary heap of      *)
(* tasks ordered by their next trigger time, a table of the tasks that are   *)
(* alive, and the one time event of the loop (redis/ae.c) that is armed for  *)
(* the nearest task.  A task run by Routine may schedule and cancel tasks.   *)
EXTENDS Integers, Sequences

CONSTANTS Tasks,      \* the timer tasks a run may create
          Delays,     \* delays, in the unit of the call
          Periods,    \* periods; 0 for a task that runs once (the code's -1)
          Kilo,       \* milliseconds in a second, microseconds in a millisecond
          Horizon     \* bound on the clock

VARIABLES now,        \* the clock, in milliseconds
          m_queue,    \* the heap, an array from index 1
          task,       \* m_task_table, for the tasks that are alive
          event,      \* the loop's time event, when it is due; NoEvent when m_timer_id is -1
          unit,       \* the unit of the delay the event was last armed with
          running     \* the task Routine is running; Resting outside Routine, Loop between tasks

timerVars == <<now, m_queue, task, event, unit, running>>

NoEvent == -1
Resting == "idle"
Loop == "loop"
NoTask == [state |-> "none", next |-> 0, period |-> 0]
Known(t) == task[t].state # "none"

\* A delay in milliseconds, rounded to the nearest.
millistime(d, u) ==
  CASE u = "MICROS"  -> d \div Kilo + (IF 2 * (d % Kilo) >= Kilo THEN 1 ELSE 0)
    [] u = "MILLIS"  -> d
    [] u = "SECONDS" -> d * Kilo

Swap(q, j, k) == [q EXCEPT ![j] = q[k], ![k] = q[j]]

RECURSIVE FixUp(_, _, _)
FixUp(q, k, tk) ==
  IF k > 1 /\ tk[q[k \div 2]].next > tk[q[k]].next
  THEN FixUp(Swap(q, k \div 2, k), k \div 2, tk)
  ELSE q

\* Mutant: the right child is looked at only when it is not the last.
ChildShort(q, k, tk) ==
  IF 2 * k + 1 < Len(q) /\ tk[q[2 * k]].next > tk[q[2 * k + 1]].next
  THEN 2 * k + 1 ELSE 2 * k

\* The smaller child of k; its right child only when there is one.
Child(q, k, tk) ==
  IF 2 * k < Len(q) /\ tk[q[2 * k]].next > tk[q[2 * k + 1]].next
  THEN 2 * k + 1 ELSE 2 * k

RECURSIVE FixDown(_, _, _)
FixDown(q, k, tk) ==
  IF 2 * k <= Len(q) /\ tk[q[k]].next > tk[q[Child(q, k, tk)]].next
  THEN FixDown(Swap(q, k, Child(q, k, tk)), Child(q, k, tk), tk)
  ELSE q

Add(q, t, tk) == FixUp(Append(q, t), Len(q) + 1, tk)

RemoveMin(q, tk) ==
  FixDown(SubSeq([q EXCEPT ![1] = q[Len(q)]], 1, Len(q) - 1), 1, tk)

GetMin == m_queue[1]

TimerInit ==
  /\ now = 0
  /\ m_queue = <<>>
  /\ task = [t \in Tasks |-> NoTask]
  /\ event = NoEvent
  /\ unit = "MILLIS"
  /\ running = Resting

\* TimerChannel::OnScheduled, before the task enters the heap.  The event is
\* armed with the task's delay as the caller gave it, whatever its unit.
OnScheduled(d, u, next) ==
  LET nextTime == IF m_queue = <<>> THEN -1 ELSE task[GetMin].next IN
  IF (nextTime < 0 \/ nextTime > next) /\ (event = NoEvent \/ nextTime > 0)
  THEN event' = now + d /\ unit' = u
  ELSE UNCHANGED <<event, unit>>

\* Timer::DoSchedule, by the thread of the loop: outside Routine, or called
\* by the task Routine is running.  The new task's id is the next unused one.
Schedule(d, period, u) ==
  LET t    == CHOOSE x \in Tasks : ~Known(x)
      next == now + millistime(d, u)
      tk   == [task EXCEPT ![t] = [state |-> "SCHEDULED", next |-> next,
                                   period |-> IF period = 0 THEN 0 ELSE millistime(period, u)]]
  IN /\ running # Loop
     /\ \E x \in Tasks : ~Known(x)
     /\ next <= Horizon
     /\ OnScheduled(d, u, next)
     /\ m_queue' = Add(m_queue, t, tk)
     /\ task' = tk
     /\ UNCHANGED <<now, running>>

Cancel(t) ==
  /\ running # Loop
  /\ Known(t)
  /\ task' = [task EXCEPT ![t].state = "CANCELLED"]
  /\ UNCHANGED <<now, m_queue, event, unit, running>>

\* processTimeEvents finds the event due and calls TimeoutCB.
TimeoutCB ==
  /\ running = Resting
  /\ event # NoEvent /\ event <= now
  /\ running' = Loop
  /\ UNCHANGED <<now, m_queue, task, event, unit>>

\* Routine finds the nearest task in the future, or no task: TimeoutCB
\* returns the time left, or deletes the event.
RoutineEnd ==
  /\ running = Loop
  /\ IF m_queue = <<>>
     THEN event' = NoEvent
     ELSE task[GetMin].next > now /\ event' = task[GetMin].next
  /\ unit' = "MILLIS"
  /\ running' = Resting
  /\ UNCHANGED <<now, m_queue, task>>

\* Routine runs the nearest task: a periodic one goes back into the heap
\* first, another one leaves it; a cancelled one is only dropped.
RoutineRun ==
  /\ running = Loop
  /\ m_queue # <<>>
  /\ task[GetMin].next <= now
  /\ LET t == GetMin IN
     IF task[t].state # "SCHEDULED"
     THEN /\ task' = [task EXCEPT ![t] = NoTask]
          /\ m_queue' = RemoveMin(m_queue, task)
          /\ UNCHANGED running
     ELSE IF task[t].period > 0
     THEN /\ task' = [task EXCEPT ![t].next = now + task[t].period]
          /\ m_queue' = FixDown(m_queue, 1, task')
          /\ running' = t
     ELSE /\ m_queue' = RemoveMin(m_queue, task)
          /\ task' = [task EXCEPT ![t].state = "EXECUTED"]
          /\ running' = t
  /\ UNCHANGED <<now, event, unit>>

\* The task's Run returns; one that has left the heap is deleted.
RoutineRan ==
  /\ running \in Tasks
  /\ running' = Loop
  /\ task' = IF task[running].period > 0 THEN task
             ELSE [task EXCEPT ![running] = NoTask]
  /\ UNCHANGED <<now, m_queue, event, unit>>

Tick ==
  /\ now < Horizon
  /\ now' = now + 1
  /\ UNCHANGED <<m_queue, task, event, unit, running>>

TimerNext ==
  \/ \E d \in Delays, p \in Periods, u \in {"MICROS", "MILLIS", "SECONDS"} :
       Schedule(d, p, u)
  \/ \E t \in Tasks : Cancel(t)
  \/ TimeoutCB \/ RoutineEnd \/ RoutineRun \/ RoutineRan
  \/ Tick

\* The heap is a heap, and the tasks in it are the ones that are alive, each
\* once (but for the one that Routine has taken out to run): no deleted task
\* is reachable from the heap and none is lost from it.
HeapRight ==
  /\ \A k \in 2 .. Len(m_queue) : task[m_queue[k \div 2]].next <= task[m_queue[k]].next
  /\ \A k \in 1 .. Len(m_queue) : Known(m_queue[k]) /\ \A j \in 1 .. k - 1 : m_queue[j] # m_queue[k]
  /\ \A t \in Tasks : Known(t) =>
       \/ \E k \in 1 .. Len(m_queue) : m_queue[k] = t
       \/ running = t /\ task[t].period = 0

\* The loop never oversleeps a task: between two rounds of Routine the time
\* event is due no later than the nearest task, unless it was armed with a
\* delay in microseconds, which the loop takes for milliseconds.
NeverOversleeps ==
  running = Resting /\ m_queue # <<>> /\ unit # "MICROS" =>
    event # NoEvent /\ event <= task[GetMin].next

\* The timer keeps every task in its place and is never late for one.
TimerRight == HeapRight /\ NeverOversleeps
==============================================================================
