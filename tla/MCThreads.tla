------------------------------ MODULE MCThreads ------------------------------
(* Key locks and the slave's command workers, for TLC.  They share no state, so *)
(* a behaviour takes the steps of one of the two.                              *)
EXTENDS KeyLock, DBWriter

CONSTANT Parts  \* the parts to check
VARIABLE part

ThreadsInit == part \in Parts /\ LockInit /\ WriterInit

Locks == part = "locks" /\ LockNext /\ UNCHANGED <<writerVars, part>>
Writer == part = "writer" /\ WriterNext /\ UNCHANGED <<lockVars, part>>

ThreadsNext == Locks \/ Writer

\* The part that is not chosen stays in its initial state, where none of its threads
\* has anything to do: its fairness asks for nothing.
ThreadsSpec ==
    /\ ThreadsInit /\ [][ThreadsNext]_<<lockVars, writerVars, part>>
    /\ \A t \in Threads : WF_lockVars(Locking(t))
    /\ WF_writerVars(Select) /\ \A w \in Workers : WF_writerVars(Worker(w))
=============================================================================
