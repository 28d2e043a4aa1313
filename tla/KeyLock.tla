------------------------------- MODULE KeyLock -------------------------------
(***************************************************************************)
(* The locks on keys that commands hold while they read and change a value  *)
(* (LockKey, LockKeys, UnlockKey, UnlockKeys and the guards that call them, *)
(* db/db.cpp).                                                              *)
(*                                                                          *)
(* m_locking_keys maps a locked key to a mutex object taken from a pool;    *)
(* the object only serves to wait on.  One step is what a thread does with  *)
(* m_locking_keys_lock held.  Keys are numbered in the order of             *)
(* KeyPrefixSet, in which LockKeys takes them.                              *)
(***************************************************************************)
EXTENDS Integers, Sequences, FiniteSets

CONSTANTS
    Threads,    \* threads that execute commands
    NKeys,      \* number of keys
    MaxRounds   \* bound: commands each thread executes

ASSUME KeyLockAssumption == NKeys \in Nat /\ MaxRounds \in Nat

Keys == 1 .. NKeys
NoLock == 0  \* a key that m_locking_keys does not have

VARIABLES
    table,   \* m_locking_keys: the object each key is locked with
    pool,    \* m_lock_pool
    made,    \* objects made so far, numbered from 1
    stage,   \* what each thread does
    multi,   \* whether it locks through LockKeys
    need,    \* keys its command still has to lock
    held,    \* keys it has locked
    rounds   \* commands each thread has begun

lockVars == <<table, pool, made, stage, multi, need, held, rounds>>

\* The first of the keys S, none when there is no key.
Foremost(S) == {k \in S : \A j \in S : k <= j}

\* A command begins: KeyLockGuard for one key, KeysLockGuard for a set of them.
Guard(t, ks, m) ==
    /\ stage[t] = "idle" /\ rounds[t] < MaxRounds
    /\ m \/ Cardinality(ks) = 1
    /\ rounds' = [rounds EXCEPT ![t] = @ + 1]
    /\ stage' = [stage EXCEPT ![t] = "lock"]
    /\ multi' = [multi EXCEPT ![t] = m]
    /\ need' = [need EXCEPT ![t] = ks]
    /\ UNCHANGED <<table, pool, made, held>>

\* The mutex object for a key to be locked: from the pool, or a new one.
Take(k) ==
    \/ \E l \in pool : /\ table' = [table EXCEPT ![k] = l]
                       /\ pool' = pool \ {l}
                       /\ UNCHANGED made
    \/ /\ pool = {}
       /\ table' = [table EXCEPT ![k] = made + 1]
       /\ made' = made + 1
       /\ UNCHANGED pool

\* Thread t has the lock on k.
Got(t, k) ==
    /\ held' = [held EXCEPT ![t] = @ \cup {k}]
    /\ need' = [need EXCEPT ![t] = @ \ {k}]
    /\ stage' = [stage EXCEPT ![t] = IF need[t] = {k} THEN "in" ELSE "lock"]

\* A bug: an entry that is there already is not looked at.
LockKeyBlind(t, k) ==
    /\ stage[t] = "lock" /\ k \in need[t]
    /\ Take(k)
    /\ Got(t, k)
    /\ UNCHANGED <<multi, rounds>>

\* LockKey finds the key free.
LockKey(t, k) ==
    /\ stage[t] = "lock" /\ k \in need[t]
    /\ table[k] = NoLock
    /\ Take(k)
    /\ Got(t, k)
    /\ UNCHANGED <<multi, rounds>>

\* LockKey finds the key locked and waits, a millisecond or until notified.
LockKeyBusy(t, k) ==
    /\ stage[t] = "lock" /\ k \in need[t]
    /\ table[k] # NoLock
    /\ stage' = [stage EXCEPT ![t] = "wait"]
    /\ UNCHANGED <<table, pool, made, multi, need, held, rounds>>

\* LockKeys takes its keys in the order of the set.
NextKey(t) == Foremost(need[t])

\* The wait is over.  LockKey tries again; with the limit of LockKeys it gives
\* up, and LockKeys releases what it has before it starts over.
WaitOver(t) ==
    /\ stage[t] = "wait"
    /\ stage' = [stage EXCEPT ![t] = IF multi[t] /\ held[t] # {} THEN "release"
                                                           ELSE "lock"]
    /\ UNCHANGED <<table, pool, made, multi, need, held, rounds>>

\* A bug: the object goes back to the pool while the key still refers to it.
UnlockKeyKeeps(t, k) ==
    /\ k \in held[t]
    /\ pool' = pool \cup {table[k]}
    /\ held' = [held EXCEPT ![t] = @ \ {k}]
    /\ UNCHANGED <<table, made, multi, rounds>>

\* A bug: LockKeys forgets a key without unlocking it.
UnlockKeyForgets(t, k) ==
    /\ k \in held[t]
    /\ held' = [held EXCEPT ![t] = @ \ {k}]
    /\ UNCHANGED <<table, pool, made, multi, rounds>>

\* UnlockKey.
UnlockKey(t, k) ==
    /\ k \in held[t]
    /\ table' = [table EXCEPT ![k] = NoLock]
    /\ pool' = pool \cup {table[k]}
    /\ held' = [held EXCEPT ![t] = @ \ {k}]
    /\ UNCHANGED <<made, multi, rounds>>

\* A bug: LockKeys gives up for good, it does not start over.
ReleaseGivesUp(t, k) ==
    /\ stage[t] = "release"
    /\ UnlockKey(t, k)
    /\ need' = [need EXCEPT ![t] = @ \cup {k}]
    /\ stage' = [stage EXCEPT ![t] = IF held[t] = {k} THEN "idle" ELSE "release"]

\* LockKeys releases a key it has locked, to try again.
Release(t, k) ==
    /\ stage[t] = "release"
    /\ UnlockKey(t, k)
    /\ need' = [need EXCEPT ![t] = @ \cup {k}]
    /\ stage' = [stage EXCEPT ![t] = IF held[t] = {k} THEN "lock" ELSE "release"]

\* The guard's destructor unlocks a key of a command that is done.
Unguard(t, k) ==
    /\ stage[t] \in {"in", "out"}
    /\ UnlockKey(t, k)
    /\ stage' = [stage EXCEPT ![t] = IF held[t] = {k} THEN "idle" ELSE "out"]
    /\ UNCHANGED need

-----------------------------------------------------------------------------
LockInit ==
    /\ table = [k \in Keys |-> NoLock] /\ pool = {} /\ made = 0
    /\ stage = [t \in Threads |-> "idle"] /\ multi = [t \in Threads |-> FALSE]
    /\ need = [t \in Threads |-> {}] /\ held = [t \in Threads |-> {}]
    /\ rounds = [t \in Threads |-> 0]

Locking(t) ==
    \/ \E k \in NextKey(t) : LockKey(t, k) \/ LockKeyBusy(t, k)
    \/ WaitOver(t)
    \/ \E k \in Foremost(held[t]) : Release(t, k) \/ Unguard(t, k)

LockNext == \E t \in Threads :
    \/ \E ks \in (SUBSET Keys) \ {{}}, m \in BOOLEAN : Guard(t, ks, m)
    \/ Locking(t)

LockSpec == LockInit /\ [][LockNext]_lockVars

\* A thread that has begun a command goes on with it.
LockFairSpec == LockSpec /\ \A t \in Threads : WF_lockVars(Locking(t))

-----------------------------------------------------------------------------
(* Properties                                                              *)

LockTypeOK ==
    /\ made \in Nat
    /\ table \in [Keys -> 0 .. made]
    /\ pool \subseteq 1 .. made
    /\ stage \in [Threads -> {"idle", "lock", "wait", "release", "in", "out"}]
    /\ multi \in [Threads -> BOOLEAN]
    /\ need \in [Threads -> SUBSET Keys]
    /\ held \in [Threads -> SUBSET Keys]
    /\ rounds \in [Threads -> 0 .. MaxRounds]

\* No two threads have a lock on the same key, even though UnlockKey removes
\* the entry of a key without asking who made it (LockKey, UnlockKey).
MutualExclusion ==
    \A t, u \in Threads : t # u => held[t] \cap held[u] = {}

\* A mutex object serves one key at a time, and the pool has none that is in
\* use: who waits on a key's object is woken by that key (m_lock_pool).
ObjectsDistinct ==
    /\ \A k \in Keys : table[k] # NoLock => table[k] \notin pool
    /\ \A j, k \in Keys : j # k /\ table[j] # NoLock => table[j] # table[k]

\* A key is locked exactly as long as some thread has its lock: no lock is left
\* behind and none is lost (UnlockKeys).
LockedIsHeld ==
    \A k \in Keys : table[k] # NoLock <=> \E t \in Threads : k \in held[t]

\* Every command gets its locks once no new ones come in between: keys taken in
\* one order, and given up when one is busy, cannot block each other for ever
\* (LockKeys, the limit of LockKey).
EveryLockGranted == \A t \in Threads : stage[t] = "lock" ~> stage[t] = "in"
=============================================================================
