---------------------------- MODULE MasterProofs ----------------------------
(***************************************************************************)
(* What a master sends its slaves, for any number of slaves, connections,   *)
(* namespaces, dumps and restarts, and any length of the backlog.           *)
(*                                                                          *)
(* StreamFaithful follows from what holds of every context by itself        *)
(* (Good): what was announced to the slave is the offset of the snapshot it *)
(* refers to, so that the dump goes out at the right place in the log,      *)
(* whoever caused it to be made.  NamespaceKnown is about the log: behind   *)
(* the offset of every snapshot made for a slave, and from its beginning,   *)
(* the log selects a namespace before it uses it, and will when it          *)
(* continues (Known).                                                       *)
(***************************************************************************)
EXTENDS Master, TLAPS

-----------------------------------------------------------------------------
(* The inductive invariant                                                 *)

\* What goes out on a connection, of a log of L entries.
Items(L) == [t : {"full", "continue", "snapshot", "entry"}, n : 0 .. L]

\* A context, of a log of L entries and N snapshots.
Contexts(L, N) == [state : {"none", "waiting", "sending", "synced"},
                  off : 0 .. L, snap : 0 .. N, out : Seq(Items(L))]

\* A snapshot of a log of L entries.
Snapshots(L) == [off : 0 .. L, state : {"dumping", "success", "fail"}, file : BOOLEAN,
                 cb : {"none", "save", "resync"}, rank : 0 .. MaxObjects]

\* What a slave has been sent, not empty, up to sync_offset off.
Stream(q, off) ==
    /\ q[1].t \in {"full", "continue"} /\ q[1].n <= off
    /\ \A k \in DOMAIN q : q[k].t = "entry" => q[k].n \in q[1].n + 1 .. off
    /\ \A n \in q[1].n + 1 .. off : \E k \in DOMAIN q : q[k].t = "entry" /\ q[k].n = n
    /\ \A j, k \in DOMAIN q :
         q[j].t = "entry" /\ q[k].t = "entry" /\ j < k => q[j].n < q[k].n
    /\ \A k \in DOMAIN q : q[k].t = "snapshot" => q[k].n = q[1].n
    /\ q[1].t = "full" /\ Len(q) >= 2 => q[2].t = "snapshot"

\* A context and the snapshots o: what was announced is what is referred to.
Good(r, o) ==
    /\ r.state = "synced" => r.out # << >>
    /\ r.snap # 0 => r.out # << >> /\ r.out[1].t = "full" /\ r.out[1].n = o[r.snap].off
    /\ r.out # << >> => Stream(r.out, r.off)
    /\ r.out # << >> /\ r.state \in {"sending", "synced"} /\ r.out[1].t = "full" =>
         Len(r.out) >= 2

\* Every command of l behind its first c entries has a select of its namespace
\* before it, behind these as well; and so would one in namespace ns have.
SelectOf(l, c, j, ns) ==
    \E i \in c + 1 .. j : /\ l[i].k = "select" /\ l[i].ns = ns
                          /\ \A h \in i + 1 .. j : l[h].k # "select"
Known(l, ns, c) ==
    /\ \A j \in c + 1 .. Len(l) : l[j].k = "cmd" => SelectOf(l, c, j, l[j].ns)
    /\ ns # NoNamespace => SelectOf(l, c, Len(l), ns)

\* The types, and the bound on the number of snapshots.
Types == TypeOK /\ Len(object) <= MaxObjects

\* Every context is good.
SlavesInv == \A s \in Slaves : Good(slave[s], object)

\* The log can be followed from its beginning and from every dump for a slave.
LogInv ==
    /\ Known(log, cur, 0)
    /\ \A i \in DOMAIN object : object[i].cb = "resync" => Known(log, cur, object[i].off)

\* The inductive invariant.
MasterInv == Types /\ SlavesInv /\ LogInv

-----------------------------------------------------------------------------
(* Sequences                                                               *)

\* A sequence over a set is one over every larger set.
LEMMA SeqWiden ==
    ASSUME NEW S, NEW T, S \subseteq T, NEW q \in Seq(S)
    PROVE  q \in Seq(T)
BY SMT

\* What a sequence over a set is.
LEMMA SeqOver ==
    ASSUME NEW S, NEW q \in Seq(S)
    PROVE  /\ Len(q) \in Nat /\ DOMAIN q = 1 .. Len(q) /\ \A i \in DOMAIN q : q[i] \in S
           /\ q = << >> <=> Len(q) = 0
BY SMT

\* A sequence and what Append makes of it.
LEMMA Longer ==
    ASSUME NEW S, NEW q \in Seq(S), NEW x \in S
    PROVE  /\ Append(q, x) \in Seq(S) /\ Append(q, x) # << >>
           /\ Len(q) \in Nat /\ Len(Append(q, x)) = Len(q) + 1
           /\ DOMAIN q = 1 .. Len(q) /\ DOMAIN Append(q, x) = 1 .. Len(q) + 1
           /\ \A i \in DOMAIN q : q[i] \in S /\ Append(q, x)[i] = q[i]
           /\ Append(q, x)[Len(q) + 1] = x
           /\ q \o <<x>> = Append(q, x)
BY SMT

\* A sequence and what Tail leaves of it.
LEMMA Shorter ==
    ASSUME NEW S, NEW q \in Seq(S), q # << >>
    PROVE  Tail(q) \in Seq(S) /\ Head(q) \in S
BY SMT

-----------------------------------------------------------------------------
(* The log                                                                 *)

\* A longer log knows what it knew, up to there.
LEMMA SelectKept ==
    ASSUME NEW l \in Seq(Entry), NEW e \in Entry, NEW c \in 0 .. Len(l),
           NEW j \in 0 .. Len(l), NEW ns, SelectOf(l, c, j, ns)
    PROVE  SelectOf(Append(l, e), c, j, ns)
<1>1. Len(l) \in Nat /\ DOMAIN l = 1 .. Len(l) /\ \A i \in DOMAIN l : Append(l, e)[i] = l[i]
  BY Longer
<1>2. PICK i \in c + 1 .. j : /\ l[i].k = "select" /\ l[i].ns = ns
                              /\ \A h \in i + 1 .. j : l[h].k # "select"
  BY DEF SelectOf
<1> DEFINE p == Append(l, e)
           L == Len(l)
<1> HIDE DEF p, L
<1>3. p[i] = l[i] /\ \A h \in i + 1 .. j : p[h] = l[h]
  BY <1>1, <1>2 DEF p, L
<1>4. /\ p[i].k = "select" /\ p[i].ns = ns
      /\ \A h \in i + 1 .. j : p[h].k # "select"
  BY <1>2, <1>3
<1> QED BY <1>2, <1>4 DEF SelectOf, p

\* A select: what follows is in its namespace.
LEMMA LogSelect ==
    ASSUME NEW l \in Seq(Entry), NEW ns \in Namespaces, NEW old, NEW c \in 0 .. Len(l),
           Known(l, old, c)
    PROVE  Known(Append(l, Select(ns)), ns, c)
<1> DEFINE e == Select(ns)
           p == Append(l, e)
<1>1. e \in Entry /\ e.k = "select" /\ e.ns = ns
  BY DEF Select, Entry
<1> HIDE DEF e
<1>2. /\ Len(l) \in Nat /\ Len(p) = Len(l) + 1 /\ DOMAIN l = 1 .. Len(l)
      /\ \A i \in DOMAIN l : p[i] = l[i]
      /\ p[Len(l) + 1] = e
  BY <1>1, Longer
<1>3. ASSUME NEW j \in c + 1 .. Len(p), p[j].k = "cmd" PROVE SelectOf(p, c, j, p[j].ns)
  <2>1. j \in 0 .. Len(l) /\ j \in c + 1 .. Len(l) /\ p[j] = l[j]
    BY <1>1, <1>2, <1>3
  <2>2. SelectOf(l, c, j, l[j].ns)
    BY <1>3, <2>1 DEF Known
  <2> QED BY <1>1, <2>1, <2>2, SelectKept
<1>4. SelectOf(p, c, Len(p), ns)
  <2>1. Len(p) \in c + 1 .. Len(p) /\ p[Len(p)] = e /\ Len(p) + 1 .. Len(p) = {}
    BY <1>2
  <2> HIDE DEF p
  <2> QED BY <1>1, <2>1 DEF SelectOf
<1> HIDE DEF p
<1>5. Known(p, ns, c)
  BY <1>3, <1>4 DEF Known
<1> QED BY <1>5 DEF p, e

\* A command in the namespace of the last select, or a ping.
LEMMA LogOther ==
    ASSUME NEW l \in Seq(Entry), NEW e \in Entry, e.k # "select", NEW ns,
           e.k = "cmd" => e.ns = ns /\ ns # NoNamespace,
           NEW c \in 0 .. Len(l), Known(l, ns, c)
    PROVE  Known(Append(l, e), ns, c)
<1> DEFINE p == Append(l, e)
<1>2. /\ Len(l) \in Nat /\ Len(p) = Len(l) + 1 /\ DOMAIN l = 1 .. Len(l)
      /\ \A i \in DOMAIN l : p[i] = l[i]
      /\ p[Len(l) + 1] = e
  BY Longer
<1>3. ns # NoNamespace => SelectOf(p, c, Len(p), ns)
  <2> SUFFICES ASSUME ns # NoNamespace PROVE SelectOf(p, c, Len(p), ns)
    OBVIOUS
  <2>1. PICK i \in c + 1 .. Len(l) : /\ l[i].k = "select" /\ l[i].ns = ns
                                     /\ \A h \in i + 1 .. Len(l) : l[h].k # "select"
    BY DEF Known, SelectOf
  <2> HIDE DEF p
  <2>2. /\ i \in c + 1 .. Len(p) /\ p[i] = l[i]
        /\ \A h \in i + 1 .. Len(p) : (p[h] = l[h] /\ h \in i + 1 .. Len(l)) \/ p[h] = e
    BY <1>2
  <2> QED BY <2>1, <2>2 DEF SelectOf
<1>4. ASSUME NEW j \in c + 1 .. Len(p), p[j].k = "cmd" PROVE SelectOf(p, c, j, p[j].ns)
  <2>1. CASE j = Len(p)
    BY <1>2, <1>3, <1>4, <2>1
  <2>2. CASE j # Len(p)
    <3>1. j \in 0 .. Len(l) /\ j \in c + 1 .. Len(l) /\ p[j] = l[j]
      BY <1>2, <2>2
    <3>2. SelectOf(l, c, j, l[j].ns)
      BY <1>4, <3>1 DEF Known
    <3> QED BY <3>1, <3>2, SelectKept
  <2> QED BY <2>1, <2>2
<1> HIDE DEF p
<1>5. Known(p, ns, c)
  BY <1>3, <1>4 DEF Known
<1> QED BY <1>5 DEF p

\* What the types say of the sequences of the state.
LEMMA Lengths ==
    ASSUME Types
    PROVE  /\ Len(log) \in Nat /\ Len(object) \in Nat /\ DOMAIN object = 1 .. Len(object)
           /\ \A i \in 1 .. Len(object) :
                /\ object[i] \in Snapshots(Len(log)) /\ object[i].off \in 0 .. Len(log)
<1> DEFINE L == Len(log)
<1>1. object \in Seq(Snapshots(L)) /\ log \in Seq(Entry)
  BY DEF Types, TypeOK, Snapshots
<1> HIDE DEF L
<1>2. /\ Len(object) \in Nat /\ DOMAIN object = 1 .. Len(object)
      /\ \A i \in 1 .. Len(object) : object[i] \in Snapshots(L)
  BY <1>1, SeqOver
<1>3. \A x \in Snapshots(L) : x.off \in 0 .. L
  BY DEF Snapshots
<1>4. Len(log) \in Nat
  BY <1>1, SeqOver
<1> QED BY <1>2, <1>3, <1>4 DEF L

-----------------------------------------------------------------------------
(* Contexts                                                                *)

\* The fields of a context.
LEMMA Fields ==
    ASSUME NEW L \in Nat, NEW N \in Nat, NEW r \in Contexts(L, N)
    PROVE  /\ r.state \in {"none", "waiting", "sending", "synced"}
           /\ r.off \in 0 .. L /\ r.snap \in 0 .. N /\ r.out \in Seq(Items(L))
BY DEF Contexts

\* A context of a log and snapshots is one of a longer log and more snapshots.
LEMMA Wider ==
    ASSUME NEW L \in Nat, NEW N \in Nat, NEW K \in Nat, NEW M \in Nat, L <= K, N <= M,
           NEW r \in Contexts(L, N)
    PROVE  r \in Contexts(K, M)
<1>1. Items(L) \subseteq Items(K)
  BY DEF Items
<1>2. r.out \in Seq(Items(K))
  BY Zenon, <1>1, Fields, SeqWiden
<1> QED BY <1>2, Fields DEF Contexts

\* A closed context is sent nothing.
LEMMA ClosedGood ==
    ASSUME NEW L \in Nat, NEW N \in Nat, NEW o
    PROVE  Closed \in Contexts(L, N) /\ Good(Closed, o)
<1>1. << >> \in Seq(Items(L))
  BY SMT
<1>2. Closed \in Contexts(L, N)
  BY <1>1 DEF Closed, Context, Contexts
<1>3. Good(Closed, o)
  BY DEF Closed, Context, Good
<1> QED BY <1>2, <1>3

\* Entries sent behind a stream (SyncWAL).
LEMMA StreamGrows ==
    ASSUME NEW L \in Nat, NEW q \in Seq(Items(L)), q # << >>, NEW off \in 0 .. L,
           Stream(q, off), q[1].t = "full" => Len(q) >= 2
    PROVE  LET new == q \o Entries(off, L)
           IN  /\ new \in Seq(Items(L)) /\ new # << >> /\ Stream(new, L)
               /\ new[1] = q[1] /\ Len(new) >= Len(q)
<1> DEFINE a == Entries(off, L)
           new == q \o a
<1>1. a \in Seq(Items(L)) /\ Len(a) = L - off /\ \A i \in 1 .. L - off : a[i] = Item("entry", off + i)
  <2>1. \A i \in 1 .. L - off : Item("entry", off + i) \in Items(L)
    BY DEF Item, Items
  <2>2. L - off \in Nat
    OBVIOUS
  <2> QED BY <2>1, <2>2 DEF Entries
<1> HIDE DEF a
<1>2. /\ new \in Seq(Items(L))
      /\ Len(q) \in Nat /\ Len(new) = Len(q) + (L - off)
      /\ DOMAIN q = 1 .. Len(q) /\ DOMAIN new = 1 .. Len(q) + (L - off)
      /\ \A i \in 1 .. Len(q) : new[i] = q[i]
      /\ \A i \in 1 .. L - off : new[Len(q) + i] = a[i]
      /\ new # << >>
  <2> DEFINE D == L - off
             S == Items(L)
  <2>1. q \in Seq(S) /\ a \in Seq(S) /\ Len(a) = D
    BY <1>1
  <2> HIDE DEF D, S
  <2>2. /\ new \in Seq(S)
        /\ Len(q) \in Nat /\ Len(new) = Len(q) + D
        /\ DOMAIN q = 1 .. Len(q) /\ DOMAIN new = 1 .. Len(q) + D
        /\ \A i \in 1 .. Len(q) : new[i] = q[i]
        /\ \A i \in 1 .. D : new[Len(q) + i] = a[i]
        /\ new # << >>
    BY SMT, <2>1
  <2> QED BY <2>2 DEF D, S
<1>3. Len(q) >= 1 /\ \A i \in 1 .. Len(q) : q[i] \in Items(L)
  BY SeqOver
<1> DEFINE Q == Len(q)
           b == q[1].n
<1>4. Q \in Nat /\ Q >= 1 /\ b \in 0 .. L /\ b <= off
  BY <1>2, <1>3 DEF Stream, Items
<1> HIDE DEF new, Q, b
<1>5. new[1] = q[1]
  BY <1>2, <1>4 DEF Q
<1>6. \A k \in 1 .. Q + (L - off) :
         \/ k \in 1 .. Q /\ new[k] = q[k]
         \/ k \in Q + 1 .. Q + (L - off) /\ new[k].t = "entry" /\ new[k].n = off + (k - Q)
  <2> SUFFICES ASSUME NEW k \in 1 .. Q + (L - off), k \notin 1 .. Q
               PROVE  k \in Q + 1 .. Q + (L - off) /\ new[k].t = "entry" /\ new[k].n = off + (k - Q)
    BY <1>2, <1>4 DEF Q
  <2>1. k - Q \in 1 .. L - off /\ k = Q + (k - Q) /\ k \in Q + 1 .. Q + (L - off)
    BY <1>4
  <2>2. \A i \in 1 .. L - off : new[Q + i] = Item("entry", off + i)
    BY Zenon, <1>1, <1>2 DEF Q
  <2>3. new[k] = Item("entry", off + (k - Q))
    BY Zenon, <2>1, <2>2
  <2> QED BY <2>1, <2>3 DEF Item
<1>7. /\ \A k \in 1 .. Q : q[k].t = "entry" => q[k].n \in b + 1 .. off
      /\ \A n \in b + 1 .. off : \E k \in 1 .. Q : q[k].t = "entry" /\ q[k].n = n
      /\ \A j, k \in 1 .. Q :
           q[j].t = "entry" /\ q[k].t = "entry" /\ j < k => q[j].n < q[k].n
      /\ \A k \in 1 .. Q : q[k].t = "snapshot" => q[k].n = b
  BY Zenon, <1>2 DEF Stream, Q, b
<1>8. \A k \in DOMAIN new : new[k].t = "entry" => new[k].n \in b + 1 .. L
  <2> SUFFICES ASSUME NEW k \in 1 .. Q + (L - off), new[k].t = "entry" PROVE new[k].n \in b + 1 .. L
    BY <1>2 DEF Q
  <2>1. CASE k \in 1 .. Q /\ new[k] = q[k]
    BY <1>4, <1>7, <2>1
  <2>2. CASE k \in Q + 1 .. Q + (L - off) /\ new[k].n = off + (k - Q)
    BY <1>4, <2>2
  <2> QED BY <1>6, <2>1, <2>2
<1>9. \A n \in b + 1 .. L : \E k \in DOMAIN new : new[k].t = "entry" /\ new[k].n = n
  <2> TAKE n \in b + 1 .. L
  <2>1. CASE n <= off
    <3>1. PICK k \in 1 .. Q : q[k].t = "entry" /\ q[k].n = n
      BY <1>4, <1>7, <2>1
    <3>2. k \in DOMAIN new /\ new[k] = q[k]
      BY <1>2, <1>4, <3>1 DEF Q
    <3> QED BY <3>1, <3>2
  <2>2. CASE n > off
    <3> DEFINE k == Q + (n - off)
    <3>1. k \in 1 .. Q + (L - off) /\ k \notin 1 .. Q /\ off + (k - Q) = n
      BY <1>4, <2>2
    <3> HIDE DEF k
    <3>2. new[k].t = "entry" /\ new[k].n = n
      BY <1>6, <3>1
    <3>3. k \in DOMAIN new
      BY <1>2, <3>1 DEF Q
    <3> QED BY <3>2, <3>3
  <2> QED BY <1>4, <2>1, <2>2
<1>10. \A j, k \in DOMAIN new :
          new[j].t = "entry" /\ new[k].t = "entry" /\ j < k => new[j].n < new[k].n
  <2> SUFFICES ASSUME NEW j \in 1 .. Q + (L - off), NEW k \in 1 .. Q + (L - off),
                      new[j].t = "entry", new[k].t = "entry", j < k
               PROVE  new[j].n < new[k].n
    BY SMTT(30), <1>2 DEF Q
  <2>1. CASE k \in 1 .. Q /\ new[k] = q[k]
    <3>1. j \in 1 .. Q /\ new[j] = q[j]
      BY <1>2, <1>4, <2>1 DEF Q
    <3> QED BY <1>7, <2>1, <3>1
  <2>2. CASE k \in Q + 1 .. Q + (L - off) /\ new[k].n = off + (k - Q)
    <3>1. CASE j \in 1 .. Q /\ new[j] = q[j]
      <4>1. new[j].n \in b + 1 .. off
        BY Zenon, <1>7, <3>1
      <4>2. off < off + (k - Q)
        BY <1>4, <2>2
      <4> DEFINE x == new[j].n
      <4>3. x \in b + 1 .. off /\ new[k].n = off + (k - Q)
        BY <2>2, <4>1
      <4> HIDE DEF x
      <4>4. x < off + (k - Q)
        BY <1>4, <2>2, <4>2, <4>3
      <4> QED BY <4>3, <4>4 DEF x
    <3>2. CASE j \in Q + 1 .. Q + (L - off) /\ new[j].n = off + (j - Q)
      BY <1>4, <2>2, <3>2
    <3> QED BY <1>6, <3>1, <3>2
  <2> QED BY <1>6, <2>1, <2>2
<1>11. \A k \in DOMAIN new : new[k].t = "snapshot" => new[k].n = b
  <2> SUFFICES ASSUME NEW k \in 1 .. Q + (L - off), new[k].t = "snapshot" PROVE new[k].n = b
    BY <1>2 DEF Q
  <2>1. k \in 1 .. Q /\ new[k] = q[k]
    BY <1>6
  <2> QED BY Zenon, <1>7, <2>1
<1>12. q[1].t = "full" /\ Len(new) >= 2 => new[2].t = "snapshot"
  BY <1>2 DEF Stream
<1>13. Stream(new, L)
  BY <1>4, <1>5, <1>8, <1>9, <1>10, <1>11, <1>12 DEF Stream, b
<1>14. Len(new) >= Len(q)
  BY <1>2
<1> QED BY <1>2, <1>5, <1>13, <1>14 DEF new, a

\* A synced slave is fed, or cut off.
LEMMA SyncWALGood ==
    ASSUME NEW l \in Seq(Entry), NEW N \in Nat, NEW o, NEW r \in Contexts(Len(l), N),
           Good(r, o), r.state = "synced", NEW busy
    PROVE  SyncWAL(r, l, busy) \in Contexts(Len(l), N) /\ Good(SyncWAL(r, l, busy), o)
<1> DEFINE L == Len(l)
           new == r.out \o Entries(r.off, L)
           x == Context(r.state, L, r.snap, new)
<1>1. L \in Nat
  BY SeqOver
<1> HIDE DEF L
<1>2. /\ r.off \in 0 .. L /\ r.snap \in 0 .. N /\ r.out \in Seq(Items(L))
  BY <1>1, Fields DEF L
<1>3. r.out # << >> /\ Stream(r.out, r.off) /\ (r.out[1].t = "full" => Len(r.out) >= 2)
  BY DEF Good
<1>4. /\ new \in Seq(Items(L)) /\ new # << >> /\ Stream(new, L)
      /\ new[1] = r.out[1] /\ Len(new) >= Len(r.out)
  BY Zenon, <1>1, <1>2, <1>3, StreamGrows
<1> HIDE DEF new
<1>5. x = [state |-> "synced", off |-> L, snap |-> r.snap, out |-> new]
  BY DEF Context
<1> HIDE DEF x
<1>6. x \in Contexts(L, N)
  BY <1>1, <1>2, <1>4, <1>5 DEF Contexts
<1>7. Len(new) >= 2 \/ r.out[1].t # "full"
  <2>1. Len(new) \in Nat /\ Len(r.out) \in Nat
    BY <1>2, <1>4, SeqOver
  <2> QED BY <1>3, <1>4, <2>1
<1>8. r.snap # 0 => r.out[1].t = "full" /\ r.out[1].n = o[r.snap].off
  BY DEF Good
<1>9. Good(x, o)
  <2>1. x.state = "synced" /\ x.off = L /\ x.snap = r.snap /\ x.out = new
    BY <1>5
  <2> QED BY Zenon, <1>4, <1>7, <1>8, <2>1 DEF Good
<1>10. SyncWAL(r, l, busy) \in {Closed, r, x}
  BY DEF SyncWAL, WALEnd, x, new, L
<1> QED BY <1>1, <1>6, <1>9, <1>10, ClosedGood DEF L

\* A dump goes out behind what is on its way.
LEMMA SendSnapshotGood ==
    ASSUME Types, NEW r \in Contexts(Len(log), Len(object)), Good(r, object), r.snap # 0
    PROVE  /\ SendSnapshotToSlave(r) \in Contexts(Len(log), Len(object))
           /\ Good(SendSnapshotToSlave(r), object)
<1> DEFINE L == Len(log)
           N == Len(object)
           e == Item("snapshot", object[r.snap].off)
           new == Append(r.out, e)
           x == Context("sending", r.off, r.snap, new)
<1>1. L \in Nat /\ N \in Nat /\ DOMAIN object = 1 .. N
  BY Lengths
<1>2. \A i \in 1 .. N : object[i].off \in 0 .. L
  BY Lengths
<1> HIDE DEF L, N
<1>3. /\ r.off \in 0 .. L /\ r.snap \in 1 .. N /\ r.out \in Seq(Items(L))
  BY <1>1, Fields DEF L, N
<1>4. /\ r.out # << >> /\ Stream(r.out, r.off)
      /\ r.out[1].t = "full" /\ r.out[1].n = object[r.snap].off
  BY DEF Good
<1>5. e \in Items(L) /\ e.t = "snapshot" /\ e.n = r.out[1].n
  BY <1>2, <1>3, <1>4 DEF Item, Items
<1> HIDE DEF e
<1> DEFINE Q == Len(r.out)
<1>6. /\ new \in Seq(Items(L)) /\ new # << >>
      /\ Q \in Nat /\ Len(new) = Q + 1
      /\ DOMAIN r.out = 1 .. Q /\ DOMAIN new = 1 .. Q + 1
      /\ \A i \in 1 .. Q : new[i] = r.out[i]
      /\ new[Q + 1] = e
  BY <1>3, <1>5, Longer
<1>7. Q >= 1
  BY <1>3, <1>4, <1>6, SeqOver
<1> DEFINE b == r.out[1].n
<1>8. /\ \A k \in 1 .. Q : r.out[k].t = "entry" => r.out[k].n \in b + 1 .. r.off
      /\ \A n \in b + 1 .. r.off : \E k \in 1 .. Q : r.out[k].t = "entry" /\ r.out[k].n = n
      /\ \A j, k \in 1 .. Q :
           r.out[j].t = "entry" /\ r.out[k].t = "entry" /\ j < k => r.out[j].n < r.out[k].n
      /\ \A k \in 1 .. Q : r.out[k].t = "snapshot" => r.out[k].n = b
      /\ b <= r.off
      /\ Q >= 2 => r.out[2].t = "snapshot"
  BY Zenon, <1>4, <1>6 DEF Stream
<1> HIDE DEF new, Q, b
<1>9. \A k \in 1 .. Q + 1 : (k \in 1 .. Q /\ new[k] = r.out[k]) \/ (k = Q + 1 /\ new[k] = e)
  <2>1. \A k \in 1 .. Q + 1 : k \in 1 .. Q \/ k = Q + 1
    BY <1>6
  <2> QED BY Zenon, <1>6, <2>1
<1>10. new[1] = r.out[1] /\ new[1].n = b
  BY <1>6, <1>7 DEF b
<1>11. Stream(new, r.off)
  <2>1. \A k \in DOMAIN new : new[k].t = "entry" => new[k].n \in b + 1 .. r.off
    BY ZenonT(40), <1>5, <1>6, <1>8, <1>9
  <2>2. \A n \in b + 1 .. r.off : \E k \in DOMAIN new : new[k].t = "entry" /\ new[k].n = n
    <3> TAKE n \in b + 1 .. r.off
    <3>1. PICK k \in 1 .. Q : r.out[k].t = "entry" /\ r.out[k].n = n
      BY Zenon, <1>8
    <3>2. k \in DOMAIN new /\ new[k] = r.out[k]
      BY <1>6
    <3> QED BY Zenon, <3>1, <3>2
  <2>3. \A j, k \in DOMAIN new :
          new[j].t = "entry" /\ new[k].t = "entry" /\ j < k => new[j].n < new[k].n
    BY ZenonT(40), <1>5, <1>6, <1>8, <1>9
  <2>4. \A k \in DOMAIN new : new[k].t = "snapshot" => new[k].n = b
    <3>1. e.n = b
      BY Zenon, <1>5 DEF b
    <3> SUFFICES ASSUME NEW k \in 1 .. Q + 1, new[k].t = "snapshot" PROVE new[k].n = b
      BY Zenon, <1>6
    <3>2. CASE k \in 1 .. Q /\ new[k] = r.out[k]
      BY Zenon, <1>8, <3>2
    <3>3. CASE new[k] = e
      BY Zenon, <3>1, <3>3
    <3> QED BY Zenon, <1>9, <3>2, <3>3
  <2>5. new[2].t = "snapshot"
    <3>1. CASE Q = 1
      <4>1. new[2] = e
        BY <1>6, <3>1
      <4> QED BY <1>5, <4>1
    <3>2. CASE Q # 1
      <4>1. Q >= 2 /\ 2 \in 1 .. Q
        BY <1>6, <1>7, <3>2
      <4> QED BY <1>6, <1>8, <4>1
    <3> QED BY <3>1, <3>2
  <2> QED BY Zenon, <1>4, <1>8, <1>10, <2>1, <2>2, <2>3, <2>4, <2>5 DEF Stream
<1>12. x = [state |-> "sending", off |-> r.off, snap |-> r.snap, out |-> new]
  BY DEF Context
<1> HIDE DEF x
<1>13. x \in Contexts(L, N)
  BY <1>1, <1>3, <1>6, <1>12 DEF Contexts
<1>14. Len(new) >= 2
  BY <1>6, <1>7
<1>15. Good(x, object)
  <2>1. x.state = "sending" /\ x.off = r.off /\ x.snap = r.snap /\ x.out = new
    BY <1>12
  <2> QED BY Zenon, <1>4, <1>6, <1>10, <1>11, <1>14, <2>1 DEF Good
<1>16. SendSnapshotToSlave(r) \in {Closed, x}
  BY DEF SendSnapshotToSlave, x, new, e
<1> QED BY <1>1, <1>13, <1>15, <1>16, ClosedGood DEF L, N

\* A context refers to the snapshots it referred to.
LEMMA GoodKept ==
    ASSUME NEW L \in Nat, NEW N \in Nat, NEW r \in Contexts(L, N), NEW o, NEW p, Good(r, o),
           \A i \in 1 .. N : p[i].off = o[i].off
    PROVE  Good(r, p)
<1>1. r.snap # 0 => r.snap \in 1 .. N
  BY Fields
<1>2. r.snap # 0 => p[r.snap].off = o[r.snap].off
  BY Zenon, <1>1
<1> QED BY Zenon, <1>2 DEF Good

-----------------------------------------------------------------------------
(* What the steps have in common                                           *)

\* What is posted to the event loop, and the bounds.
Callbacks(N) == [snap : 1 .. N, ok : BOOLEAN]

Counts == saves \in 0 .. MaxSaves /\ conns \in 0 .. MaxConns /\ restarts \in 0 .. MaxRestarts

\* The types, part by part.
LEMMA TypesSplit ==
    ASSUME Types
    PROVE  /\ log \in Seq(Entry) /\ Len(log) <= MaxLog
           /\ cur \in Namespaces \cup {NoNamespace}
           /\ slave \in [Slaves -> Contexts(Len(log), Len(object))]
           /\ object \in Seq(Snapshots(Len(log))) /\ Len(object) <= MaxObjects
           /\ posted \in Seq(Callbacks(Len(object)))
           /\ Counts
BY Zenon DEF Types, TypeOK, Contexts, Items, Snapshots, Callbacks, Counts

\* And put together again.
LEMMA TypesMade ==
    ASSUME /\ log' \in Seq(Entry) /\ Len(log') <= MaxLog
           /\ cur' \in Namespaces \cup {NoNamespace}
           /\ slave' \in [Slaves -> Contexts(Len(log'), Len(object'))]
           /\ object' \in Seq(Snapshots(Len(log'))) /\ Len(object') <= MaxObjects
           /\ posted' \in Seq(Callbacks(Len(object')))
           /\ Counts'
    PROVE  Types'
BY Zenon DEF Types, TypeOK, Contexts, Items, Snapshots, Callbacks, Counts

\* Only contexts have changed, or select_ns was cleared.
LEMMA SlavesStep ==
    ASSUME MasterInv, UNCHANGED <<log, object>>, cur' \in {cur, NoNamespace},
           slave' \in [Slaves -> Contexts(Len(log), Len(object))],
           \A s \in Slaves : Good(slave'[s], object),
           posted' \in Seq(Callbacks(Len(object))), Counts'
    PROVE  MasterInv'
<1>1. Types'
  <2>1. cur' \in Namespaces \cup {NoNamespace}
    BY TypesSplit DEF MasterInv
  <2> QED BY Zenon, <2>1, TypesSplit, TypesMade DEF MasterInv
<1>2. SlavesInv'
  BY Zenon DEF SlavesInv
<1>3. LogInv'
  <2>1. \A c : Known(log, cur, c) => Known(log, cur', c)
    BY DEF Known
  <2> QED BY Zenon, <2>1 DEF MasterInv, LogInv
<1> QED BY <1>1, <1>2, <1>3 DEF MasterInv

\* Only one context has.
LEMMA SlaveStep ==
    ASSUME MasterInv, UNCHANGED <<log, cur, object, posted>>, Counts', NEW s \in Slaves,
           NEW x \in Contexts(Len(log), Len(object)), Good(x, object),
           slave' = [slave EXCEPT ![s] = x]
    PROVE  MasterInv'
<1> DEFINE C == Contexts(Len(log), Len(object))
<1>1. slave \in [Slaves -> C] /\ x \in C
  BY TypesSplit DEF MasterInv
<1> HIDE DEF C
<1>2. slave' \in [Slaves -> C] /\ \A u \in Slaves : slave'[u] \in {slave[u], x}
  BY <1>1
<1>3. \A u \in Slaves : Good(slave'[u], object)
  <2> TAKE u \in Slaves
  <2>1. Good(slave[u], object)
    BY DEF MasterInv, SlavesInv
  <2>2. slave'[u] = slave[u] \/ slave'[u] = x
    BY <1>2
  <2> QED BY Zenon, <2>1, <2>2
<1>4. posted' \in Seq(Callbacks(Len(object)))
  BY TypesSplit DEF MasterInv
<1> QED BY <1>2, <1>3, <1>4, SlavesStep DEF C

\* The log has become l (SyncAll).
LEMMA LogStep ==
    ASSUME MasterInv, NEW l \in Seq(Entry), Len(l) >= Len(log), Len(l) <= MaxLog, log' = l,
           cur' \in Namespaces \cup {NoNamespace},
           \A c \in 0 .. Len(log) : Known(log, cur, c) => Known(l, cur', c),
           NEW busy, slave' = SyncAll(slave, l, busy),
           UNCHANGED <<object, posted, counts>>
    PROVE  MasterInv'
<1> DEFINE N == Len(object)
           C == Contexts(Len(l), N)
<1>1. /\ Len(log) \in Nat /\ Len(l) \in Nat /\ N \in Nat /\ DOMAIN object = 1 .. N
      /\ \A i \in 1 .. N : object[i] \in Snapshots(Len(log)) /\ object[i].off \in 0 .. Len(log)
  BY Lengths, SeqOver DEF MasterInv
<1>2. /\ slave \in [Slaves -> Contexts(Len(log), N)] /\ object \in Seq(Snapshots(Len(log)))
      /\ posted \in Seq(Callbacks(N)) /\ N <= MaxObjects /\ Counts
  BY Zenon, TypesSplit DEF MasterInv
<1> HIDE DEF N
<1>3. \A s \in Slaves : slave[s] \in C /\ Good(slave[s], object)
  <2>1. N <= N /\ Len(log) <= Len(l)
    BY <1>1
  <2>2. \A s \in Slaves : slave[s] \in Contexts(Len(log), N)
    BY <1>2
  <2> QED BY Zenon, <1>1, <2>1, <2>2, Wider DEF MasterInv, SlavesInv
<1>4. \A s \in Slaves : slave[s].state = "synced" =>
         SyncWAL(slave[s], l, s \in busy) \in C /\ Good(SyncWAL(slave[s], l, s \in busy), object)
  BY Zenon, <1>1, <1>3, SyncWALGood
<1> HIDE DEF C
<1>5. /\ slave' \in [Slaves -> C]
      /\ \A s \in Slaves : slave'[s] = IF slave[s].state = "synced"
                                       THEN SyncWAL(slave[s], l, s \in busy) ELSE slave[s]
  BY <1>3, <1>4 DEF SyncAll
<1>6. SlavesInv'
  BY Zenon, <1>3, <1>4, <1>5 DEF SlavesInv
<1>7. object \in Seq(Snapshots(Len(l)))
  <2>1. Snapshots(Len(log)) \subseteq Snapshots(Len(l))
    BY <1>1 DEF Snapshots
  <2> QED BY Zenon, <1>2, <2>1, SeqWiden
<1>8. Types'
  <2>1. Counts'
    BY Zenon, <1>2 DEF Counts, counts
  <2> QED BY Zenon, <1>2, <1>5, <1>7, <2>1, TypesMade DEF N, C
<1>9. LogInv'
  <2>1. Known(l, cur', 0)
    BY <1>1 DEF MasterInv, LogInv
  <2>2. \A i \in DOMAIN object : object[i].cb = "resync" => Known(l, cur', object[i].off)
    BY Zenon, <1>1 DEF MasterInv, LogInv
  <2> QED BY Zenon, <2>1, <2>2 DEF LogInv
<1> QED BY <1>6, <1>8, <1>9 DEF MasterInv

\* A Snapshot object is made (PrepareSave); select_ns is cleared when it is for
\* a slave.
LEMMA ObjectStep ==
    ASSUME MasterInv, NewId <= MaxObjects,
           NEW cb \in {"none", "save", "resync"}, NEW r \in 0 .. MaxObjects,
           object' = Append(object, Fresh(cb, r)),
           cur' \in {cur, NoNamespace}, cb = "resync" => cur' = NoNamespace,
           UNCHANGED <<log, posted>>, Counts',
           slave' \in [Slaves -> Contexts(Len(log), Len(object) + 1)],
           \A s \in Slaves :
              \/ slave'[s] \in Contexts(Len(log), Len(object)) /\ Good(slave'[s], object)
              \/ Good(slave'[s], object')
    PROVE  MasterInv'
<1> DEFINE L == Len(log)
           N == Len(object)
           x == Fresh(cb, r)
<1>1. /\ L \in Nat /\ N \in Nat /\ DOMAIN object = 1 .. N /\ L <= MaxLog
      /\ \A i \in 1 .. N : object[i].off \in 0 .. L
  BY Lengths, TypesSplit DEF MasterInv
<1>2. /\ log \in Seq(Entry) /\ cur \in Namespaces \cup {NoNamespace}
      /\ object \in Seq(Snapshots(L)) /\ posted \in Seq(Callbacks(N)) /\ Counts'
  BY Zenon, TypesSplit DEF MasterInv
<1>3. x \in Snapshots(L) /\ x.off = L /\ x.cb = cb
  BY <1>1 DEF Fresh, Snapshot, Snapshots, WALEnd
<1> HIDE DEF x, L
<1>4. /\ object' \in Seq(Snapshots(L)) /\ Len(object') = N + 1
      /\ DOMAIN object' = 1 .. N + 1
      /\ \A i \in DOMAIN object : object'[i] = object[i]
      /\ object'[N + 1] = x
  BY <1>2, <1>3, Longer DEF x
<1>5. N + 1 \in Nat /\ N + 1 <= MaxObjects /\ N <= N + 1
  BY <1>1 DEF NewId
<1> HIDE DEF N
<1>6. SlavesInv'
  <2> SUFFICES ASSUME NEW s \in Slaves, slave'[s] \in Contexts(Len(log), Len(object)),
                      Good(slave'[s], object)
               PROVE  Good(slave'[s], object')
    BY Zenon DEF SlavesInv
  <2>1. slave'[s] \in Contexts(L, N)
    BY Zenon DEF L, N
  <2>2. \A i \in 1 .. N : object'[i].off = object[i].off
    BY Zenon, <1>1, <1>4
  <2> DEFINE c == slave'[s]
             p == object'
             o == object
  <2>7. c \in Contexts(L, N) /\ Good(c, o) /\ \A i \in 1 .. N : p[i].off = o[i].off
    BY Zenon, <2>1, <2>2
  <2>8. L \in Nat /\ N \in Nat
    BY <1>1
  <2> HIDE DEF c, p, o
  <2>9. Good(c, p)
    BY Zenon, <2>7, <2>8, GoodKept
  <2> QED BY Zenon, <2>9 DEF c, p
<1>7. Types'
  <2>1. posted \in Seq(Callbacks(N + 1))
    <3>1. Callbacks(N) \subseteq Callbacks(N + 1)
      BY <1>1 DEF Callbacks
    <3> QED BY Zenon, <1>2, <3>1, SeqWiden
  <2>2. cur' \in Namespaces \cup {NoNamespace}
    BY <1>2
  <2> QED BY Zenon, <1>1, <1>2, <1>4, <1>5, <2>1, <2>2, TypesMade DEF L, N
<1>8. LogInv'
  <2>1. \A c : Known(log, cur, c) => Known(log, cur', c)
    BY DEF Known
  <2>2. Known(log, NoNamespace, L)
    <3>1. L + 1 .. L = {}
      BY <1>1
    <3> QED BY <3>1 DEF Known, L
  <2>3. \A i \in DOMAIN object : object[i].cb = "resync" => Known(log, cur', object[i].off)
    BY Zenon, <2>1 DEF MasterInv, LogInv
  <2>4. cb = "resync" => Known(log, cur', L)
    BY <2>2
  <2>5. \A i \in 1 .. N + 1 : i \in 1 .. N \/ i = N + 1
    BY <1>1
  <2>6. ASSUME NEW i \in DOMAIN object', object'[i].cb = "resync"
        PROVE  Known(log, cur', object'[i].off)
    <3>1. CASE i \in DOMAIN object
      BY Zenon, <1>4, <2>3, <2>6, <3>1
    <3>2. CASE i = N + 1
      BY Zenon, <1>3, <1>4, <2>4, <2>6, <3>2
    <3> QED BY <1>1, <1>4, <2>5, <3>1, <3>2
  <2>7. Known(log, cur', 0)
    BY Zenon, <2>1 DEF MasterInv, LogInv
  <2> QED BY Zenon, <2>6, <2>7 DEF LogInv
<1> QED BY <1>6, <1>7, <1>8 DEF MasterInv

\* Snapshot objects have changed, but none its offset or what it was made for.
LEMMA ObjectsStep ==
    ASSUME MasterInv, UNCHANGED <<log, cur>>,
           object' \in Seq(Snapshots(Len(log))), Len(object') = Len(object),
           \A i \in 1 .. Len(object) :
              object'[i].off = object[i].off /\ object'[i].cb = object[i].cb,
           slave' \in [Slaves -> Contexts(Len(log), Len(object))],
           \A s \in Slaves : slave'[s] \in {slave[s], Closed},
           posted' \in Seq(Callbacks(Len(object))), Counts'
    PROVE  MasterInv'
<1> DEFINE L == Len(log)
           N == Len(object)
<1>1. /\ L \in Nat /\ N \in Nat /\ DOMAIN object = 1 .. N /\ DOMAIN object' = 1 .. N
  BY Lengths, SeqOver DEF MasterInv
<1>2. Types'
  BY Zenon, TypesSplit, TypesMade DEF MasterInv
<1> HIDE DEF L
<1>3. SlavesInv'
  <2> SUFFICES ASSUME NEW s \in Slaves PROVE Good(slave'[s], object')
    BY Zenon DEF SlavesInv
  <2>1. slave'[s] = slave[s] \/ slave'[s] = Closed
    OBVIOUS
  <2>2. Good(slave'[s], object)
    BY Zenon, <1>1, <2>1, ClosedGood DEF MasterInv, SlavesInv
  <2>3. slave'[s] \in Contexts(L, N)
    BY DEF L
  <2> HIDE DEF N
  <2> DEFINE c == slave'[s]
             p == object'
             o == object
  <2>7. c \in Contexts(L, N) /\ Good(c, o) /\ \A i \in 1 .. N : p[i].off = o[i].off
    BY Zenon, <2>2, <2>3 DEF N
  <2>8. L \in Nat /\ N \in Nat
    BY <1>1
  <2> HIDE DEF c, p, o
  <2>9. Good(c, p)
    BY SMTT(30), <2>7, <2>8, GoodKept
  <2> QED BY Zenon, <2>9 DEF c, p
<1>4. LogInv'
  BY Zenon, <1>1 DEF MasterInv, LogInv
<1> QED BY <1>2, <1>3, <1>4 DEF MasterInv

-----------------------------------------------------------------------------
(* The actions                                                             *)

\* Initially the log is empty and nobody is connected.
LEMMA InitInv == Init => MasterInv
<1> SUFFICES ASSUME Init PROVE MasterInv
  OBVIOUS
<1>1. /\ log \in Seq(Entry) /\ Len(log) = 0 /\ object \in Seq(Snapshots(0)) /\ Len(object) = 0
      /\ DOMAIN object = {} /\ posted \in Seq(Callbacks(0)) /\ log = << >> /\ object = << >>
  BY DEF Init
<1>2. Closed \in Contexts(0, 0) /\ Good(Closed, object)
  BY ClosedGood
<1>3. slave \in [Slaves -> Contexts(0, 0)] /\ \A s \in Slaves : slave[s] = Closed
  BY <1>2 DEF Init
<1>4. Types
  BY <1>1, <1>3, MasterAssumption
     DEF Init, Types, TypeOK, Contexts, Items, Snapshots, Callbacks
<1>5. SlavesInv
  BY Zenon, <1>2, <1>3 DEF SlavesInv
<1>6. Known(log, NoNamespace, 0)
  <2>1. 0 + 1 .. Len(log) = {}
    BY <1>1
  <2> QED BY <2>1 DEF Known
<1>7. LogInv
  BY <1>1, <1>6 DEF LogInv, Init
<1> QED BY <1>4, <1>5, <1>7 DEF MasterInv

\* A write command is logged, behind a select if need be.
LEMMA WriteWALInv ==
    ASSUME MasterInv, NEW busy, NEW ns \in Namespaces, WriteWAL(ns, busy)
    PROVE  MasterInv'
<1> DEFINE a == IF cur = ns THEN log ELSE Append(log, Select(ns))
           l == Append(a, Command(ns))
<1>1. log \in Seq(Entry) /\ Len(log) \in Nat /\ log \o << >> = log
  BY TypesSplit, SeqOver DEF MasterInv
<1>2. Select(ns) \in Entry /\ Command(ns) \in Entry /\ Command(ns).k = "cmd" /\ Command(ns).ns = ns
  BY DEF Select, Command, Entry
<1>3. ns # NoNamespace
  BY MasterAssumption
<1>4. a \in Seq(Entry) /\ Len(a) \in Nat /\ Len(a) >= Len(log)
  BY <1>1, <1>2, Longer
<1>5. \A c \in 0 .. Len(log) : Known(log, cur, c) => Known(a, ns, c)
  BY <1>1, LogSelect
<1>6. l \in Seq(Entry) /\ Len(l) \in Nat /\ Len(l) >= Len(log)
  BY <1>1, <1>2, <1>4, Longer
<1>7. log \o (IF cur = ns THEN << >> ELSE <<Select(ns)>>) \o <<Command(ns)>> = l
  <2>1. log \o (IF cur = ns THEN << >> ELSE <<Select(ns)>>) = a
    BY <1>1, <1>2, Longer
  <2>2. a \o <<Command(ns)>> = l
    BY <1>2, <1>4, Longer
  <2> QED BY Zenon, <2>1, <2>2
<1> HIDE DEF a
<1>8. \A c \in 0 .. Len(log) : Known(log, cur, c) => Known(l, ns, c)
  <2> SUFFICES ASSUME NEW c \in 0 .. Len(log), Known(log, cur, c) PROVE Known(l, ns, c)
    OBVIOUS
  <2>1. Known(a, ns, c) /\ c \in 0 .. Len(a)
    BY <1>1, <1>4, <1>5
  <2> QED BY <1>2, <1>3, <1>4, <2>1, LogOther
<1> HIDE DEF l
<1>9. /\ Len(l) <= MaxLog /\ log' = l /\ cur' = ns /\ slave' = SyncAll(slave, l, busy)
      /\ UNCHANGED <<object, posted, counts>>
  BY Zenon, <1>7 DEF WriteWAL, WALEnd
<1> QED BY Zenon, <1>6, <1>8, <1>9, LogStep

\* A ping is logged.
LEMMA RoutineInv ==
    ASSUME MasterInv, NEW busy, Routine(busy)
    PROVE  MasterInv'
<1> DEFINE l == Append(log, Ping)
<1>1. log \in Seq(Entry) /\ Len(log) \in Nat /\ cur \in Namespaces \cup {NoNamespace}
  BY TypesSplit, SeqOver DEF MasterInv
<1>2. Ping \in Entry /\ Ping.k = "ping"
  BY DEF Ping, Entry
<1>3. l \in Seq(Entry) /\ Len(l) >= Len(log)
  BY <1>1, <1>2, Longer
<1>4. \A c \in 0 .. Len(log) : Known(log, cur, c) => Known(l, cur, c)
  BY <1>1, <1>2, LogOther
<1> HIDE DEF l
<1>5. /\ Len(l) <= MaxLog /\ log' = l /\ cur' = cur /\ slave' = SyncAll(slave, l, busy)
      /\ UNCHANGED <<object, posted, counts>>
  BY DEF Routine, WALEnd, l
<1> QED BY Zenon, <1>1, <1>3, <1>4, <1>5, LogStep

\* Steps that leave the counts alone keep their types.
LEMMA CountsKept == Types /\ UNCHANGED counts => Counts'
BY TypesSplit DEF Counts, counts

\* A synced slave gets on with the log.
LEMMA ChannelWritableInv ==
    ASSUME MasterInv, NEW s \in Slaves, ChannelWritable(s)
    PROVE  MasterInv'
<1> DEFINE x == SyncWAL(slave[s], log, FALSE)
<1>1. slave[s] \in Contexts(Len(log), Len(object)) /\ log \in Seq(Entry) /\ Len(object) \in Nat
  BY Zenon, TypesSplit, Lengths DEF MasterInv
<1>2. x \in Contexts(Len(log), Len(object)) /\ Good(x, object)
  BY Zenon, <1>1, SyncWALGood DEF MasterInv, SlavesInv, ChannelWritable
<1>3. slave' = [slave EXCEPT ![s] = x] /\ UNCHANGED <<log, cur, object, posted, counts>>
  BY DEF ChannelWritable
<1>4. Counts'
  BY Zenon, <1>3, CountsKept DEF MasterInv
<1> QED BY Zenon, <1>2, <1>3, <1>4, SlaveStep

\* BGSAVE and SAVE.
LEMMA SaveInv ==
    ASSUME MasterInv, BGSave \/ Save
    PROVE  MasterInv'
<1>1. PICK cb \in {"none", "save"}, r \in 0 .. MaxObjects : object' = Append(object, Fresh(cb, r))
  BY MasterAssumption DEF BGSave, Save
<1>2. /\ NewId <= MaxObjects /\ saves < MaxSaves /\ saves' = saves + 1
      /\ UNCHANGED <<log, cur, slave, posted, conns, restarts>>
  BY DEF BGSave, Save
<1>3. Counts'
  <2>1. Counts
    BY Zenon, TypesSplit DEF MasterInv
  <2> QED BY <1>2, <2>1, MasterAssumption DEF Counts
<1> DEFINE L == Len(log)
           N == Len(object)
<1>4. L \in Nat /\ N \in Nat /\ N + 1 \in Nat /\ N <= N + 1 /\ L <= L
  BY Lengths DEF MasterInv
<1>5. slave \in [Slaves -> Contexts(L, N)]
  BY Zenon, TypesSplit DEF MasterInv
<1> HIDE DEF L, N
<1>6. \A s \in Slaves : slave[s] \in Contexts(L, N) /\ slave[s] \in Contexts(L, N + 1)
  BY Zenon, <1>4, <1>5, Wider
<1>7. slave \in [Slaves -> Contexts(L, N + 1)]
  BY <1>5, <1>6
<1>8. \A s \in Slaves : Good(slave[s], object)
  BY DEF MasterInv, SlavesInv
<1> QED BY <1>1, <1>2, <1>3, <1>6, <1>7, <1>8, ObjectStep DEF L, N

\* A dump is done, and the event loop is told.
LEMMA DoSaveInv ==
    ASSUME MasterInv, NEW i \in 1 .. Len(object), NEW ok \in BOOLEAN, DoSave(i, ok)
    PROVE  MasterInv'
<1> DEFINE N == Len(object)
           S == Snapshots(Len(log))
<1>1. /\ N \in Nat /\ object \in Seq(S) /\ posted \in Seq(Callbacks(N))
      /\ slave \in [Slaves -> Contexts(Len(log), N)]
  BY Zenon, TypesSplit, Lengths DEF MasterInv
<1>2. object[i] \in S
  BY Zenon, Lengths DEF MasterInv
<1>3. PICK r \in 0 .. MaxObjects :
         object' = [object EXCEPT ![i] = Snapshot(object[i].off, IF ok THEN "success" ELSE "fail",
                                                  object[i].file /\ ok, object[i].cb, r)]
  BY Zenon DEF DoSave
<1> DEFINE x == Snapshot(object[i].off, IF ok THEN "success" ELSE "fail",
                         object[i].file /\ ok, object[i].cb, r)
<1>4. x \in S /\ x.off = object[i].off /\ x.cb = object[i].cb
  <2>1. (object[i].file /\ ok) \in BOOLEAN
    BY Zenon
  <2> QED BY <1>2, <2>1 DEF Snapshot, Snapshots
<1>5. object' = [object EXCEPT ![i] = x]
  BY Zenon, <1>3
<1> HIDE DEF x, S
<1>6. /\ object' \in Seq(S) /\ Len(object') = N /\ object'[i] = x
      /\ \A j \in 1 .. N : j # i => object'[j] = object[j]
  BY SMT, <1>1, <1>4, <1>5
<1>7. \A j \in 1 .. N : object'[j].off = object[j].off /\ object'[j].cb = object[j].cb
  BY Zenon, <1>4, <1>6
<1>8. posted' \in Seq(Callbacks(N))
  <2>1. [snap |-> i, ok |-> ok] \in Callbacks(N)
    BY DEF Callbacks
  <2>2. Append(posted, [snap |-> i, ok |-> ok]) \in Seq(Callbacks(N))
    BY Zenon, <1>1, <2>1, Longer
  <2> QED BY Zenon, <1>1, <2>2 DEF DoSave
<1>9. UNCHANGED <<log, cur, slave, counts>>
  BY DEF DoSave
<1>10. \A s \in Slaves : slave'[s] \in {slave[s], Closed}
  BY <1>9
<1>11. Counts'
  BY Zenon, <1>9, CountsKept DEF MasterInv
<1> QED BY Zenon, <1>1, <1>6, <1>7, <1>8, <1>9, <1>10, <1>11, ObjectsStep DEF S

\* All slaves that refer to a snapshot are sent it, or closed.
LEMMA ResyncGood ==
    ASSUME Types, NEW f \in [Slaves -> Contexts(Len(log), Len(object))],
           \A s \in Slaves : Good(f[s], object), NEW i \in 1 .. Len(object)
    PROVE  /\ FullResyncSlaves(f, i) \in [Slaves -> Contexts(Len(log), Len(object))]
           /\ \A s \in Slaves : Good(FullResyncSlaves(f, i)[s], object)
           /\ CloseSlaveBySnapshot(f, i) \in [Slaves -> Contexts(Len(log), Len(object))]
           /\ \A s \in Slaves : Good(CloseSlaveBySnapshot(f, i)[s], object)
<1> DEFINE C == Contexts(Len(log), Len(object))
<1>1. Closed \in C /\ Good(Closed, object)
  BY Zenon, ClosedGood, Lengths
<1>2. \A s \in Slaves : f[s] \in C
  OBVIOUS
<1>3. \A s \in Slaves : f[s].snap = i =>
         SendSnapshotToSlave(f[s]) \in C /\ Good(SendSnapshotToSlave(f[s]), object)
  <2>1. i # 0
    BY Lengths
  <2> QED BY Zenon, <1>2, <2>1, SendSnapshotGood
<1> HIDE DEF C
<1>4. /\ FullResyncSlaves(f, i) \in [Slaves -> C]
      /\ \A s \in Slaves : FullResyncSlaves(f, i)[s] =
                              IF f[s].snap = i THEN SendSnapshotToSlave(f[s]) ELSE f[s]
  BY <1>2, <1>3 DEF FullResyncSlaves
<1>5. /\ CloseSlaveBySnapshot(f, i) \in [Slaves -> C]
      /\ \A s \in Slaves : CloseSlaveBySnapshot(f, i)[s] = IF f[s].snap = i THEN Closed ELSE f[s]
  BY <1>1, <1>2 DEF CloseSlaveBySnapshot
<1>6. \A s \in Slaves : Good(FullResyncSlaves(f, i)[s], object)
  BY Zenon, <1>3, <1>4
<1>7. \A s \in Slaves : Good(CloseSlaveBySnapshot(f, i)[s], object)
  BY Zenon, <1>1, <1>5
<1> QED BY Zenon, <1>4, <1>5, <1>6, <1>7 DEF C

\* The event loop hears of a dump.
LEMMA SnapshotCallbackInv ==
    ASSUME MasterInv, SnapshotCallback
    PROVE  MasterInv'
<1>1. /\ posted \in Seq(Callbacks(Len(object)))
      /\ slave \in [Slaves -> Contexts(Len(log), Len(object))]
  BY Zenon, TypesSplit DEF MasterInv
<1>2. Tail(posted) \in Seq(Callbacks(Len(object))) /\ Head(posted) \in Callbacks(Len(object))
  BY Zenon, <1>1, Shorter DEF SnapshotCallback
<1>3. Head(posted).snap \in 1 .. Len(object)
  BY <1>2 DEF Callbacks
<1> DEFINE F == FullResyncSlaves(slave, Head(posted).snap)
           G == CloseSlaveBySnapshot(slave, Head(posted).snap)
<1>4. /\ F \in [Slaves -> Contexts(Len(log), Len(object))] /\ \A s \in Slaves : Good(F[s], object)
      /\ G \in [Slaves -> Contexts(Len(log), Len(object))] /\ \A s \in Slaves : Good(G[s], object)
  BY Zenon, <1>1, <1>3, ResyncGood DEF MasterInv, SlavesInv
<1>5. /\ slave' = F \/ slave' = G
      /\ posted' = Tail(posted) /\ UNCHANGED <<log, cur, object, counts>>
  BY Zenon DEF SnapshotCallback
<1> HIDE DEF F, G
<1>6. Counts' /\ cur' \in {cur, NoNamespace}
  BY <1>5, CountsKept DEF MasterInv
<1>7. /\ slave' \in [Slaves -> Contexts(Len(log), Len(object))]
      /\ \A s \in Slaves : Good(slave'[s], object)
  BY Zenon, <1>4, <1>5
<1> QED BY Zenon, <1>2, <1>5, <1>6, <1>7, SlavesStep

\* The dump is out, and the log follows.
LEMMA SendCompleteInv ==
    ASSUME MasterInv, NEW s \in Slaves, NEW busy, SendComplete(s, busy)
    PROVE  MasterInv'
<1> DEFINE r == slave[s]
           y == Context("synced", r.off, IF Backup THEN r.snap ELSE 0, r.out)
           x == SyncWAL(y, log, busy)
           L == Len(log)
           N == Len(object)
<1>1. /\ r \in Contexts(L, N) /\ Good(r, object) /\ log \in Seq(Entry)
      /\ L \in Nat /\ N \in Nat
  BY Zenon, TypesSplit, Lengths DEF MasterInv, SlavesInv
<1>2. /\ slave' = [slave EXCEPT ![s] = x] /\ UNCHANGED <<log, cur, object, posted, counts>>
      /\ r.state = "sending" /\ r.snap # 0
  BY DEF SendComplete
<1> HIDE DEF L, N
<1>3. r.off \in 0 .. L /\ r.snap \in 0 .. N /\ r.out \in Seq(Items(L))
  BY Zenon, <1>1, Fields
<1> HIDE DEF r
<1>4. y.state = "synced" /\ y.off = r.off /\ y.snap \in {r.snap, 0} /\ y.out = r.out
  BY DEF Context
<1>5. y \in Contexts(L, N)
  BY <1>1, <1>3 DEF Context, Contexts
<1> HIDE DEF y
<1>6. y.snap # 0 => y.snap = r.snap
  BY <1>4
<1>7. Good(y, object)
  BY Zenon, <1>1, <1>2, <1>4, <1>6 DEF Good
<1>8. x \in Contexts(L, N) /\ Good(x, object)
  BY Zenon, <1>1, <1>4, <1>5, <1>7, SyncWALGood DEF L
<1>9. Counts'
  BY Zenon, <1>2, CountsKept DEF MasterInv
<1> HIDE DEF x
<1> QED BY Zenon, <1>2, <1>8, <1>9, SlaveStep DEF L, N

\* Cron removes dumps.
LEMMA SnapshotRoutineInv ==
    ASSUME MasterInv, SnapshotRoutine
    PROVE  MasterInv'
<1> DEFINE N == Len(object)
           S == Snapshots(Len(log))
<1>1. /\ N \in Nat /\ object \in Seq(S) /\ posted \in Seq(Callbacks(N))
      /\ slave \in [Slaves -> Contexts(Len(log), N)]
      /\ \A i \in 1 .. N : object[i] \in S
  BY Zenon, TypesSplit, Lengths DEF MasterInv
<1>2. UNCHANGED <<log, cur, slave, posted, counts>>
  BY DEF SnapshotRoutine
<1>3. PICK X : object' = [i \in 1 .. N |-> IF i \in X THEN Remove(object[i]) ELSE object[i]]
  BY Zenon DEF SnapshotRoutine
<1>4. \A o \in S : Remove(o) \in S /\ Remove(o).off = o.off /\ Remove(o).cb = o.cb
  BY MasterAssumption DEF Remove, Snapshot, Snapshots
<1> HIDE DEF N, S
<1> DEFINE F(i) == IF i \in X THEN Remove(object[i]) ELSE object[i]
<1>5. \A i \in 1 .. N : F(i) \in S /\ F(i).off = object[i].off /\ F(i).cb = object[i].cb
  BY Zenon, <1>1, <1>4
<1>6. object' = [i \in 1 .. N |-> F(i)]
  BY Zenon, <1>3
<1> HIDE DEF F
<1>7. object' \in Seq(S) /\ Len(object') = N /\ \A i \in 1 .. N : object'[i] = F(i)
  BY SMT, <1>1, <1>5, <1>6
<1>8. \A i \in 1 .. N : object'[i].off = object[i].off /\ object'[i].cb = object[i].cb
  BY Zenon, <1>5, <1>7
<1>9. Counts'
  BY Zenon, <1>2, CountsKept DEF MasterInv
<1>10. \A s \in Slaves : slave'[s] \in {slave[s], Closed}
  BY <1>2
<1> QED BY Zenon, <1>1, <1>2, <1>7, <1>8, <1>9, <1>10, ObjectsStep DEF N, S

\* The server stops and starts again.
LEMMA RestartInv ==
    ASSUME MasterInv, Restart
    PROVE  MasterInv'
<1> DEFINE N == Len(object)
           S == Snapshots(Len(log))
           left == {i \in 1 .. N : IsReady(i)}
           Kept(i, r) == Snapshot(object[i].off, "success", TRUE, object[i].cb, r)
           Lost(i) == Snapshot(object[i].off, "fail", FALSE, object[i].cb, 0)
<1>1. /\ N \in Nat /\ object \in Seq(S) /\ N <= MaxObjects /\ Len(log) \in Nat
      /\ \A i \in 1 .. N : object[i] \in S
  BY Zenon, TypesSplit, Lengths DEF MasterInv
<1>2. /\ restarts < MaxRestarts /\ restarts' = restarts + 1
      /\ slave' = [s \in Slaves |-> Closed] /\ posted' = << >>
      /\ UNCHANGED <<log, cur, saves, conns>>
  BY Zenon DEF Restart
<1>3. PICK r \in [left -> 1 .. N] :
         object' = [i \in 1 .. N |-> IF i \in left THEN Kept(i, r[i]) ELSE Lost(i)]
  BY Zenon DEF Restart
<1>4. \A i \in 1 .. N : /\ Lost(i) \in S /\ Lost(i).off = object[i].off /\ Lost(i).cb = object[i].cb
                        /\ \A k \in 1 .. N : /\ Kept(i, k) \in S /\ Kept(i, k).off = object[i].off
                                             /\ Kept(i, k).cb = object[i].cb
  <2>1. 1 .. N \subseteq 0 .. MaxObjects /\ 0 \in 0 .. MaxObjects
    BY <1>1, MasterAssumption
  <2> QED BY <1>1, <2>1 DEF Snapshot, Snapshots
<1> HIDE DEF N, S, left, Kept, Lost
<1> DEFINE F(i) == IF i \in left THEN Kept(i, r[i]) ELSE Lost(i)
<1>5. \A i \in 1 .. N : F(i) \in S /\ F(i).off = object[i].off /\ F(i).cb = object[i].cb
  <2>1. \A i \in left : r[i] \in 1 .. N
    BY <1>3
  <2> QED BY Zenon, <1>4, <2>1
<1>6. object' = [i \in 1 .. N |-> F(i)]
  BY Zenon, <1>3
<1> HIDE DEF F
<1>7. object' \in Seq(S) /\ Len(object') = N /\ \A i \in 1 .. N : object'[i] = F(i)
  BY SMT, <1>1, <1>5, <1>6
<1>8. \A i \in 1 .. N : object'[i].off = object[i].off /\ object'[i].cb = object[i].cb
  BY Zenon, <1>5, <1>7
<1>9. Counts'
  <2>1. Counts
    BY Zenon, TypesSplit DEF MasterInv
  <2> QED BY <1>2, <2>1, MasterAssumption DEF Counts
<1>10. Closed \in Contexts(Len(log), N)
  BY Zenon, <1>1, ClosedGood
<1>11. /\ slave' \in [Slaves -> Contexts(Len(log), N)]
       /\ \A s \in Slaves : slave'[s] \in {slave[s], Closed}
  BY <1>2, <1>10
<1>12. posted' \in Seq(Callbacks(N))
  BY <1>2
<1> QED BY Zenon, <1>2, <1>7, <1>8, <1>9, <1>11, <1>12, ObjectsStep DEF N, S

\* The reply to a psync begins a stream.
LEMMA Reply ==
    ASSUME NEW L \in Nat, NEW n \in 0 .. L, NEW t \in {"full", "continue"}
    PROVE  /\ <<Item(t, n)>> \in Seq(Items(L)) /\ <<Item(t, n)>> # << >>
           /\ <<Item(t, n)>>[1] = Item(t, n) /\ Item(t, n).t = t /\ Item(t, n).n = n
           /\ Stream(<<Item(t, n)>>, n)
<1> DEFINE e == Item(t, n)
           q == <<e>>
<1>1. e \in Items(L) /\ e.t = t /\ e.n = n
  BY DEF Item, Items
<1> HIDE DEF e
<1>2. q \in Seq(Items(L)) /\ q # << >> /\ q[1] = e /\ Len(q) = 1 /\ DOMAIN q = {1}
  BY <1>1
<1> HIDE DEF q
<1>3. n + 1 .. n = {} /\ n <= n
  OBVIOUS
<1>4. Stream(q, n)
  BY <1>1, <1>2, <1>3 DEF Stream
<1> QED BY <1>1, <1>2, <1>4 DEF q, e

\* A connection is accepted.
LEMMA AcceptedCounts ==
    ASSUME MasterInv, NEW s, Accepted(s), UNCHANGED <<saves, restarts>>
    PROVE  Counts'
<1>1. Counts
  BY Zenon, TypesSplit DEF MasterInv
<1> QED BY <1>1, MasterAssumption DEF Accepted, Counts

\* A slave goes on from its offset.
LEMMA SyncSlaveContinueInv ==
    ASSUME MasterInv, NEW s \in Slaves, NEW off \in 1 .. MaxLog, NEW busy,
           SyncSlaveContinue(s, off, busy)
    PROVE  MasterInv'
<1> DEFINE L == Len(log)
           N == Len(object)
           q == <<Item("continue", off)>>
           y == Context("synced", off, 0, q)
           x == SyncWAL(y, log, busy)
<1>1. log \in Seq(Entry) /\ L \in Nat /\ N \in Nat
  BY Zenon, TypesSplit, Lengths DEF MasterInv
<1>2. off \in 0 .. L
  BY <1>1 DEF SyncSlaveContinue, IsValidOffsetCksm, WALEnd, WALStart
<1>3. /\ slave' = [slave EXCEPT ![s] = x] /\ UNCHANGED <<log, cur, object, posted>>
      /\ Counts'
  BY AcceptedCounts DEF SyncSlaveContinue
<1> HIDE DEF L, N
<1>4. /\ q \in Seq(Items(L)) /\ q # << >> /\ q[1].t = "continue" /\ Stream(q, off)
  BY Zenon, <1>1, <1>2, Reply
<1> HIDE DEF q
<1>5. y.state = "synced" /\ y.off = off /\ y.snap = 0 /\ y.out = q
  BY DEF Context
<1>6. y \in Contexts(L, N)
  BY <1>1, <1>2, <1>4 DEF Context, Contexts
<1> HIDE DEF y
<1>7. Good(y, object)
  BY <1>4, <1>5 DEF Good
<1>8. x \in Contexts(L, N) /\ Good(x, object)
  BY Zenon, <1>1, <1>5, <1>6, <1>7, SyncWALGood DEF L
<1> HIDE DEF x
<1> QED BY Zenon, <1>3, <1>8, SlaveStep DEF L, N

\* A slave that waits for a snapshot has been told its offset.
LEMMA WaitingGood ==
    ASSUME NEW L \in Nat, NEW N \in Nat, NEW i \in 1 .. N, NEW off \in 0 .. L,
           NEW o, o[i].off = off
    PROVE  Waiting(i, off) \in Contexts(L, N) /\ Good(Waiting(i, off), o)
<1> DEFINE q == <<Item("full", off)>>
           y == Waiting(i, off)
<1>1. /\ q \in Seq(Items(L)) /\ q # << >> /\ q[1].t = "full" /\ q[1].n = off /\ Stream(q, off)
  BY Zenon, Reply
<1>2. y = Context("waiting", off, i, q)
  BY DEF Waiting
<1> HIDE DEF q, y
<1>3. y.state = "waiting" /\ y.off = off /\ y.snap = i /\ y.out = q
  BY <1>2 DEF Context
<1>4. y \in Contexts(L, N)
  BY <1>1, <1>2 DEF Context, Contexts
<1>5. Good(y, o)
  BY <1>1, <1>3 DEF Good
<1> QED BY <1>4, <1>5 DEF y

\* A slave is given a dump: one there is, or a new one.
LEMMA SyncSlaveFullInv ==
    ASSUME MasterInv, NEW s \in Slaves, SyncSlaveFull(s)
    PROVE  MasterInv'
<1> DEFINE L == Len(log)
           N == Len(object)
           C == Contexts(L, N)
<1>1. /\ L \in Nat /\ N \in Nat /\ slave \in [Slaves -> C] /\ Types
      /\ posted \in Seq(Callbacks(N)) /\ DOMAIN object = 1 .. N
      /\ \A i \in 1 .. N : object[i].off \in 0 .. L
      /\ \A u \in Slaves : slave[u] \in C /\ Good(slave[u], object)
  BY Zenon, TypesSplit, Lengths DEF MasterInv, SlavesInv
<1>2. Counts' /\ cur' = NoNamespace /\ UNCHANGED <<log, posted>>
  BY AcceptedCounts DEF SyncSlaveFull
<1>3. ASSUME NEW i \in Reusable, UNCHANGED object,
             slave' = IF IsReady(i)
                      THEN FullResyncSlaves([slave EXCEPT ![s] = Waiting(i, object[i].off)], i)
                      ELSE [slave EXCEPT ![s] = Waiting(i, object[i].off)]
      PROVE  MasterInv'
  <2> DEFINE w == Waiting(i, object[i].off)
             f == [slave EXCEPT ![s] = w]
  <2>1. i \in 1 .. N
    BY DEF Reusable, Listed
  <2>2. w \in C /\ Good(w, object)
    BY Zenon, <1>1, <2>1, WaitingGood
  <2> HIDE DEF w, C
  <2>3. f \in [Slaves -> C] /\ \A u \in Slaves : f[u] = slave[u] \/ f[u] = w
    BY <1>1, <2>2
  <2> HIDE DEF f
  <2>4. \A u \in Slaves : Good(f[u], object)
    BY Zenon, <1>1, <2>2, <2>3
  <2>5. /\ FullResyncSlaves(f, i) \in [Slaves -> C]
        /\ \A u \in Slaves : Good(FullResyncSlaves(f, i)[u], object)
    BY Zenon, <1>1, <2>1, <2>3, <2>4, ResyncGood DEF C
  <2>6. slave' = FullResyncSlaves(f, i) \/ slave' = f
    BY Zenon, <1>3 DEF f, w
  <2>7. slave' \in [Slaves -> C] /\ \A u \in Slaves : Good(slave'[u], object)
    BY Zenon, <2>3, <2>4, <2>5, <2>6
  <2>8. cur' \in {cur, NoNamespace}
    BY <1>2
  <2> QED BY Zenon, <1>1, <1>2, <1>3, <2>7, <2>8, SlavesStep DEF C
<1>4. ASSUME NEW r \in 1 .. MaxObjects, NewId <= MaxObjects,
             object' = Append(object, Fresh("resync", r)),
             slave' = [slave EXCEPT ![s] = Waiting(NewId, WALEnd(log))]
      PROVE  MasterInv'
  <2> DEFINE w == Waiting(NewId, WALEnd(log))
             D == Contexts(L, N + 1)
  <2>1. NewId = N + 1 /\ N + 1 \in Nat /\ N + 1 \in 1 .. N + 1 /\ L \in 0 .. L /\ N <= N + 1 /\ L <= L
    <3>1. N \in Nat /\ L \in Nat
      BY Zenon, <1>1
    <3>2. NewId = N + 1
      BY Zenon DEF NewId
    <3> HIDE DEF L, N
    <3> QED BY <3>1, <3>2
  <2>2. object'[N + 1].off = L
    <3>1. object \in Seq(Snapshots(L)) /\ Fresh("resync", r) \in Snapshots(L) /\ Fresh("resync", r).off = L
      <4>1. WALEnd(log) = L /\ L \in 0 .. L
        BY Zenon, <2>1 DEF WALEnd
      <4>2. object \in Seq(Snapshots(L))
        BY Zenon, <1>1, TypesSplit
      <4> HIDE DEF L
      <4> QED BY <4>1, <4>2 DEF Fresh, Snapshot, Snapshots
    <3> HIDE DEF L
    <3>2. Append(object, Fresh("resync", r))[N + 1] = Fresh("resync", r)
      BY <3>1, Longer
    <3> QED BY Zenon, <1>4, <3>1, <3>2
  <2> HIDE DEF N
  <2>3. w \in D /\ Good(w, object')
    <3> DEFINE p == object'
    <3>1. p[N + 1].off = L
      BY <2>2
    <3> HIDE DEF p, L
    <3>2. Waiting(N + 1, L) \in D /\ Good(Waiting(N + 1, L), p)
      BY <1>1, <2>1, <3>1, WaitingGood
    <3>3. w = Waiting(N + 1, L)
      BY Zenon, <2>1 DEF L, WALEnd
    <3> QED BY Zenon, <3>2, <3>3 DEF p
  <2>4. slave' = [slave EXCEPT ![s] = w]
    BY Zenon, <1>4
  <2> HIDE DEF L, w
  <2>5. \A u \in Slaves : slave[u] \in D
    BY Zenon, <1>1, <2>1, Wider
  <2> HIDE DEF D, C
  <2>6. slave' \in [Slaves -> D] /\ \A u \in Slaves : slave'[u] = IF u = s THEN w ELSE slave[u]
    BY <1>1, <2>3, <2>4, <2>5
  <2>7. \A u \in Slaves :
           (slave'[u] \in C /\ Good(slave'[u], object)) \/ Good(slave'[u], object')
    BY Zenon, <1>1, <2>3, <2>6
  <2>8. cur' \in {cur, NoNamespace} /\ r \in 0 .. MaxObjects
    BY <1>2
  <2> QED
    BY Zenon, <1>2, <1>4, <2>6, <2>7, <2>8, ObjectStep DEF L, N, C, D
<1> QED BY Zenon, <1>3, <1>4 DEF SyncSlaveFull

\* Connections that end, that are refused, and those of old slaves.
LEMMA ConnectionInv ==
    ASSUME MasterInv, NEW s \in Slaves,
           SyncSlaveFails(s) \/ SyncSlaveOld(s) \/ ChannelClosed(s)
    PROVE  MasterInv'
<1> DEFINE L == Len(log)
           N == Len(object)
           old == Context("sending", 0, 0, << >>)
<1>1. /\ L \in Nat /\ N \in Nat /\ slave \in [Slaves -> Contexts(L, N)]
      /\ slave[s] \in Contexts(L, N) /\ Good(slave[s], object)
  BY Zenon, TypesSplit, Lengths DEF MasterInv, SlavesInv
<1> HIDE DEF L, N
<1>2. Closed \in Contexts(L, N) /\ Good(Closed, object)
  BY Zenon, <1>1, ClosedGood
<1>3. old \in Contexts(L, N) /\ Good(old, object)
  <2>1. << >> \in Seq(Items(L))
    BY SMT
  <2>2. old \in Contexts(L, N)
    BY <1>1, <2>1 DEF Context, Contexts
  <2>3. old.state = "sending" /\ old.snap = 0 /\ old.out = << >>
    BY DEF Context
  <2> QED BY <2>2, <2>3 DEF Good
<1> HIDE DEF old
<1>4. Counts'
  <2>1. CASE ChannelClosed(s)
    BY <2>1, CountsKept DEF MasterInv, ChannelClosed
  <2> QED BY <2>1, AcceptedCounts DEF SyncSlaveFails, SyncSlaveOld
<1>5. UNCHANGED <<log, cur, object, posted>>
  BY DEF SyncSlaveFails, SyncSlaveOld, ChannelClosed
<1>6. PICK x \in {slave[s], Closed, old} : slave' = [slave EXCEPT ![s] = x]
  BY <1>1 DEF SyncSlaveFails, SyncSlaveOld, ChannelClosed, old
<1>7. x \in Contexts(L, N) /\ Good(x, object)
  BY <1>1, <1>2, <1>3, <1>6
<1> QED BY Zenon, <1>4, <1>5, <1>6, <1>7, SlaveStep DEF L, N

\* Every step of the master preserves the invariant.
LEMMA NextInv == MasterInv /\ [Next]_vars => MasterInv'
<1> SUFFICES ASSUME MasterInv, [Next]_vars PROVE MasterInv'
  OBVIOUS
<1>1. ASSUME NEW s \in Slaves, Step(s) PROVE MasterInv'
  BY Zenon, <1>1, SyncSlaveFullInv, ConnectionInv, ChannelWritableInv, SendCompleteInv,
     SyncSlaveContinueInv DEF Step
<1>2. CASE UNCHANGED vars
  BY Zenon, <1>2 DEF vars, MasterInv, Types, TypeOK, SlavesInv, LogInv
<1> QED BY Zenon, <1>1, <1>2, WriteWALInv, RoutineInv, SaveInv, DoSaveInv, SnapshotCallbackInv,
           SnapshotRoutineInv, RestartInv DEF Next

\* The invariant gives what is sent.
LEMMA GoodStream == MasterInv => StreamFaithful
<1> SUFFICES ASSUME MasterInv, NEW s \in Slaves, Out(s) # << >>
             PROVE  /\ {Out(s)[k].n : k \in Sent(s)} = Base(s) + 1 .. slave[s].off
                    /\ \A j, k \in Sent(s) : j < k => Out(s)[j].n < Out(s)[k].n
                    /\ \A k \in Dumps(s) : Out(s)[k].n = Base(s)
                    /\ Out(s)[1].t = "full" /\ Sent(s) # {} => Out(s)[2].t = "snapshot"
                    /\ slave[s].state = "synced" /\ Out(s)[1].t = "full" => Dumps(s) # {}
  BY Zenon DEF StreamFaithful
<1> DEFINE q == Out(s)
           off == slave[s].off
<1>1. q \in Seq(Items(Len(log)))
  BY Zenon, TypesSplit, Lengths, Fields DEF MasterInv, Out
<1>2. Len(q) \in Nat /\ DOMAIN q = 1 .. Len(q) /\ Len(q) # 0
  BY Zenon, <1>1, SeqOver
<1>3. Stream(q, off) /\ (slave[s].state = "synced" /\ q[1].t = "full" => Len(q) >= 2)
  BY DEF MasterInv, SlavesInv, Good, Out
<1>4. Sent(s) = {k \in DOMAIN q : q[k].t = "entry"} /\ Dumps(s) = {k \in DOMAIN q : q[k].t = "snapshot"}
      /\ Base(s) = q[1].n
  BY Zenon DEF Sent, Dumps, Base
<1> HIDE DEF q, off
<1>5. {q[k].n : k \in Sent(s)} = Base(s) + 1 .. off
  <2>1. \A k \in Sent(s) : q[k].n \in Base(s) + 1 .. off
    BY Zenon, <1>3, <1>4 DEF Stream
  <2>2. \A n \in Base(s) + 1 .. off : \E k \in Sent(s) : q[k].n = n
    BY Zenon, <1>3, <1>4 DEF Stream
  <2> QED BY Zenon, <2>1, <2>2
<1>6. \A j, k \in Sent(s) : j < k => q[j].n < q[k].n
  BY Zenon, <1>3, <1>4 DEF Stream
<1>7. \A k \in Dumps(s) : q[k].n = Base(s)
  BY Zenon, <1>3, <1>4 DEF Stream
<1>8. q[1].t = "full" /\ Sent(s) # {} => q[2].t = "snapshot"
  <2> SUFFICES ASSUME q[1].t = "full", NEW k \in Sent(s) PROVE q[2].t = "snapshot"
    OBVIOUS
  <2>1. k \in 1 .. Len(q) /\ k # 1
    BY <1>2, <1>4
  <2>2. Len(q) >= 2
    BY <1>2, <2>1
  <2> QED BY <1>3, <2>2 DEF Stream
<1>9. slave[s].state = "synced" /\ q[1].t = "full" => Dumps(s) # {}
  <2> SUFFICES ASSUME slave[s].state = "synced", q[1].t = "full" PROVE 2 \in Dumps(s)
    OBVIOUS
  <2>1. Len(q) >= 2 /\ q[2].t = "snapshot"
    BY <1>3 DEF Stream
  <2>2. 2 \in DOMAIN q
    BY <1>2, <2>1
  <2> QED BY <1>4, <2>1, <2>2
<1> QED BY Zenon, <1>5, <1>6, <1>7, <1>8, <1>9 DEF q, off

\* And the namespaces.
LEMMA KnownNamespace == MasterInv => NamespaceKnown
<1> SUFFICES ASSUME MasterInv, NEW s \in Slaves, NEW k \in Sent(s)
             PROVE  LET j == Out(s)[k].n
                        full == Out(s)[1].t = "full"
                        selects == {i \in (IF full THEN Base(s) ELSE 0) + 1 .. j :
                                        log[i].k = "select"}
                    IN  log[j].k = "cmd" /\ (full => MadeForSlave(Base(s))) =>
                            \E i \in selects : /\ \A h \in selects : h <= i
                                               /\ log[i].ns = log[j].ns
  BY Zenon DEF NamespaceKnown
<1> DEFINE q == Out(s)
           j == q[k].n
           c == IF q[1].t = "full" THEN Base(s) ELSE 0
           selects == {i \in c + 1 .. j : log[i].k = "select"}
<1>1. q \in Seq(Items(Len(log))) /\ Len(log) \in Nat
  BY Zenon, TypesSplit, Lengths, Fields DEF MasterInv, Out
<1>2. k \in DOMAIN q /\ q[k].t = "entry" /\ Len(q) \in Nat /\ DOMAIN q = 1 .. Len(q) /\ q # << >>
  BY <1>1, SeqOver DEF Sent
<1>3. Stream(q, slave[s].off)
  BY Zenon, <1>2 DEF MasterInv, SlavesInv, Good, Out
<1>4. q[1] \in Items(Len(log)) /\ q[k] \in Items(Len(log)) /\ slave[s].off \in 0 .. Len(log)
  <2>1. 1 \in DOMAIN q
    BY <1>2
  <2>2. q[1] \in Items(Len(log)) /\ q[k] \in Items(Len(log))
    BY Zenon, <1>1, <1>2, <2>1, SeqOver
  <2>3. slave[s].off \in 0 .. Len(log)
    BY Zenon, TypesSplit, Lengths, Fields DEF MasterInv
  <2> QED BY <2>2, <2>3
<1>5. q[1].n \in Nat /\ j \in q[1].n + 1 .. Len(log) /\ Base(s) = q[1].n
  <2>1. j \in q[1].n + 1 .. slave[s].off
    BY Zenon, <1>2, <1>3 DEF Stream
  <2>2. q[1].n \in Nat
    BY <1>1, <1>4 DEF Items
  <2> QED BY <1>1, <1>4, <2>1, <2>2 DEF Base
<1> SUFFICES ASSUME log[j].k = "cmd", q[1].t = "full" => MadeForSlave(Base(s))
             PROVE  \E i \in selects : (\A h \in selects : h <= i) /\ log[i].ns = log[j].ns
  BY Zenon
<1>6. Known(log, cur, c)
  <2>1. CASE q[1].t = "full"
    <3>1. PICK i \in DOMAIN object : object[i].cb = "resync" /\ object[i].off = Base(s)
      BY <2>1 DEF MadeForSlave
    <3> QED BY <2>1, <3>1 DEF MasterInv, LogInv
  <2>2. CASE q[1].t # "full"
    BY <2>2 DEF MasterInv, LogInv
  <2> QED BY <2>1, <2>2
<1> HIDE DEF q
<1>7. c \in Nat /\ j \in c + 1 .. Len(log)
  BY <1>1, <1>5
<1> HIDE DEF j, c
<1>8. PICK i \in c + 1 .. j : /\ log[i].k = "select" /\ log[i].ns = log[j].ns
                              /\ \A h \in i + 1 .. j : log[h].k # "select"
  BY <1>6, <1>7 DEF Known, SelectOf
<1>9. \A h \in selects : h <= i
  BY <1>1, <1>7, <1>8
<1> QED BY <1>8, <1>9

\* Every variable keeps its type: no context refers to a snapshot that was not
\* made or to an offset beyond the log.
THEOREM MasterTypeCorrect == Spec => []TypeOK
<1>1. MasterInv => TypeOK
  BY DEF MasterInv, Types
<1> QED BY <1>1, InitInv, NextInv, PTL DEF Spec

\* What any slave is sent is gapless, for any number of slaves and connections,
\* any backlog, any snapshots made, reused, failed or removed, and restarts
\* (SyncWAL, SendSnapshotToSlave, SyncSlave).
THEOREM StreamFaithfulCorrect == Spec => []StreamFaithful
BY GoodStream, InitInv, NextInv, PTL DEF Spec

\* No slave executes a command in another namespace than its master, for any
\* number of slaves, namespaces, dumps and restarts (ClearCurrentNamespace in
\* SyncSlave, the select of WriteWAL).
THEOREM NamespaceKnownCorrect == Spec => []NamespaceKnown
BY KnownNamespace, InitInv, NextInv, PTL DEF Spec
=============================================================================
