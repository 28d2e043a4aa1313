---------------------------- MODULE SlaveProofs ----------------------------
(***************************************************************************)
(* A slave's data set and log are its master's, for any number of writes,   *)
(* namespaces, broken connections and crashes, and any length of the two    *)
(* backlogs.                                                                *)
(*                                                                          *)
(* SlaveFollows is about a slave at rest, and is kept by what happens       *)
(* before: what is on its way continues where the slave has come to         *)
(* (NetInv, WireInv); a resynchronisation begins in the master's log where  *)
(* a select follows (NewSelect), so that the slave need not know the        *)
(* namespace there; and while it replays, the slave has executed the        *)
(* master's log up to its sync offset (DataInv).  SlaveInv is the           *)
(* conjunction.                                                             *)
(***************************************************************************)
EXTENDS Slave, TLAPS

-----------------------------------------------------------------------------
(* Sequences                                                               *)

\* A sequence over a set is one over every larger set.
LEMMA SeqWiden ==
    ASSUME NEW S, NEW T, S \subseteq T, NEW q \in Seq(S)
    PROVE  q \in Seq(T)
BY SMT

\* What a sequence over a set is.
LEMMA SeqOver ==
    ASSUME NEW S, NEW q \in Seq(S)
    PROVE  /\ Len(q) \in Nat /\ DOMAIN q = 1 .. Len(q) /\ \A i \in DOMAIN q : q[i] \in S
           /\ q = << >> <=> Len(q) = 0
BY SMT

\* A sequence and what Append makes of it.
LEMMA Longer ==
    ASSUME NEW S, NEW q \in Seq(S), NEW x \in S
    PROVE  /\ Append(q, x) \in Seq(S) /\ Append(q, x) # << >>
           /\ Len(q) \in Nat /\ Len(Append(q, x)) = Len(q) + 1
           /\ DOMAIN q = 1 .. Len(q) /\ DOMAIN Append(q, x) = 1 .. Len(q) + 1
           /\ \A i \in DOMAIN q : q[i] \in S /\ Append(q, x)[i] = q[i]
           /\ Append(q, x)[Len(q) + 1] = x
BY SMT

\* A sequence and what Tail leaves of it.
LEMMA Shorter ==
    ASSUME NEW S, NEW q \in Seq(S), q # << >>
    PROVE  /\ Tail(q) \in Seq(S) /\ Head(q) \in S
           /\ Len(q) \in Nat \ {0} /\ Len(Tail(q)) = Len(q) - 1
           /\ DOMAIN q = 1 .. Len(q) /\ DOMAIN Tail(q) = 1 .. Len(q) - 1
           /\ Head(q) = q[1] /\ \A i \in DOMAIN Tail(q) : Tail(q)[i] = q[i + 1]
BY SMT

\* What MasterWrite puts before a command: nothing, or one entry.
LEMMA Concat ==
    ASSUME NEW S, NEW q \in Seq(S), NEW x, NEW y
    PROVE  /\ q \o << >> = q /\ q \o [i \in DOMAIN << >> |-> y] = q
           /\ q \o <<x>> = Append(q, x) /\ q \o [i \in DOMAIN <<x>> |-> y] = Append(q, y)
<1>1. [i \in DOMAIN << >> |-> y] = << >>
  OBVIOUS
<1>2. [i \in DOMAIN <<x>> |-> y] = <<y>>
  OBVIOUS
<1>3. q \o << >> = q /\ q \o <<x>> = Append(q, x) /\ q \o <<y>> = Append(q, y)
  OBVIOUS
<1> QED BY <1>1, <1>2, <1>3

\* An entry comes before the end.
LEMMA Before ==
    ASSUME NEW a \in Nat, NEW b \in Nat, a + 1 \in 1 .. b
    PROVE  a # b
BY SMT

-----------------------------------------------------------------------------
(* The inductive invariant                                                 *)

\* The states in which the slave logs what it receives.
Following == {"loading", "replaying", "synced"}

\* A message of the master.
Message == [t : {"continue", "full", "dump", "entry"}, n : Nat]

\* A command executed by the slave.
Command == [at : Nat, ns : Namespaces \cup {NoNamespace}]

\* The types, with those of what is on its way and of the data set.
Types ==
    /\ TypeOK
    /\ net \in Seq(Message) /\ \A i \in DOMAIN net : net[i].n <= Len(mlog)
    /\ m \in [state : {"none", "waiting", "synced"}, off : Nat]
    /\ db \in Seq(Command)

\* What is logged after the first c entries begins with a select.
NewSelect(log, cur, c) == IF c = Len(log) THEN cur = NoNamespace ELSE log[c + 1].k = "select"

\* Image, of a given history.
ImageOf(w, n) == IF n = 0 THEN << >> ELSE w[n]

\* The master's log: a command follows an entry of its namespace, and the
\* master's data set is what its commands make.
MasterInv ==
    /\ \A n \in DOMAIN mlog : mlog[n].k = "cmd" => n > 1 /\ mlog[n - 1].ns = mlog[n].ns
    /\ mcur # NoNamespace => mlog # << >> /\ mlog[Len(mlog)].ns = mcur
    /\ \A n \in DOMAIN mlog :
         was[n] = IF mlog[n].k = "select" THEN ImageOf(was, n - 1)
                  ELSE Append(ImageOf(was, n - 1), [at |-> n, ns |-> mlog[n].ns])
    /\ First # NoNamespace => mlog # << >>

\* An offset at which the master has begun a full resynchronisation.
Resync(log, cur, c) == NewSelect(log, cur, c) /\ (First # NoNamespace => c > 0)

\* The master's side of the connection, and how it fits what is on its way.
WireInv ==
    /\ st \in {"down", "connecting", "info", "replconf"} =>
         net = << >> /\ m = Disconnected /\ psync = NoPsync
    /\ psync # NoPsync =>
         /\ st = "psync" /\ net = << >> /\ m = Disconnected
         /\ psync.off = WALEnd /\ psync.sum = slog /\ (psync.key = "master" => key = "master")
    /\ net = << >> =>
         /\ m.state = "synced" => st \in Following /\ m.off = WALEnd
         /\ m.state = "waiting" => st = "wait" /\ coff = m.off
    /\ net # << >> =>
         /\ m.state = "synced" => net[Len(net)].t # "full" /\ m.off = net[Len(net)].n
         /\ m.state = "waiting" => net[Len(net)].t = "full" /\ m.off = net[Len(net)].n
    /\ m.state = "waiting" => Resync(mlog, mcur, m.off)

\* What is on its way: a reply, a dump and the log from there on, of which the
\* slave has come to the head.
NetInv ==
    /\ \A i \in DOMAIN net :
         /\ net[i].t \in {"continue", "full"} => i = 1
         /\ net[i].t \in {"full", "dump"} => Resync(mlog, mcur, net[i].n)
         /\ i > 1 /\ net[i].t = "entry" => net[i - 1].t # "full" /\ net[i].n = net[i - 1].n + 1
         /\ i > 1 /\ net[i].t = "dump" => net[i - 1].t = "full" /\ net[i].n = net[i - 1].n
    /\ net # << >> =>
         /\ net[1].t = "continue" => st = "psync" /\ key = "master" /\ net[1].n = WALEnd
         /\ net[1].t = "full" => st = "psync"
         /\ net[1].t = "dump" => st = "wait" /\ net[1].n = coff
         /\ net[1].t = "entry" => st \in Following /\ net[1].n = WALEnd + 1

\* The slave's log and its offsets.
LogInv ==
    /\ LogIsMasters
    /\ NewSelect(mlog, mcur, base)
    /\ slog # << >> => scur = mlog[WALEnd].ns
    /\ st = "wait" => Resync(mlog, mcur, coff)
    /\ st \in {"loading", "replaying"} => base = coff /\ (First # NoNamespace => base > 0)
    /\ st = "replaying" => sync >= base
    /\ st \notin {"replaying", "synced"} => sync = 0
    /\ st = "synced" => sync = WALEnd
    /\ st \in {"replaying", "synced"} => key = "master"
    /\ st = "loading" => key # "master"

\* The data set, and the namespace commands are executed in.
DataInv ==
    /\ key = "master" => \A i \in DOMAIN db : db[i].at # 0
    /\ st \in {"replaying", "synced"} /\ sync > base => wns = mlog[sync].ns
    /\ First # NoNamespace /\ crashes + midCrashes = 0 =>
         /\ st = "replaying" => db = ImageOf(was, sync)
         /\ key = "master" /\ st # "replaying" => db = ImageOf(was, WALEnd)

\* The inductive invariant.
SlaveInv == Types /\ MasterInv /\ WireInv /\ NetInv /\ LogInv /\ DataInv

\* Initially the slave has nothing.
LEMMA InitInv == Init => SlaveInv
<1> SUFFICES ASSUME Init PROVE SlaveInv
  OBVIOUS
<1> USE SlaveAssumption
<1> DEFINE e1 == [k |-> "select", ns |-> First]
           e2 == [k |-> "cmd", ns |-> First]
           r == [at |-> 2, ns |-> First]
<1>1. /\ Len(mlog) \in {0, 2} /\ mlog \in Seq(Entry) /\ Len(was) = Len(mlog)
      /\ DOMAIN mlog = 1 .. Len(mlog)
      /\ First # NoNamespace => Len(mlog) = 2 /\ mlog[1] = e1 /\ mlog[2] = e2 /\ was[1] = << >> /\ was[2] = <<r>>
      /\ First = NoNamespace => Len(mlog) = 0
  <2>1. CASE First = NoNamespace
    BY <2>1 DEF Init
  <2>2. CASE First # NoNamespace
    <3>1. e1 \in Entry /\ e2 \in Entry
      BY <2>2 DEF Entry
    <3>2. mlog = <<e1, e2>> /\ was = << << >>, <<r>> >>
      BY <2>2 DEF Init
    <3> HIDE DEF e1, e2, r
    <3>3. mlog \in Seq(Entry) /\ Len(mlog) = 2 /\ mlog[1] = e1 /\ mlog[2] = e2 /\ DOMAIN mlog = 1 .. 2
      BY <3>1, <3>2
    <3>4. Len(was) = 2 /\ was[1] = << >> /\ was[2] = <<r>>
      BY <3>2
    <3> QED BY <2>2, <3>3, <3>4
  <2> QED BY <2>1, <2>2
<1>2. was \in Seq(Seq([at : 1 .. Len(mlog), ns : Namespaces]))
  <2>1. CASE First = NoNamespace
    BY <2>1 DEF Init
  <2>2. CASE First # NoNamespace
    <3>1. r \in [at : 1 .. Len(mlog), ns : Namespaces]
      BY <1>1, <2>2
    <3> DEFINE R == [at : 1 .. Len(mlog), ns : Namespaces]
    <3> HIDE DEF R, r
    <3>2. << >> \in Seq(R) /\ <<r>> \in Seq(R)
      BY <3>1 DEF R
    <3>3. was = << << >>, <<r>> >>
      BY <2>2 DEF Init, r
    <3>4. was \in Seq(Seq(R))
      <4> DEFINE Q == Seq(R)
                 a == <<r>>
                 b == << >>
      <4>1. a \in Q /\ b \in Q /\ was = <<b, a>>
        BY <3>2, <3>3
      <4> HIDE DEF Q, a, b
      <4> QED BY <4>1 DEF Q
    <3> QED BY <3>4 DEF R
  <2> QED BY <2>1, <2>2
<1>3. Types
  <2>1. /\ slog \in Seq(Entry) /\ net \in Seq(Message) /\ DOMAIN net = {}
        /\ m \in [state : {"none", "waiting", "synced"}, off : Nat]
        /\ Len(slog) = 0 /\ db \in Seq(Command)
    BY DEF Init, Disconnected
  <2> QED BY <1>1, <1>2, <2>1 DEF Init, Types, TypeOK, States, WALEnd, Disconnected
<1>4. MasterInv
  <2>1. First # NoNamespace => Append(<< >>, r) = <<r>>
    OBVIOUS
  <2>2. mlog # << >> <=> Len(mlog) # 0
    BY <1>1
  <2>3. mcur = NoNamespace
    BY DEF Init
  <2>4. \A n \in DOMAIN mlog : mlog[n].k = "cmd" => n > 1 /\ mlog[n - 1].ns = mlog[n].ns
    BY <1>1
  <2>5. ASSUME NEW n \in DOMAIN mlog
        PROVE  was[n] = IF mlog[n].k = "select" THEN ImageOf(was, n - 1)
                        ELSE Append(ImageOf(was, n - 1), [at |-> n, ns |-> mlog[n].ns])
    <3>1. First # NoNamespace /\ n \in {1, 2}
      BY <1>1
    <3>2. CASE n = 1
      BY <1>1, <3>1, <3>2 DEF ImageOf
    <3>3. CASE n = 2
      <4>1. mlog[n] = e2 /\ was[n] = <<r>> /\ ImageOf(was, n - 1) = << >>
        BY <1>1, <3>1, <3>3 DEF ImageOf
      <4>2. [at |-> n, ns |-> mlog[n].ns] = r /\ mlog[n].k # "select"
        BY <3>3, <4>1
      <4> HIDE DEF e1, e2, r
      <4> QED BY <2>1, <3>1, <4>1, <4>2
    <3> QED BY <3>1, <3>2, <3>3
  <2> QED BY <1>1, <2>2, <2>3, <2>4, <2>5 DEF MasterInv
<1>5. WireInv /\ NetInv
  BY DEF Init, WireInv, NetInv, Disconnected, Following
<1>6. LogInv
  <2>1. NewSelect(mlog, mcur, 0)
    BY <1>1 DEF NewSelect, Init
  <2> QED BY <1>1, <2>1 DEF LogInv, Init, LogIsMasters, WALEnd
<1>7. DataInv
  BY DEF DataInv, Init, WALEnd
<1> QED BY <1>3, <1>4, <1>5, <1>6, <1>7 DEF SlaveInv

-----------------------------------------------------------------------------
(* What the proofs of the steps have in common                             *)

\* The logs and their lengths.
LEMMA Lengths ==
    ASSUME Types
    PROVE  /\ Len(mlog) \in Nat /\ DOMAIN mlog = 1 .. Len(mlog) /\ (mlog = << >> <=> Len(mlog) = 0)
           /\ \A i \in DOMAIN mlog : mlog[i] \in Entry
           /\ Len(slog) \in Nat /\ DOMAIN slog = 1 .. Len(slog) /\ (slog = << >> <=> Len(slog) = 0)
           /\ \A i \in DOMAIN slog : slog[i] \in Entry
           /\ base \in Nat /\ WALEnd \in Nat /\ WALEnd = base + Len(slog) /\ WALEnd <= Len(mlog)
           /\ sync \in Nat /\ sync <= WALEnd /\ coff \in Nat /\ coff <= Len(mlog)
           /\ Len(net) \in Nat /\ DOMAIN net = 1 .. Len(net) /\ (net = << >> <=> Len(net) = 0)
           /\ \A i \in DOMAIN net : net[i] \in Message
           /\ crashes \in Nat /\ midCrashes \in Nat
<1>1. mlog \in Seq(Entry) /\ slog \in Seq(Entry) /\ net \in Seq(Message)
  BY DEF Types, TypeOK
<1>2. Len(mlog) \in Nat /\ DOMAIN mlog = 1 .. Len(mlog) /\ (mlog = << >> <=> Len(mlog) = 0)
      /\ \A i \in DOMAIN mlog : mlog[i] \in Entry
  BY <1>1, SeqOver
<1>3. Len(slog) \in Nat /\ DOMAIN slog = 1 .. Len(slog) /\ (slog = << >> <=> Len(slog) = 0)
      /\ \A i \in DOMAIN slog : slog[i] \in Entry
  BY <1>1, SeqOver
<1>4. Len(net) \in Nat /\ DOMAIN net = 1 .. Len(net) /\ (net = << >> <=> Len(net) = 0)
      /\ \A i \in DOMAIN net : net[i] \in Message
  BY <1>1, SeqOver
<1>5. /\ base \in 0 .. Len(mlog) /\ WALEnd <= Len(mlog) /\ sync \in 0 .. WALEnd /\ coff \in 0 .. Len(mlog)
      /\ crashes \in 0 .. MaxCrashes /\ midCrashes \in 0 .. MaxMidCrashes
  BY DEF Types, TypeOK
<1>6. base \in Nat /\ coff \in Nat /\ coff <= Len(mlog) /\ crashes \in Nat /\ midCrashes \in Nat
  BY <1>2, <1>5, SlaveAssumption
<1>7. WALEnd \in Nat /\ WALEnd = base + Len(slog)
  BY <1>3, <1>6 DEF WALEnd
<1>8. sync \in Nat /\ sync <= WALEnd
  BY <1>5, <1>7
<1> QED BY <1>2, <1>3, <1>4, <1>5, <1>6, <1>7, <1>8

\* The master's data set is a sequence of commands of its log.
LEMMA ImageType ==
    ASSUME Types, NEW n \in 0 .. Len(mlog)
    PROVE  ImageOf(was, n) \in Seq([at : 1 .. Len(mlog), ns : Namespaces])
<1>1. was \in Seq(Seq([at : 1 .. Len(mlog), ns : Namespaces])) /\ Len(was) = Len(mlog)
  BY DEF Types, TypeOK
<1> DEFINE Q == Seq([at : 1 .. Len(mlog), ns : Namespaces])
<1>2. << >> \in Q
  OBVIOUS
<1> HIDE DEF Q
<1>3. was \in Seq(Q)
  BY <1>1 DEF Q
<1>4. Len(was) \in Nat /\ DOMAIN was = 1 .. Len(was) /\ \A i \in DOMAIN was : was[i] \in Q
  BY <1>3, SeqOver
<1>5. n # 0 => n \in DOMAIN was
  BY <1>1, <1>4
<1>6. ImageOf(was, n) \in Q
  BY <1>2, <1>4, <1>5 DEF ImageOf
<1> QED BY <1>6 DEF Q

\* What a step of the master may do to its log: what was logged and what the data
\* set was stay, and so does an offset after which a select comes first.
MasterKept ==
    /\ Len(mlog') \in Nat /\ Len(mlog) <= Len(mlog')
    /\ \A i \in DOMAIN mlog : mlog'[i] = mlog[i]
    /\ \A n \in 0 .. Len(mlog) : ImageOf(was', n) = ImageOf(was, n)
    /\ \A c \in 0 .. Len(mlog) : NewSelect(mlog, mcur, c) => NewSelect(mlog', mcur', c)

\* A write of the master (WriteWAL): what it appends to its log and its data set.
LEMMA Written ==
    ASSUME Types, MasterInv, NEW ns \in Namespaces, MasterWrite(ns)
    PROVE  LET L == Len(mlog)
               n == Len(mlog')
               now == ImageOf(was, L)
           IN  /\ n \in {L + 1, L + 2} /\ (n = L + 1 <=> mcur = ns)
               /\ mlog' \in Seq(Entry) /\ \A i \in DOMAIN mlog : mlog'[i] = mlog[i]
               /\ mlog'[n] = [k |-> "cmd", ns |-> ns]
               /\ n = L + 2 => mlog'[L + 1] = [k |-> "select", ns |-> ns] /\ was'[L + 1] = now
               /\ was' \in Seq(Seq([at : 1 .. n, ns : Namespaces])) /\ Len(was') = n
               /\ \A i \in DOMAIN mlog : was'[i] = was[i]
               /\ was'[n] = Append(now, [at |-> n, ns |-> ns])
<1> DEFINE L == Len(mlog)
           now == ImageOf(was, L)
           c == [k |-> "cmd", ns |-> ns]
           s == [k |-> "select", ns |-> ns]
           new == IF mcur = ns THEN << >> ELSE <<s>>
           n == L + Len(new) + 1
           r == [at |-> n, ns |-> ns]
           end == Append(now, r)
           Q == Seq([at : 1 .. n, ns : Namespaces])
<1>1. c \in Entry /\ s \in Entry
  BY DEF Entry
<1>2. L \in Nat /\ DOMAIN mlog = 1 .. L /\ mlog \in Seq(Entry) /\ Len(was) = L
  BY Lengths DEF Types, TypeOK
<1>3. /\ mlog' = Append(mlog \o new, c)
      /\ was' = Append(was \o [i \in DOMAIN new |-> now], end)
  BY DEF MasterWrite, Image, ImageOf
<1>4. n \in {L + 1, L + 2} /\ (n = L + 1 <=> mcur = ns)
  BY <1>2
<1>5. was \in Seq(Q) /\ now \in Q /\ end \in Q
  <2> DEFINE P == [at : 1 .. L, ns : Namespaces]
             R == [at : 1 .. n, ns : Namespaces]
  <2>1. P \subseteq R /\ r \in R
    BY <1>2, <1>4
  <2>2. now \in Seq(P) /\ was \in Seq(Seq(P))
    <3>1. L \in 0 .. Len(mlog)
      BY <1>2
    <3>2. ImageOf(was, L) \in Seq([at : 1 .. Len(mlog), ns : Namespaces])
      BY Zenon, <3>1, ImageType
    <3>3. was \in Seq(Seq([at : 1 .. Len(mlog), ns : Namespaces]))
      BY DEF Types, TypeOK
    <3> QED BY Zenon, <3>2, <3>3
  <2> HIDE DEF P, R, r, now
  <2>3. \A q \in Seq(P) : q \in Seq(R)
    BY <2>1, SeqWiden
  <2>4. Seq(P) \subseteq Seq(R)
    BY <2>3
  <2>5. was \in Seq(Seq(R))
    BY <2>2, <2>4, SeqWiden
  <2>6. now \in Seq(R)
    BY <2>2, <2>4
  <2>7. Append(now, r) \in Seq(R)
    BY <2>1, <2>6, Longer
  <2> QED BY <2>5, <2>6, <2>7 DEF R
<1> HIDE DEF c, s, r, Q, now, end
<1>6. CASE mcur = ns
  <2>1. n = L + 1 /\ new = << >>
    BY <1>2, <1>6
  <2>2. mlog' = Append(mlog, c) /\ was' = Append(was, end)
    BY <1>2, <1>3, <1>5, <2>1, Concat
  <2>3. /\ mlog' \in Seq(Entry) /\ Len(mlog') = L + 1 /\ mlog'[L + 1] = c
        /\ \A i \in DOMAIN mlog : mlog'[i] = mlog[i]
    BY <1>1, <1>2, <2>2, Longer
  <2>4. /\ was' \in Seq(Q) /\ Len(was') = L + 1 /\ was'[L + 1] = end
        /\ \A i \in DOMAIN was : was'[i] = was[i]
    BY <1>2, <1>5, <2>2, Longer
  <2>5. DOMAIN was = DOMAIN mlog
    BY <1>2, <1>5, SeqOver
  <2>6. Len(mlog') = n
    BY <2>1, <2>3
  <2> HIDE DEF n
  <2> QED BY <1>2, <1>4, <2>1, <2>3, <2>4, <2>5, <2>6 DEF c, s, r, end, Q, now
<1>7. CASE mcur # ns
  <2>1. n = L + 2 /\ new = <<s>>
    BY <1>2, <1>7
  <2>2. mlog' = Append(Append(mlog, s), c) /\ was' = Append(Append(was, now), end)
    <3>1. mlog \o <<s>> = Append(mlog, s)
      BY Zenon, <1>2, Concat
    <3>2. was \o <<now>> = Append(was, now)
      BY Zenon, <1>5, Concat
    <3>3. [i \in DOMAIN <<s>> |-> now] = <<now>>
      OBVIOUS
    <3> QED BY Zenon, <1>3, <2>1, <3>1, <3>2, <3>3
  <2> DEFINE q == Append(mlog, s)
             v == Append(was, now)
  <2>3. /\ q \in Seq(Entry) /\ Len(q) = L + 1 /\ q[L + 1] = s /\ DOMAIN q = 1 .. L + 1
        /\ \A i \in DOMAIN mlog : q[i] = mlog[i]
    BY <1>1, <1>2, Longer
  <2>4. /\ v \in Seq(Q) /\ Len(v) = L + 1 /\ v[L + 1] = now /\ DOMAIN v = 1 .. L + 1
        /\ \A i \in DOMAIN was : v[i] = was[i]
    BY <1>2, <1>5, Longer
  <2> HIDE DEF q, v
  <2>5. /\ mlog' \in Seq(Entry) /\ Len(mlog') = L + 2 /\ mlog'[L + 2] = c
        /\ \A i \in DOMAIN q : mlog'[i] = q[i]
    <3>1. /\ mlog' \in Seq(Entry) /\ Len(mlog') = (L + 1) + 1 /\ mlog'[(L + 1) + 1] = c
          /\ \A i \in DOMAIN q : mlog'[i] = q[i]
      BY <1>1, <2>2, <2>3, Longer DEF q
    <3>2. (L + 1) + 1 = L + 2
      BY <1>2
    <3> QED BY <3>1, <3>2
  <2>6. /\ was' \in Seq(Q) /\ Len(was') = L + 2 /\ was'[L + 2] = end
        /\ \A i \in DOMAIN v : was'[i] = v[i]
    <3>1. /\ was' \in Seq(Q) /\ Len(was') = (L + 1) + 1 /\ was'[(L + 1) + 1] = end
          /\ \A i \in DOMAIN v : was'[i] = v[i]
      BY <1>5, <2>2, <2>4, Longer DEF v
    <3>2. (L + 1) + 1 = L + 2
      BY <1>2
    <3> QED BY <3>1, <3>2
  <2>7. DOMAIN was = DOMAIN mlog
    BY <1>2, <1>5, SeqOver
  <2>8. /\ \A i \in DOMAIN mlog : mlog'[i] = mlog[i] /\ was'[i] = was[i]
        /\ mlog'[L + 1] = s /\ was'[L + 1] = now
    <3>1. L + 1 \in DOMAIN q /\ L + 1 \in DOMAIN v
      BY <1>2, <2>3, <2>4
    <3>2. \A i \in DOMAIN mlog : i \in DOMAIN q /\ i \in DOMAIN v
      BY <1>2, <2>3, <2>4
    <3> QED BY Zenon, <2>3, <2>4, <2>5, <2>6, <2>7, <3>1, <3>2
  <2>9. Len(mlog') = n
    BY <2>1, <2>5
  <2> HIDE DEF n
  <2> QED BY <1>2, <1>4, <2>1, <2>5, <2>6, <2>8, <2>9 DEF c, s, r, end, Q, now
<1> QED BY <1>6, <1>7

\* A write keeps what the master's log and data set are.
LEMMA WriteMaster ==
    ASSUME Types, MasterInv, NEW ns \in Namespaces, MasterWrite(ns)
    PROVE  MasterKept /\ MasterInv'
<1> DEFINE L == Len(mlog)
           n == Len(mlog')
<1>1. /\ n \in {L + 1, L + 2} /\ (n = L + 1 <=> mcur = ns)
      /\ mlog' \in Seq(Entry) /\ \A i \in DOMAIN mlog : mlog'[i] = mlog[i]
      /\ mlog'[n] = [k |-> "cmd", ns |-> ns]
      /\ n = L + 2 => mlog'[L + 1] = [k |-> "select", ns |-> ns] /\ was'[L + 1] = ImageOf(was, L)
      /\ \A i \in DOMAIN mlog : was'[i] = was[i]
      /\ was'[n] = Append(ImageOf(was, L), [at |-> n, ns |-> ns])
  BY Zenon, Written
<1>e. /\ mlog'[n].k = "cmd" /\ mlog'[n].ns = ns
      /\ n = L + 2 => mlog'[L + 1].k = "select" /\ mlog'[L + 1].ns = ns
  BY <1>1
<1>n. n \in {L + 1, L + 2} /\ (n = L + 1 <=> mcur = ns)
  BY Zenon, <1>1
<1>i. \A i \in DOMAIN mlog : mlog'[i] = mlog[i]
  BY Zenon, <1>1
<1>2. L \in Nat /\ DOMAIN mlog = 1 .. L /\ (mlog = << >> <=> L = 0) /\ mcur' = ns
  BY Lengths DEF MasterWrite
<1>s. n \in Nat /\ DOMAIN mlog' = 1 .. n /\ (mlog' = << >> <=> n = 0)
  BY <1>1, SeqOver
<1> HIDE DEF L, n
<1>m. n # 0 /\ L <= n
  BY <1>n, <1>2, <1>s
<1>3. n \in Nat /\ DOMAIN mlog' = 1 .. n /\ mlog' # << >>
  BY Zenon, <1>s, <1>m
<1>4. \A i \in 0 .. L : ImageOf(was', i) = ImageOf(was, i)
  BY <1>1, <1>2 DEF ImageOf, L
<1>5. ASSUME NEW c \in 0 .. L, NewSelect(mlog, mcur, c)
      PROVE  NewSelect(mlog', mcur', c)
  <2>1. CASE c = L
    <3>1. mcur = NoNamespace
      BY <1>5, <2>1 DEF NewSelect, L
    <3>2. n = L + 2
      BY <1>n, <1>2, <3>1, SlaveAssumption
    <3>3. mlog'[c + 1].k = "select" /\ c # n
      BY <1>e, <1>2, <2>1, <3>2
    <3> QED BY Zenon, <3>3 DEF NewSelect, n
  <2>2. CASE c # L
    <3>1. mlog[c + 1].k = "select"
      BY <1>5, <2>2 DEF NewSelect, L
    <3>2. c + 1 \in DOMAIN mlog /\ c # n
      BY <1>n, <1>2, <2>2
    <3>3. mlog'[c + 1].k = "select"
      BY <1>1, <3>1, <3>2
    <3> QED BY Zenon, <3>2, <3>3 DEF NewSelect, n
  <2> QED BY <2>1, <2>2
<1>6. MasterKept
  <2>2. \A c \in 0 .. L : NewSelect(mlog, mcur, c) => NewSelect(mlog', mcur', c)
    BY <1>5
  <2>3. \A i \in DOMAIN mlog : mlog'[i] = mlog[i]
    BY <1>1
  <2> QED BY Zenon, <1>3, <1>4, <1>m, <2>2, <2>3 DEF MasterKept, L, n
<1>7. ASSUME NEW i \in DOMAIN mlog', mlog'[i].k = "cmd"
      PROVE  i > 1 /\ mlog'[i - 1].ns = mlog'[i].ns
  <2>1. CASE i \in DOMAIN mlog
    <3>1. mlog[i].k = "cmd" /\ i > 1 /\ mlog[i - 1].ns = mlog[i].ns
      BY <1>1, <1>7, <2>1 DEF MasterInv
    <3>2. i - 1 \in DOMAIN mlog
      BY <1>2, <2>1, <3>1
    <3> QED BY <1>1, <2>1, <3>1, <3>2
  <2>2. CASE i = n /\ n = L + 1
    <3>1. mcur = ns /\ L > 0 /\ mlog[L].ns = mcur
      BY <1>1, <1>2, <2>2, SlaveAssumption DEF MasterInv
    <3>2. L \in DOMAIN mlog /\ i - 1 = L
      BY <1>2, <2>2, <3>1
    <3>3. i > 1 /\ mlog'[i - 1] = mlog[L]
      BY <1>1, <1>2, <2>2, <3>1, <3>2
    <3> QED BY <1>e, <2>2, <3>1, <3>3
  <2>3. CASE i = n /\ n = L + 2
    <3>1. i - 1 = L + 1 /\ i > 1
      BY <1>2, <2>3
    <3> QED BY <1>e, <2>3, <3>1
  <2>4. CASE i = L + 1 /\ n = L + 2
    BY <1>e, <1>7, <2>4
  <2>5. i \in DOMAIN mlog \/ (i = n /\ n = L + 1) \/ (i = n /\ n = L + 2) \/ (i = L + 1 /\ n = L + 2)
    BY <1>n, <1>2, <1>3
  <2> QED BY <2>1, <2>2, <2>3, <2>4, <2>5
<1>8. ASSUME NEW i \in DOMAIN mlog'
      PROVE  was'[i] = IF mlog'[i].k = "select" THEN ImageOf(was', i - 1)
                       ELSE Append(ImageOf(was', i - 1), [at |-> i, ns |-> mlog'[i].ns])
  <2>1. CASE i \in DOMAIN mlog
    <3>1. i - 1 \in 0 .. L
      BY <1>2, <2>1
    <3>2. was[i] = IF mlog[i].k = "select" THEN ImageOf(was, i - 1)
                   ELSE Append(ImageOf(was, i - 1), [at |-> i, ns |-> mlog[i].ns])
      BY <2>1 DEF MasterInv
    <3>3. ImageOf(was', i - 1) = ImageOf(was, i - 1)
      BY <1>4, <3>1
    <3> QED BY <1>1, <2>1, <3>2, <3>3
  <2>2. CASE i = n /\ n = L + 1
    <3>1. i - 1 = L /\ L \in 0 .. L
      BY <1>2, <2>2
    <3>2. ImageOf(was', i - 1) = ImageOf(was, L)
      BY <1>4, <3>1
    <3>3. mlog'[i].k # "select" /\ [at |-> i, ns |-> mlog'[i].ns] = [at |-> n, ns |-> ns]
      BY <1>e, <2>2
    <3>4. was'[i] = Append(ImageOf(was, L), [at |-> n, ns |-> ns])
      BY Zenon, <1>1, <2>2
    <3> QED BY Zenon, <3>2, <3>3, <3>4
  <2>3. CASE i = L + 1 /\ n = L + 2
    <3>1. i - 1 = L /\ L \in 0 .. L
      BY <1>2, <2>3
    <3>2. ImageOf(was', i - 1) = ImageOf(was, L)
      BY <1>4, <3>1
    <3> QED BY Zenon, <1>1, <1>e, <2>3, <3>2
  <2>4. CASE i = n /\ n = L + 2
    <3>1. i - 1 = L + 1 /\ L + 1 # 0
      BY <1>2, <2>4
    <3>2. ImageOf(was', i - 1) = ImageOf(was, L)
      BY <1>1, <2>4, <3>1 DEF ImageOf
    <3>3. mlog'[i].k # "select" /\ [at |-> i, ns |-> mlog'[i].ns] = [at |-> n, ns |-> ns]
      BY <1>e, <2>4
    <3>4. was'[i] = Append(ImageOf(was, L), [at |-> n, ns |-> ns])
      BY Zenon, <1>1, <2>4
    <3> QED BY Zenon, <3>2, <3>3, <3>4
  <2>5. i \in DOMAIN mlog \/ (i = n /\ n = L + 1) \/ (i = n /\ n = L + 2) \/ (i = L + 1 /\ n = L + 2)
    BY <1>n, <1>2, <1>3
  <2> QED BY Zenon, <2>1, <2>2, <2>3, <2>4, <2>5
<1>9. mlog'[Len(mlog')].ns = mcur'
  BY <1>e, <1>2 DEF n
<1> QED BY <1>3, <1>6, <1>7, <1>8, <1>9 DEF MasterInv

\* The types of what the master does not write, and those of its side.
SlaveTypes ==
    /\ slog \in Seq(Entry) /\ {scur, wns} \subseteq Namespaces \cup {NoNamespace}
    /\ st \in States /\ key \in {"self", "random", "lost", "master"}
    /\ base \in 0 .. Len(mlog) /\ WALEnd <= Len(mlog)
    /\ sync \in 0 .. WALEnd /\ coff \in 0 .. Len(mlog)
    /\ cuts \in 0 .. MaxCuts /\ crashes \in 0 .. MaxCrashes /\ midCrashes \in 0 .. MaxMidCrashes
    /\ db \in Seq(Command)
WireTypes ==
    /\ m \in [state : {"none", "waiting", "synced"}, off : Nat] /\ m.off <= Len(mlog)
    /\ net \in Seq(Message) /\ \A i \in DOMAIN net : net[i].n <= Len(mlog)
MasterTypes ==
    /\ mlog \in Seq(Entry) /\ mcur \in Namespaces \cup {NoNamespace}
    /\ was \in Seq(Seq([at : 1 .. Len(mlog), ns : Namespaces])) /\ Len(was) = Len(mlog)

\* The types, by whom they are about.
LEMMA TypesSplit == Types <=> SlaveTypes /\ WireTypes /\ MasterTypes
<1>1. ASSUME mlog \in Seq(Entry) PROVE Len(mlog) \in Nat
  BY <1>1
<1>2. Types => SlaveTypes /\ MasterTypes
  BY DEF Types, TypeOK, SlaveTypes, MasterTypes
<1>3. Types => WireTypes
  <2> SUFFICES ASSUME Types PROVE WireTypes
    OBVIOUS
  <2>1. Len(mlog) \in Nat
    BY <1>1 DEF Types, TypeOK
  <2>2. /\ m \in [state : {"none", "waiting", "synced"}, off : Nat] /\ m.off \in 0 .. Len(mlog)
        /\ net \in Seq(Message) /\ \A i \in DOMAIN net : net[i].n <= Len(mlog)
    BY DEF Types, TypeOK
  <2> HIDE DEF Message
  <2>3. m.off <= Len(mlog)
    BY <2>1, <2>2
  <2> QED BY Zenon, <2>2, <2>3 DEF WireTypes
<1>4. SlaveTypes /\ WireTypes /\ MasterTypes => Types
  <2> SUFFICES ASSUME SlaveTypes, WireTypes, MasterTypes PROVE Types
    OBVIOUS
  <2>1. Len(mlog) \in Nat
    BY <1>1 DEF MasterTypes
  <2>2. m.state \in {"none", "waiting", "synced"} /\ m.off \in Nat /\ m.off <= Len(mlog)
    BY DEF WireTypes
  <2>3. m.off \in 0 .. Len(mlog)
    BY <2>1, <2>2
  <2>4. {mcur, scur, wns} \subseteq Namespaces \cup {NoNamespace}
    BY DEF SlaveTypes, MasterTypes
  <2>5. TypeOK
    BY Zenon, <2>2, <2>3, <2>4 DEF TypeOK, SlaveTypes, MasterTypes
  <2> QED BY Zenon, <2>5 DEF Types, SlaveTypes, WireTypes
<1> QED BY <1>2, <1>3, <1>4

\* The same after a step.
LEMMA NextTypes == SlaveTypes' /\ WireTypes' /\ MasterTypes' => Types'
BY TypesSplit, PTL

\* A step of the master's side leaves what the slave has in order.
LEMMA SlaveSide ==
    ASSUME SlaveInv, MasterKept, UNCHANGED <<st, slaveLog, place, data, counts>>
    PROVE  SlaveTypes' /\ LogInv' /\ DataInv'
<1> USE DEF slaveLog, place, data, counts
<1> DEFINE L == Len(mlog)
           N == Len(mlog')
<1>1. /\ L \in Nat /\ DOMAIN mlog = 1 .. L
      /\ Len(slog) \in Nat /\ DOMAIN slog = 1 .. Len(slog) /\ (slog = << >> <=> Len(slog) = 0)
      /\ base \in Nat /\ WALEnd \in Nat /\ WALEnd = base + Len(slog) /\ WALEnd <= L
      /\ sync \in Nat /\ sync <= WALEnd /\ coff \in Nat /\ coff <= L
  BY Zenon, Lengths DEF SlaveInv
<1>2. /\ N \in Nat /\ L <= N /\ \A i \in DOMAIN mlog : mlog'[i] = mlog[i]
      /\ \A n \in 0 .. L : ImageOf(was', n) = ImageOf(was, n)
      /\ \A c \in 0 .. L : NewSelect(mlog, mcur, c) => NewSelect(mlog', mcur', c)
  BY Zenon DEF MasterKept
<1>3. WALEnd' = WALEnd
  BY DEF WALEnd
<1>4. SlaveTypes
  BY TypesSplit DEF SlaveInv
<1> HIDE DEF L, N
<1>5. SlaveTypes'
  <2>1. base \in 0 .. N /\ WALEnd <= N /\ coff \in 0 .. N
    BY <1>1, <1>2
  <2> QED BY Zenon, <1>3, <1>4, <2>1 DEF SlaveTypes, N
<1>6. LogInv'
  <2>1. LogIsMasters'
    <3>1. WALEnd <= N
      BY <1>1, <1>2
    <3>2. ASSUME NEW i \in DOMAIN slog PROVE slog[i] = mlog'[base + i]
      <4>1. slog[i] = mlog[base + i]
        BY DEF SlaveInv, LogInv, LogIsMasters
      <4>2. base + i \in DOMAIN mlog
        BY <1>1
      <4> QED BY <1>2, <4>1, <4>2
    <3> QED BY Zenon, <1>3, <3>1, <3>2 DEF LogIsMasters, N
  <2>2. NewSelect(mlog', mcur', base)
    <3>1. base \in 0 .. L
      BY <1>1
    <3> QED BY Zenon, <1>2, <3>1 DEF SlaveInv, LogInv
  <2>3. slog # << >> => scur = mlog'[WALEnd].ns
    <3>1. slog # << >> => WALEnd \in DOMAIN mlog
      BY <1>1
    <3> QED BY <1>2, <3>1 DEF SlaveInv, LogInv
  <2>4. st = "wait" => Resync(mlog', mcur', coff)
    <3>1. coff \in 0 .. L
      BY <1>1
    <3> QED BY Zenon, <1>2, <3>1 DEF SlaveInv, LogInv, Resync
  <2> QED BY Zenon, <1>3, <2>1, <2>2, <2>3, <2>4 DEF SlaveInv, LogInv
<1>7. DataInv'
  <2>1. sync > base => mlog'[sync] = mlog[sync]
    <3>1. sync > base => sync \in DOMAIN mlog
      BY <1>1
    <3> QED BY <1>2, <3>1
  <2>2. ImageOf(was', sync) = ImageOf(was, sync) /\ ImageOf(was', WALEnd) = ImageOf(was, WALEnd)
    <3>1. sync \in 0 .. L /\ WALEnd \in 0 .. L
      BY <1>1
    <3> QED BY Zenon, <1>2, <3>1
  <2> QED BY Zenon, <1>3, <2>1, <2>2 DEF SlaveInv, DataInv
<1> QED BY <1>5, <1>6, <1>7

-----------------------------------------------------------------------------
(* The master's steps                                                      *)

\* What the master sends comes last.
LEMMA Sent ==
    ASSUME Types, NEW x \in Message, x.n <= Len(mlog), net' = Append(net, x)
    PROVE  /\ net' \in Seq(Message) /\ \A i \in DOMAIN net' : net'[i].n <= Len(mlog)
           /\ Len(net) \in Nat /\ DOMAIN net = 1 .. Len(net) /\ (net = << >> <=> Len(net) = 0)
           /\ net' # << >> /\ Len(net') = Len(net) + 1 /\ DOMAIN net' = 1 .. Len(net')
           /\ net'[Len(net')] = x /\ \A i \in DOMAIN net : net'[i] = net[i]
<1>1. net \in Seq(Message) /\ \A i \in DOMAIN net : net[i].n <= Len(mlog)
  BY DEF Types
<1> HIDE DEF Message
<1>2. /\ net' \in Seq(Message) /\ net' # << >>
      /\ Len(net) \in Nat /\ Len(net') = Len(net) + 1
      /\ DOMAIN net = 1 .. Len(net) /\ DOMAIN net' = 1 .. Len(net) + 1
      /\ \A i \in DOMAIN net : net'[i] = net[i]
      /\ net'[Len(net) + 1] = x
  BY <1>1, Longer
<1>3. net = << >> <=> Len(net) = 0
  BY <1>1, SeqOver
<1>4. \A i \in DOMAIN net' : i \in DOMAIN net \/ i = Len(net) + 1
  BY <1>2
<1>5. \A i \in DOMAIN net' : net'[i].n <= Len(mlog)
  BY Zenon, <1>1, <1>2, <1>4
<1> QED BY Zenon, <1>2, <1>3, <1>5

\* A step that does not write leaves the master's log as it is.
LEMMA MasterStays ==
    ASSUME Types, MasterInv, UNCHANGED <<mlog, was>>, mcur' \in {mcur, NoNamespace}
    PROVE  MasterKept /\ MasterInv' /\ MasterTypes'
<1>1. Len(mlog) \in Nat
  BY Lengths
<1>2. \A c \in 0 .. Len(mlog) : NewSelect(mlog, mcur, c) => NewSelect(mlog', mcur', c)
  BY DEF NewSelect
<1>3. MasterKept
  BY <1>1, <1>2 DEF MasterKept
<1>4. MasterInv'
  BY Zenon DEF MasterInv
<1>5. MasterTypes'
  <2>1. MasterTypes
    BY TypesSplit
  <2>2. mcur' \in Namespaces \cup {NoNamespace}
    BY <2>1 DEF MasterTypes
  <2> QED BY Zenon, <2>1, <2>2 DEF MasterTypes
<1> QED BY <1>3, <1>4, <1>5

\* A write of the master.
LEMMA MasterWriteInv ==
    ASSUME SlaveInv, NEW ns \in Namespaces, MasterWrite(ns)
    PROVE  SlaveInv'
<1>1. MasterKept /\ MasterInv'
  BY Zenon, WriteMaster DEF SlaveInv
<1>2. UNCHANGED <<wire, st, slaveLog, place, data, counts>>
  BY DEF MasterWrite
<1>3. SlaveTypes' /\ LogInv' /\ DataInv'
  BY <1>1, <1>2, SlaveSide
<1>4. MasterTypes'
  <2>1. /\ mlog' \in Seq(Entry) /\ Len(was') = Len(mlog')
        /\ was' \in Seq(Seq([at : 1 .. Len(mlog'), ns : Namespaces]))
    BY Zenon, Written DEF SlaveInv
  <2>2. mcur' \in Namespaces \cup {NoNamespace}
    BY DEF MasterWrite
  <2> QED BY Zenon, <2>1, <2>2 DEF MasterTypes
<1> DEFINE L == Len(mlog)
           N == Len(mlog')
<1>5. /\ L \in Nat /\ N \in Nat /\ L <= N
      /\ \A c \in 0 .. L : NewSelect(mlog, mcur, c) => NewSelect(mlog', mcur', c)
  BY Zenon, <1>1, Lengths DEF MasterKept, SlaveInv
<1>6. /\ m \in [state : {"none", "waiting", "synced"}, off : Nat] /\ m.off <= L
      /\ net \in Seq(Message) /\ \A i \in DOMAIN net : net[i] \in Message /\ net[i].n <= L
  BY Zenon, TypesSplit, Lengths DEF SlaveInv, WireTypes
<1> HIDE DEF L, N
<1>7. m.off \in 0 .. L /\ m.off <= N
  BY <1>5, <1>6
<1>8. ASSUME NEW i \in DOMAIN net PROVE net[i].n \in 0 .. L /\ net[i].n <= N
  <2>1. net[i].n \in Nat /\ net[i].n <= L
    BY <1>6 DEF Message
  <2> QED BY <1>5, <2>1
<1>9. WireTypes'
  BY Zenon, <1>2, <1>6, <1>7, <1>8 DEF WireTypes, wire, N
<1>10. WALEnd' = WALEnd
  BY <1>2 DEF WALEnd, slaveLog
<1>11. WireInv'
  BY Zenon, <1>2, <1>5, <1>7, <1>10 DEF SlaveInv, WireInv, Resync, wire, slaveLog, place
<1>12. NetInv'
  BY Zenon, <1>2, <1>5, <1>8, <1>10 DEF SlaveInv, NetInv, Resync, wire, slaveLog, place
<1> QED BY <1>1, <1>3, <1>4, <1>9, <1>11, <1>12, NextTypes DEF SlaveInv

\* SyncSlave answers psync.
LEMMA MasterPsyncInv ==
    ASSUME SlaveInv, MasterPsync
    PROVE  SlaveInv'
<1>1. /\ psync # NoPsync /\ psync' = NoPsync
      /\ UNCHANGED <<mlog, was>> /\ mcur' \in {mcur, NoNamespace}
      /\ UNCHANGED <<st, slaveLog, place, data, counts>>
  BY DEF MasterPsync
<1>2. MasterKept /\ MasterInv' /\ MasterTypes'
  BY Zenon, <1>1, MasterStays DEF SlaveInv
<1>3. SlaveTypes' /\ LogInv' /\ DataInv'
  BY Zenon, <1>1, <1>2, SlaveSide
<1>4. /\ st = "psync" /\ net = << >> /\ m = Disconnected
      /\ psync.off = WALEnd /\ (psync.key = "master" => key = "master")
  BY Zenon, <1>1 DEF SlaveInv, WireInv
<1>5. Len(mlog) \in Nat /\ WALEnd \in Nat /\ WALEnd <= Len(mlog) /\ (mlog = << >> <=> Len(mlog) = 0)
  BY Zenon, Lengths DEF SlaveInv
<1>6. WALEnd' = WALEnd /\ st' = st /\ key' = key /\ coff' = coff
  BY <1>1 DEF WALEnd, slaveLog, place
<1>7. CASE m' = [state |-> "synced", off |-> psync.off] /\ net' = Append(net, Msg("continue", psync.off)) /\ psync.key = "master"
  <2> DEFINE x == Msg("continue", WALEnd)
  <2>1. x \in Message /\ x.n = WALEnd /\ x.t = "continue"
    BY <1>5 DEF Msg, Message
  <2>2. m'.state = "synced" /\ m'.off = WALEnd /\ m' \in [state : {"none", "waiting", "synced"}, off : Nat]
    BY <1>4, <1>5, <1>7
  <2>3. net' = Append(net, x)
    BY <1>4, <1>7
  <2> HIDE DEF x
  <2>4. /\ net' \in Seq(Message) /\ \A i \in DOMAIN net' : net'[i].n <= Len(mlog)
        /\ net' # << >> /\ Len(net') = Len(net) + 1 /\ DOMAIN net' = 1 .. Len(net') /\ net'[Len(net')] = x /\ Len(net) = 0
    BY Zenon, <1>4, <1>5, <2>1, <2>3, Sent DEF SlaveInv
  <2>5. Len(net') = 1 /\ DOMAIN net' = {1} /\ net'[1] = x
    BY <2>4
  <2>6. WireTypes'
    BY Zenon, <1>1, <1>5, <2>2, <2>4 DEF WireTypes
  <2>7. WireInv'
    BY <1>1, <1>4, <1>6, <2>1, <2>2, <2>4, <2>5 DEF WireInv
  <2>8. NetInv'
    BY <1>4, <1>6, <1>7, <2>1, <2>5 DEF NetInv
  <2> QED BY <1>2, <1>3, <2>6, <2>7, <2>8, NextTypes DEF SlaveInv
<1>8. CASE m' = [state |-> "waiting", off |-> Len(mlog)] /\ net' = Append(net, Msg("full", Len(mlog))) /\ mcur' = NoNamespace
  <2> DEFINE x == Msg("full", Len(mlog))
             L == Len(mlog)
  <2>1. x \in Message /\ x.n = L /\ x.t = "full" /\ L <= L
    BY <1>5 DEF Msg, Message
  <2>2. m'.state = "waiting" /\ m'.off = L /\ m' \in [state : {"none", "waiting", "synced"}, off : Nat]
    BY <1>5, <1>8
  <2>3. net' = Append(net, x)
    BY <1>8
  <2> HIDE DEF x
  <2>4. /\ net' \in Seq(Message) /\ \A i \in DOMAIN net' : net'[i].n <= Len(mlog)
        /\ net' # << >> /\ Len(net') = Len(net) + 1 /\ DOMAIN net' = 1 .. Len(net') /\ net'[Len(net')] = x /\ Len(net) = 0
    BY Zenon, <1>4, <2>1, <2>3, Sent DEF SlaveInv
  <2>5. Len(net') = 1 /\ DOMAIN net' = {1} /\ net'[1] = x
    BY <2>4
  <2>6. WireTypes'
    BY Zenon, <1>1, <2>1, <2>2, <2>4 DEF WireTypes
  <2>7. Resync(mlog', mcur', L)
    <3>1. First # NoNamespace => L > 0
      BY <1>5 DEF SlaveInv, MasterInv
    <3> QED BY <1>1, <1>8, <3>1 DEF Resync, NewSelect
  <2> HIDE DEF L
  <2>8. WireInv'
    BY <1>1, <1>4, <1>6, <2>1, <2>2, <2>4, <2>5, <2>7 DEF WireInv
  <2>9. NetInv'
    BY <1>4, <1>6, <2>1, <2>5, <2>7 DEF NetInv
  <2> QED BY <1>2, <1>3, <2>6, <2>8, <2>9, NextTypes DEF SlaveInv
<1> QED BY <1>7, <1>8 DEF MasterPsync

\* The places of a sequence that has grown by one.
LEMMA LastPlace ==
    ASSUME NEW k \in Nat \ {0}, NEW i \in 1 .. k + 1
    PROVE  /\ i = k + 1 \/ i \in 1 .. k
           /\ i = k + 1 => i - 1 = k /\ k \in 1 .. k /\ i > 1
           /\ i \in 1 .. k /\ i > 1 => i - 1 \in 1 .. k
  OBVIOUS

\* What the master sends after its reply continues what is on its way.
LEMMA NetGrows ==
    ASSUME SlaveInv, UNCHANGED <<mlog, mcur, st, slaveLog, place>>,
           NEW x \in Message, x.n <= Len(mlog), net' = Append(net, x),
           x.t \in {"dump", "entry"}, x.t = "dump" => Resync(mlog, mcur, x.n),
           net = << >> => /\ x.t = "dump" => st = "wait" /\ x.n = coff
                          /\ x.t = "entry" => st \in Following /\ x.n = WALEnd + 1,
           net # << >> => /\ x.t = "dump" => net[Len(net)].t = "full" /\ x.n = net[Len(net)].n
                          /\ x.t = "entry" => net[Len(net)].t # "full" /\ x.n = net[Len(net)].n + 1
    PROVE  NetInv'
<1>1. WALEnd' = WALEnd /\ st' = st /\ key' = key /\ coff' = coff /\ mlog' = mlog /\ mcur' = mcur
  BY DEF WALEnd, slaveLog, place
<1>2. /\ Len(net) \in Nat /\ DOMAIN net = 1 .. Len(net) /\ (net = << >> <=> Len(net) = 0)
      /\ net' # << >> /\ Len(net') = Len(net) + 1 /\ DOMAIN net' = 1 .. Len(net')
      /\ net'[Len(net')] = x /\ \A i \in DOMAIN net : net'[i] = net[i]
  BY Zenon, Sent DEF SlaveInv
<1>3. CASE net = << >>
  <2>1. DOMAIN net' = {1} /\ net'[1] = x
    BY <1>2, <1>3
  <2> QED BY <1>1, <1>3, <2>1 DEF NetInv
<1>4. CASE net # << >>
  <2> DEFINE k == Len(net)
  <2>1. /\ x.t = "dump" => net[k].t = "full" /\ x.n = net[k].n
        /\ x.t = "entry" => net[k].t # "full" /\ x.n = net[k].n + 1
    BY <1>4
  <2> HIDE DEF k
  <2>2. k \in Nat \ {0} /\ DOMAIN net = 1 .. k /\ DOMAIN net' = 1 .. k + 1 /\ net'[k + 1] = x
    BY <1>2, <1>4 DEF k
  <2>3. ASSUME NEW i \in DOMAIN net'
        PROVE  /\ net'[i].t \in {"continue", "full"} => i = 1
               /\ net'[i].t \in {"full", "dump"} => Resync(mlog', mcur', net'[i].n)
               /\ i > 1 /\ net'[i].t = "entry" => net'[i - 1].t # "full" /\ net'[i].n = net'[i - 1].n + 1
               /\ i > 1 /\ net'[i].t = "dump" => net'[i - 1].t = "full" /\ net'[i].n = net'[i - 1].n
    <3>1. CASE i = k + 1
      <4>1. i - 1 = k /\ k \in DOMAIN net /\ i > 1
        BY Zenon, <2>2, <3>1, LastPlace
      <4>2. net'[i] = x /\ net'[i - 1] = net[k]
        BY Zenon, <1>2, <2>2, <3>1, <4>1
      <4>3. x.t \notin {"continue", "full"}
        OBVIOUS
      <4>4. x.t \in {"full", "dump"} => x.t = "dump"
        BY <4>3
      <4>5. net'[i].t = x.t /\ net'[i].n = x.n
        BY Zenon, <4>2
      <4> QED BY Zenon, <1>1, <2>1, <4>1, <4>2, <4>3, <4>4, <4>5
    <3>2. CASE i \in DOMAIN net
      <4>1. i > 1 => i - 1 \in DOMAIN net
        BY Zenon, <2>2, <3>2, LastPlace
      <4>2. net'[i] = net[i] /\ (i > 1 => net'[i - 1] = net[i - 1])
        BY Zenon, <1>2, <3>2, <4>1
      <4> QED BY Zenon, <1>1, <3>2, <4>2 DEF SlaveInv, NetInv
    <3>3. i = k + 1 \/ i \in DOMAIN net
      BY Zenon, <2>2, LastPlace
    <3> QED BY Zenon, <3>1, <3>2, <3>3
  <2>4. net'[1] = net[1]
    BY <1>2, <2>2
  <2> QED BY Zenon, <1>1, <1>4, <2>3, <2>4 DEF SlaveInv, NetInv
<1> QED BY <1>3, <1>4

\* The dump goes out.
LEMMA MasterDumpInv ==
    ASSUME SlaveInv, MasterDump
    PROVE  SlaveInv'
<1>1. /\ m.state = "waiting" /\ m' = [m EXCEPT !.state = "synced"] /\ net' = Append(net, Msg("dump", m.off))
      /\ UNCHANGED <<mlog, was, mcur, psync>> /\ UNCHANGED <<st, slaveLog, place, data, counts>>
  BY DEF MasterDump, master
<1>2. MasterKept /\ MasterInv' /\ MasterTypes'
  BY Zenon, <1>1, MasterStays DEF SlaveInv
<1>3. SlaveTypes' /\ LogInv' /\ DataInv'
  BY Zenon, <1>1, <1>2, SlaveSide
<1>4. WireTypes /\ Types
  BY Zenon, TypesSplit DEF SlaveInv
<1> DEFINE x == Msg("dump", m.off)
<1>5. /\ x \in Message /\ x.n = m.off /\ x.t = "dump" /\ m.off <= Len(mlog)
      /\ m'.state = "synced" /\ m'.off = m.off /\ m' \in [state : {"none", "waiting", "synced"}, off : Nat]
  BY <1>1, <1>4 DEF WireTypes, Msg, Message
<1>6. net' = Append(net, x)
  BY <1>1
<1> HIDE DEF x
<1>7. /\ net' \in Seq(Message) /\ \A i \in DOMAIN net' : net'[i].n <= Len(mlog)
      /\ net' # << >> /\ net'[Len(net')] = x
  BY Zenon, <1>4, <1>5, <1>6, Sent
<1>8. WireTypes'
  BY Zenon, <1>1, <1>5, <1>7 DEF WireTypes
<1>9. psync = NoPsync /\ st \notin {"down", "connecting", "info", "replconf"}
  BY <1>1 DEF SlaveInv, WireInv, Disconnected
<1>10. WireInv'
  BY <1>1, <1>5, <1>7, <1>9 DEF WireInv, slaveLog, place
<1>11. /\ Resync(mlog, mcur, m.off)
       /\ net = << >> => st = "wait" /\ m.off = coff
       /\ net # << >> => net[Len(net)].t = "full" /\ m.off = net[Len(net)].n
  BY <1>1 DEF SlaveInv, WireInv
<1>12. NetInv'
  BY <1>1, <1>5, <1>6, <1>11, NetGrows
<1> QED BY <1>2, <1>3, <1>8, <1>10, <1>12, NextTypes DEF SlaveInv

\* SyncWAL of the master.
LEMMA MasterSyncInv ==
    ASSUME SlaveInv, MasterSync
    PROVE  SlaveInv'
<1>1. /\ m.state = "synced" /\ m.off < Len(mlog)
      /\ UNCHANGED <<mlog, was, mcur, psync>> /\ UNCHANGED <<st, slaveLog, place, data, counts>>
  BY DEF MasterSync, master
<1>2. MasterKept /\ MasterInv' /\ MasterTypes'
  BY Zenon, <1>1, MasterStays DEF SlaveInv
<1>3. SlaveTypes' /\ LogInv' /\ DataInv'
  BY Zenon, <1>1, <1>2, SlaveSide
<1>4. WireTypes /\ Types /\ Len(mlog) \in Nat
  BY Zenon, TypesSplit, Lengths DEF SlaveInv
<1>5. psync = NoPsync /\ st \notin {"down", "connecting", "info", "replconf"}
  BY <1>1 DEF SlaveInv, WireInv, Disconnected
<1>6. CASE m' = Disconnected /\ net' = net
  <2>1. m'.state = "none" /\ m'.off = 0 /\ m' \in [state : {"none", "waiting", "synced"}, off : Nat] /\ 0 <= Len(mlog)
    BY <1>4, <1>6 DEF Disconnected
  <2>2. WireTypes'
    BY Zenon, <1>1, <1>4, <1>6, <2>1 DEF WireTypes
  <2>3. WireInv'
    BY <1>1, <1>5, <1>6, <2>1 DEF WireInv, slaveLog, place
  <2>4. NetInv'
    BY Zenon, <1>1, <1>6 DEF SlaveInv, NetInv, WALEnd, slaveLog, place
  <2> QED BY <1>2, <1>3, <2>2, <2>3, <2>4, NextTypes DEF SlaveInv
<1>7. CASE m' = [m EXCEPT !.off = @ + 1] /\ net' = Append(net, Msg("entry", m.off + 1))
  <2> DEFINE x == Msg("entry", m.off + 1)
  <2>1. /\ x \in Message /\ x.n = m.off + 1 /\ x.t = "entry" /\ m.off + 1 <= Len(mlog)
        /\ m'.state = "synced" /\ m'.off = m.off + 1 /\ m' \in [state : {"none", "waiting", "synced"}, off : Nat]
    BY <1>1, <1>4, <1>7 DEF WireTypes, Msg, Message
  <2>2. net' = Append(net, x)
    BY <1>7
  <2> HIDE DEF x
  <2>3. /\ net' \in Seq(Message) /\ \A i \in DOMAIN net' : net'[i].n <= Len(mlog)
        /\ net' # << >> /\ net'[Len(net')] = x
    BY Zenon, <1>4, <2>1, <2>2, Sent
  <2>4. WireTypes'
    BY Zenon, <1>1, <2>1, <2>3 DEF WireTypes
  <2>5. WireInv'
    BY <1>1, <1>5, <2>1, <2>3 DEF WireInv, slaveLog, place
  <2>6. /\ net = << >> => st \in Following /\ m.off + 1 = WALEnd + 1
        /\ net # << >> => net[Len(net)].t # "full" /\ m.off + 1 = net[Len(net)].n + 1
    BY Zenon, <1>1 DEF SlaveInv, WireInv
  <2>7. NetInv'
    BY <1>1, <2>1, <2>2, <2>6, NetGrows
  <2> QED BY <1>2, <1>3, <2>4, <2>5, <2>7, NextTypes DEF SlaveInv
<1> QED BY <1>6, <1>7 DEF MasterSync

-----------------------------------------------------------------------------
(* The slave's steps                                                       *)

\* The handshake, up to psync.
LEMMA ConnectInv ==
    ASSUME SlaveInv, ConnectMaster \/ ChannelConnected \/ HandleInfoReply \/ HandleReplconfReply
    PROVE  SlaveInv'
<1>1. /\ st \in {"down", "connecting", "info", "replconf"} /\ st' \in {"connecting", "info", "replconf", "psync"}
      /\ UNCHANGED <<mlog, was, mcur, m, net>> /\ UNCHANGED <<slaveLog, place, data, counts>>
      /\ \/ psync' = psync
         \/ /\ st' = "psync" /\ psync'.off = WALEnd /\ psync'.sum = slog
            /\ psync'.key = "master" => key = "master"
  BY DEF ConnectMaster, ChannelConnected, HandleInfoReply, HandleReplconfReply, master, wire
<1>2. net = << >> /\ m = Disconnected /\ psync = NoPsync
  BY <1>1 DEF SlaveInv, WireInv
<1>3. MasterInv' /\ MasterTypes'
  BY Zenon, <1>1, MasterStays DEF SlaveInv
<1>4. WireTypes /\ SlaveTypes
  BY Zenon, TypesSplit DEF SlaveInv
<1>5. WALEnd' = WALEnd
  BY <1>1 DEF WALEnd, slaveLog
<1>6. WireTypes'
  BY Zenon, <1>1, <1>4 DEF WireTypes
<1>7. SlaveTypes'
  <2>1. st' \in States
    BY <1>1 DEF States
  <2> QED BY Zenon, <1>1, <1>4, <1>5, <2>1 DEF SlaveTypes, slaveLog, place, data, counts
<1>8. m.state = "none"
  BY <1>2 DEF Disconnected
<1>9. WireInv'
  BY <1>1, <1>2, <1>5, <1>8 DEF WireInv, slaveLog
<1>10. NetInv'
  <2>1. DOMAIN net' = {} /\ net' = << >>
    BY <1>1, <1>2
  <2> QED BY Zenon, <2>1 DEF NetInv
<1>11. LogInv'
  BY <1>1, <1>5 DEF SlaveInv, LogInv, LogIsMasters, slaveLog, place
<1>12. DataInv'
  BY <1>1, <1>5 DEF SlaveInv, DataInv, slaveLog, place, data, counts
<1> QED BY <1>3, <1>6, <1>7, <1>9, <1>10, <1>11, <1>12, NextTypes DEF SlaveInv

\* What is left of what is on its way when the first message has been read.
LEMMA Received ==
    ASSUME SlaveInv, net # << >>, net' = Tail(net), UNCHANGED <<mlog, was, mcur, m>>
    PROVE  /\ WireTypes' /\ Head(net) = net[1] /\ Head(net) \in Message /\ Head(net).n <= Len(mlog)
           /\ Len(net) \in Nat \ {0} /\ 1 \in DOMAIN net
           /\ \A i \in DOMAIN net' :
                /\ net'[i].t \notin {"continue", "full"}
                /\ net'[i].t = "dump" => Resync(mlog', mcur', net'[i].n)
                /\ i > 1 /\ net'[i].t = "entry" => net'[i - 1].t # "full" /\ net'[i].n = net'[i - 1].n + 1
                /\ i > 1 /\ net'[i].t = "dump" => net'[i - 1].t = "full" /\ net'[i].n = net'[i - 1].n
           /\ net' # << >> =>
                /\ net'[1].t \in {"entry", "dump"}
                /\ net'[1].t = "entry" => net[1].t # "full" /\ net'[1].n = net[1].n + 1
                /\ net'[1].t = "dump" => net[1].t = "full" /\ net'[1].n = net[1].n
                /\ net'[Len(net')] = net[Len(net)]
           /\ net' = << >> => net[Len(net)] = net[1]
<1>1. Types /\ WireTypes /\ net \in Seq(Message)
  BY Zenon, TypesSplit DEF SlaveInv, WireTypes
<1>2. /\ net' \in Seq(Message) /\ Head(net) \in Message
      /\ Len(net) \in Nat \ {0} /\ Len(net') = Len(net) - 1
      /\ DOMAIN net = 1 .. Len(net) /\ DOMAIN net' = 1 .. Len(net) - 1
      /\ Head(net) = net[1] /\ \A i \in DOMAIN net' : net'[i] = net[i + 1]
  BY Zenon, <1>1, Shorter
<1>3. (net' = << >> <=> Len(net') = 0) /\ \A i \in DOMAIN net' : net'[i] \in Message
  BY Zenon, <1>2, SeqOver
<1> DEFINE k == Len(net)
           j == Len(net')
<1> HIDE DEF k, j
<1>4. /\ k \in Nat \ {0} /\ j = k - 1 /\ DOMAIN net = 1 .. k /\ DOMAIN net' = 1 .. k - 1
      /\ (net' = << >> <=> j = 0)
  BY Zenon, <1>2, <1>3 DEF k, j
<1>5. \A i \in DOMAIN net' : i + 1 \in DOMAIN net /\ i + 1 > 1 /\ i \in DOMAIN net
  BY <1>4
<1>6. 1 \in DOMAIN net
  BY <1>4
<1>7. \A i \in DOMAIN net : net[i].n <= Len(mlog)
  BY <1>1 DEF WireTypes
<1>8. WireTypes'
  <2>1. \A i \in DOMAIN net' : net'[i].n <= Len(mlog')
    BY Zenon, <1>2, <1>5, <1>7
  <2> QED BY Zenon, <1>1, <1>2, <2>1 DEF WireTypes
<1>9. ASSUME NEW i \in DOMAIN net'
      PROVE  /\ net'[i].t \notin {"continue", "full"}
             /\ net'[i].t = "dump" => Resync(mlog', mcur', net'[i].n)
             /\ net'[i].t = "entry" => net[i].t # "full" /\ net'[i].n = net[i].n + 1
             /\ net'[i].t = "dump" => net[i].t = "full" /\ net'[i].n = net[i].n
  <2>1. i + 1 \in DOMAIN net /\ i + 1 > 1 /\ i + 1 # 1 /\ (i + 1) - 1 = i /\ net'[i] = net[i + 1]
    <3>1. i + 1 > 1 /\ i + 1 # 1 /\ (i + 1) - 1 = i
      BY <1>4
    <3> QED BY Zenon, <1>2, <1>5, <3>1
  <2>2. /\ net[i + 1].t \notin {"continue", "full"}
        /\ net[i + 1].t \in {"full", "dump"} => Resync(mlog, mcur, net[i + 1].n)
        /\ net[i + 1].t = "entry" => net[(i + 1) - 1].t # "full" /\ net[i + 1].n = net[(i + 1) - 1].n + 1
        /\ net[i + 1].t = "dump" => net[(i + 1) - 1].t = "full" /\ net[i + 1].n = net[(i + 1) - 1].n
    BY Zenon, <2>1 DEF SlaveInv, NetInv
  <2>3. net[(i + 1) - 1] = net[i]
    BY <2>1
  <2> QED BY Zenon, <2>1, <2>2, <2>3
<1>10. ASSUME NEW i \in DOMAIN net', i > 1
       PROVE  net'[i - 1] = net[i]
  <2>1. i - 1 \in DOMAIN net' /\ (i - 1) + 1 = i
    BY <1>4, <1>10
  <2> QED BY <1>2, <2>1
<1>11. ASSUME net' # << >>
       PROVE  1 \in DOMAIN net' /\ net'[Len(net')] = net[Len(net)] /\ net'[1].t \in {"entry", "dump"}
  <2>1. 1 \in DOMAIN net' /\ j \in DOMAIN net' /\ j + 1 = k
    BY <1>4, <1>11
  <2>2. net'[j] = net[k]
    BY <1>2, <2>1
  <2>3. net'[1] \in Message /\ net'[1].t \notin {"continue", "full"}
    BY Zenon, <1>3, <1>9, <2>1
  <2>4. net'[1].t \in {"entry", "dump"}
    <3>1. \A x \in Message : x.t \in {"continue", "full", "dump", "entry"}
      BY DEF Message
    <3> QED BY Zenon, <2>3, <3>1
  <2> QED BY <2>1, <2>2, <2>4 DEF j, k
<1>12. ASSUME net' = << >>
       PROVE  net[Len(net)] = net[1]
  <2>1. k = 1
    BY <1>4, <1>12
  <2> QED BY <2>1 DEF k
<1>13. /\ \A i \in DOMAIN net' :
             /\ net'[i].t \notin {"continue", "full"}
             /\ net'[i].t = "dump" => Resync(mlog', mcur', net'[i].n)
             /\ i > 1 /\ net'[i].t = "entry" => net'[i - 1].t # "full" /\ net'[i].n = net'[i - 1].n + 1
             /\ i > 1 /\ net'[i].t = "dump" => net'[i - 1].t = "full" /\ net'[i].n = net'[i - 1].n
  BY Zenon, <1>9, <1>10
<1> QED BY Zenon, <1>2, <1>6, <1>7, <1>8, <1>9, <1>11, <1>12, <1>13

\* A message read, the slave being where the message brings it.
LEMMA ReceivedWire ==
    ASSUME SlaveInv, net # << >>, net' = Tail(net), UNCHANGED <<mlog, was, mcur, m, psync>>,
           st' \notin {"down", "connecting", "info", "replconf"},
           Head(net).t # "full" => st' \in Following /\ WALEnd' = Head(net).n,
           Head(net).t = "full" => st' = "wait" /\ coff' = Head(net).n
    PROVE  WireTypes' /\ WireInv' /\ NetInv'
<1>1. /\ WireTypes' /\ Head(net) = net[1]
      /\ \A i \in DOMAIN net' :
           /\ net'[i].t \notin {"continue", "full"}
           /\ net'[i].t = "dump" => Resync(mlog', mcur', net'[i].n)
           /\ i > 1 /\ net'[i].t = "entry" => net'[i - 1].t # "full" /\ net'[i].n = net'[i - 1].n + 1
           /\ i > 1 /\ net'[i].t = "dump" => net'[i - 1].t = "full" /\ net'[i].n = net'[i - 1].n
      /\ net' # << >> =>
           /\ net'[1].t \in {"entry", "dump"}
           /\ net'[1].t = "entry" => net[1].t # "full" /\ net'[1].n = net[1].n + 1
           /\ net'[1].t = "dump" => net[1].t = "full" /\ net'[1].n = net[1].n
           /\ net'[Len(net')] = net[Len(net)]
      /\ net' = << >> => net[Len(net)] = net[1]
  BY Zenon, Received
<1>2. /\ net[1].t # "full" => st' \in Following /\ WALEnd' = net[1].n
      /\ net[1].t = "full" => st' = "wait" /\ coff' = net[1].n
  BY Zenon, <1>1
<1>3. /\ psync = NoPsync
      /\ m.state = "synced" => net[Len(net)].t # "full" /\ m.off = net[Len(net)].n
      /\ m.state = "waiting" => net[Len(net)].t = "full" /\ m.off = net[Len(net)].n /\ Resync(mlog, mcur, m.off)
  BY Zenon DEF SlaveInv, WireInv
<1>4. WireInv'
  <2>1. net' = << >> => /\ m.state = "synced" => st' \in Following /\ m.off = WALEnd'
                        /\ m.state = "waiting" => st' = "wait" /\ coff' = m.off
    BY Zenon, <1>1, <1>2, <1>3
  <2> QED BY Zenon, <1>1, <1>3, <2>1 DEF WireInv
<1>5. NetInv'
  <2>1. net' # << >> =>
          /\ net'[1].t # "continue" /\ net'[1].t # "full"
          /\ net'[1].t = "dump" => st' = "wait" /\ net'[1].n = coff'
          /\ net'[1].t = "entry" => st' \in Following /\ net'[1].n = WALEnd' + 1
    BY <1>1, <1>2
  <2>2. \A i \in DOMAIN net' :
          /\ net'[i].t \in {"continue", "full"} => i = 1
          /\ net'[i].t \in {"full", "dump"} => Resync(mlog', mcur', net'[i].n)
    BY Zenon, <1>1
  <2> QED BY Zenon, <1>1, <2>1, <2>2 DEF NetInv
<1> QED BY <1>1, <1>4, <1>5

\* Nothing is on its way once a connection is gone.
LEMMA WireReset ==
    ASSUME SlaveInv, UNCHANGED mlog, m' = Disconnected, net' = << >>, psync' = NoPsync
    PROVE  WireTypes' /\ WireInv' /\ NetInv'
<1>1. m'.state = "none" /\ m'.off = 0 /\ m' \in [state : {"none", "waiting", "synced"}, off : Nat]
  BY DEF Disconnected
<1>2. net' \in Seq(Message) /\ DOMAIN net' = {}
  OBVIOUS
<1>3. 0 <= Len(mlog')
  BY Lengths DEF SlaveInv
<1>4. WireTypes'
  BY Zenon, <1>1, <1>2, <1>3 DEF WireTypes
<1>5. WireInv'
  BY <1>1 DEF WireInv
<1>6. NetInv'
  BY Zenon, <1>2 DEF NetInv
<1> QED BY <1>4, <1>5, <1>6

\* The entry that arrives is the next of the master's log, and DirectWriteWAL
\* makes the slave's log longer by it.
LEMMA Logged ==
    ASSUME SlaveInv, net # << >>, Head(net).t = "entry", UNCHANGED <<mlog, was, mcur>>,
           DirectWriteWAL(mlog[Head(net).n])
    PROVE  /\ Head(net).n = WALEnd + 1 /\ WALEnd' = WALEnd + 1 /\ WALEnd + 1 \in DOMAIN mlog
           /\ mlog[WALEnd + 1] \in Entry
           /\ slog' \in Seq(Entry) /\ slog' # << >> /\ LogIsMasters'
           /\ scur' = mlog[WALEnd'].ns /\ scur' \in Namespaces /\ UNCHANGED <<key, base>>
<1>1. /\ Len(mlog) \in Nat /\ DOMAIN mlog = 1 .. Len(mlog) /\ \A i \in DOMAIN mlog : mlog[i] \in Entry
      /\ Len(slog) \in Nat /\ DOMAIN slog = 1 .. Len(slog) /\ (slog = << >> <=> Len(slog) = 0)
      /\ base \in Nat /\ WALEnd \in Nat /\ WALEnd = base + Len(slog) /\ WALEnd <= Len(mlog)
      /\ Len(net) \in Nat /\ DOMAIN net = 1 .. Len(net) /\ (net = << >> <=> Len(net) = 0)
  BY Zenon, Lengths DEF SlaveInv
<1>2. slog \in Seq(Entry) /\ net \in Seq(Message) /\ \A i \in DOMAIN net : net[i].n <= Len(mlog)
  BY DEF SlaveInv, Types, TypeOK
<1>3. Head(net) = net[1]
  BY Zenon, <1>2, Shorter
<1> DEFINE n == Head(net).n
           e == mlog[n]
<1>4. 1 \in DOMAIN net
  BY <1>1
<1>5. n = WALEnd + 1 /\ n <= Len(mlog)
  BY Zenon, <1>2, <1>3, <1>4 DEF SlaveInv, NetInv
<1>6. n \in DOMAIN mlog
  BY <1>1, <1>5
<1>7. e \in Entry
  BY <1>1, <1>6
<1>8. slog' = Append(slog, e) /\ scur' = (IF e.k = "select" THEN e.ns ELSE scur) /\ UNCHANGED <<key, base>>
  BY DEF DirectWriteWAL
<1> HIDE DEF n, e
<1>9. /\ slog' \in Seq(Entry) /\ slog' # << >> /\ Len(slog') = Len(slog) + 1
      /\ DOMAIN slog' = 1 .. Len(slog) + 1
      /\ \A i \in DOMAIN slog : slog'[i] = slog[i]
      /\ slog'[Len(slog) + 1] = e
  BY <1>2, <1>7, <1>8, Longer
<1>10. WALEnd' = WALEnd + 1
  <2>1. WALEnd' = base + (Len(slog) + 1)
    BY <1>8, <1>9 DEF WALEnd
  <2> QED BY <1>1, <2>1
<1>11. LogIsMasters'
  <2>1. ASSUME NEW i \in DOMAIN slog' PROVE slog'[i] = mlog[base + i]
    <3>1. CASE i \in DOMAIN slog
      BY <1>9, <3>1 DEF SlaveInv, LogInv, LogIsMasters
    <3>2. CASE i = Len(slog) + 1
      <4>1. base + i = n
        BY <1>1, <1>5, <3>2
      <4> QED BY Zenon, <1>9, <3>2, <4>1 DEF e
    <3> QED BY <1>1, <1>9, <3>1, <3>2
  <2>2. WALEnd' <= Len(mlog)
    BY <1>5, <1>10
  <2> QED BY Zenon, <1>8, <2>1, <2>2 DEF LogIsMasters
<1>12. e.k \in {"select", "cmd"} /\ e.ns \in Namespaces
  BY <1>7 DEF Entry
<1>13. e.k = "cmd" => slog # << >>
  <2> SUFFICES ASSUME e.k = "cmd", slog = << >> PROVE FALSE
    OBVIOUS
  <2>1. n = base + 1 /\ base # Len(mlog)
    <3>1. Len(slog) = 0
      BY Zenon, <1>1
    <3>2. Len(mlog) \in Nat /\ base \in Nat /\ WALEnd = base + Len(slog)
      BY Zenon, <1>1
    <3> QED BY <1>5, <3>1, <3>2
  <2>2. mlog[base + 1].k = "select"
    BY <2>1 DEF SlaveInv, LogInv, NewSelect
  <2> QED BY <2>1, <2>2 DEF e
<1>14. scur' = e.ns
  <2>1. CASE e.k = "select"
    BY <1>8, <2>1
  <2>2. CASE e.k = "cmd"
    <3>1. mlog[n - 1].ns = e.ns /\ scur = mlog[WALEnd].ns
      BY <1>6, <1>13, <2>2 DEF SlaveInv, LogInv, MasterInv, e
    <3>2. n - 1 = WALEnd
      BY <1>1, <1>5
    <3> QED BY <1>8, <2>2, <3>1, <3>2
  <2> QED BY <1>12, <2>1, <2>2
<1>15. mlog[WALEnd'].ns = e.ns /\ mlog[WALEnd + 1] = e
  BY <1>5, <1>10 DEF e
<1> QED BY Zenon, <1>5, <1>6, <1>7, <1>8, <1>9, <1>10, <1>11, <1>12, <1>14, <1>15 DEF n

\* Put executes the next entry of the master's log in the namespace it was
\* logged for: what was the master's data set is so again.
LEMMA Executed ==
    ASSUME SlaveInv, UNCHANGED <<mlog, was, mcur>>, st \in {"replaying", "synced"}, base <= sync,
           sync + 1 \in DOMAIN mlog, Put(mlog[sync + 1], sync + 1)
    PROVE  /\ wns' = mlog[sync + 1].ns /\ wns' \in Namespaces
           /\ db' \in Seq(Command)
           /\ (\A i \in DOMAIN db : db[i].at # 0) => \A i \in DOMAIN db' : db'[i].at # 0
           /\ db = ImageOf(was, sync) => db' = ImageOf(was, sync + 1)
<1> DEFINE n == sync + 1
           e == mlog[n]
           r == [at |-> n, ns |-> wns]
<1>1. /\ sync \in Nat /\ base \in Nat /\ \A i \in DOMAIN mlog : mlog[i] \in Entry
      /\ db \in Seq(Command) /\ {scur, wns} \subseteq Namespaces \cup {NoNamespace}
  BY Zenon, Lengths, TypesSplit DEF SlaveInv, SlaveTypes
<1>2. e.k \in {"select", "cmd"} /\ e.ns \in Namespaces
  BY <1>1 DEF Entry
<1>3. n \in Nat \ {0} /\ n - 1 = sync
  BY <1>1
<1>4. n \in DOMAIN mlog /\ Put(e, n)
  OBVIOUS
<1>5. r \in Command
  BY <1>1, <1>3 DEF Command
<1>6. r.at # 0
  BY <1>3
<1>7. was[n] = IF e.k = "select" THEN ImageOf(was, n - 1)
               ELSE Append(ImageOf(was, n - 1), [at |-> n, ns |-> e.ns])
  BY Zenon, <1>4 DEF SlaveInv, MasterInv
<1>8. ImageOf(was, sync + 1) = was[n]
  BY <1>3 DEF ImageOf
<1>9. CASE e.k = "select"
  <2>1. wns' = e.ns /\ db' = db
    BY <1>4, <1>9 DEF Put
  <2>2. was[n] = ImageOf(was, sync)
    BY Zenon, <1>3, <1>7, <1>9
  <2> QED BY Zenon, <1>1, <1>2, <1>8, <2>1, <2>2
<1>10. CASE e.k = "cmd"
  <2>1. db' = Append(db, r) /\ wns' = wns
    BY <1>4, <1>10 DEF Put
  <2>2. wns = e.ns
    <3>1. mlog[n - 1].ns = e.ns
      BY <1>4, <1>10 DEF SlaveInv, MasterInv
    <3>2. CASE sync > base
      BY <1>3, <3>1, <3>2 DEF SlaveInv, DataInv
    <3>3. CASE sync = base
      <4>1. base # Len(mlog)
        <5>1. DOMAIN mlog = 1 .. Len(mlog) /\ Len(mlog) \in Nat
          BY Lengths DEF SlaveInv
        <5>2. sync + 1 \in 1 .. Len(mlog)
          BY Zenon, <5>1
        <5>3. sync \in Nat
          BY <1>1
        <5>4. sync # Len(mlog)
          BY Zenon, <5>1, <5>2, <5>3, Before
        <5> QED BY Zenon, <3>3, <5>4
      <4>2. mlog[base + 1].k = "select"
        BY <4>1 DEF SlaveInv, LogInv, NewSelect
      <4> QED BY <1>10, <3>3, <4>2
    <3> QED BY <1>1, <3>2, <3>3
  <2>3. r = [at |-> n, ns |-> e.ns]
    BY Zenon, <2>2
  <2>4. was[n] = Append(ImageOf(was, sync), [at |-> n, ns |-> e.ns])
    <3>1. e.k # "select"
      BY <1>10
    <3> QED BY Zenon, <1>3, <1>7, <3>1
  <2> HIDE DEF r
  <2>5. /\ db' \in Seq(Command)
        /\ Len(db) \in Nat /\ DOMAIN db = 1 .. Len(db) /\ DOMAIN db' = 1 .. Len(db) + 1
        /\ \A i \in DOMAIN db : db'[i] = db[i]
        /\ db'[Len(db) + 1] = r
    BY <1>1, <1>5, <2>1, Longer
  <2>6. \A i \in DOMAIN db' : i \in DOMAIN db \/ i = Len(db) + 1
    BY <2>5
  <2>7. (\A i \in DOMAIN db : db[i].at # 0) => \A i \in DOMAIN db' : db'[i].at # 0
    BY Zenon, <1>6, <2>5, <2>6
  <2>8. db = ImageOf(was, sync) => db' = was[n]
    BY Zenon, <2>1, <2>3, <2>4
  <2> QED BY Zenon, <1>2, <1>8, <2>1, <2>2, <2>5, <2>7, <2>8
<1> QED BY <1>2, <1>9, <1>10

\* The master continues.
LEMMA HandleContinueInv ==
    ASSUME SlaveInv, HandleContinue
    PROVE  SlaveInv'
<1>1. /\ st = "psync" /\ net # << >> /\ Head(net).t = "continue" /\ net' = Tail(net)
      /\ wns' = scur /\ sync' = WALEnd /\ st' = "synced"
      /\ UNCHANGED <<mlog, was, mcur, m, psync>> /\ UNCHANGED <<slaveLog, coff, db, counts>>
  BY DEF HandleContinue, Recv, master
<1>2. MasterInv' /\ MasterTypes'
  BY Zenon, <1>1, MasterStays DEF SlaveInv
<1>3. WALEnd' = WALEnd
  BY <1>1 DEF WALEnd, slaveLog
<1>4. key = "master" /\ Head(net).n = WALEnd
  <2>1. Head(net) = net[1]
    BY Zenon, <1>1, Received
  <2> QED BY <1>1, <2>1 DEF SlaveInv, NetInv
<1>5. WireTypes' /\ WireInv' /\ NetInv'
  BY <1>1, <1>3, <1>4, ReceivedWire DEF Following
<1>6. SlaveTypes
  BY TypesSplit DEF SlaveInv
<1>7. /\ Len(slog) \in Nat /\ (slog = << >> <=> Len(slog) = 0)
      /\ base \in Nat /\ WALEnd \in Nat /\ WALEnd = base + Len(slog)
  BY Zenon, Lengths DEF SlaveInv
<1>8. SlaveTypes'
  <2>1. st' \in States /\ sync' \in 0 .. WALEnd' /\ {scur', wns'} \subseteq Namespaces \cup {NoNamespace}
    BY <1>1, <1>3, <1>6, <1>7 DEF States, SlaveTypes, slaveLog
  <2> QED BY Zenon, <1>1, <1>3, <1>6, <2>1 DEF SlaveTypes, slaveLog, counts
<1>9. LogInv'
  BY <1>1, <1>3, <1>4 DEF SlaveInv, LogInv, LogIsMasters, slaveLog
<1>10. DataInv'
  <2>1. sync' > base => slog # << >>
    <3>1. Len(slog) = 0 => ~(WALEnd > base)
      BY <1>7
    <3> QED BY Zenon, <1>1, <1>7, <3>1
  <2>2. sync' > base => wns' = mlog[sync'].ns
    BY Zenon, <1>1, <2>1 DEF SlaveInv, LogInv
  <2>3. First # NoNamespace /\ crashes + midCrashes = 0 => db = ImageOf(was, WALEnd)
    BY <1>1, <1>4 DEF SlaveInv, DataInv
  <2>4. \A i \in DOMAIN db : db[i].at # 0
    BY <1>4 DEF SlaveInv, DataInv
  <2> QED BY <1>1, <1>3, <2>2, <2>3, <2>4 DEF DataInv, slaveLog, counts
<1> QED BY <1>2, <1>5, <1>8, <1>9, <1>10, NextTypes DEF SlaveInv

\* The master answers with a full resynchronisation.
LEMMA HandleFullResyncInv ==
    ASSUME SlaveInv, HandleFullResync
    PROVE  SlaveInv'
<1>1. /\ st = "psync" /\ net # << >> /\ Head(net).t = "full" /\ net' = Tail(net)
      /\ coff' = Head(net).n /\ st' = "wait"
      /\ UNCHANGED <<mlog, was, mcur, m, psync>> /\ UNCHANGED <<slaveLog, sync, data, counts>>
  BY DEF HandleFullResync, Recv, master
<1>2. MasterInv' /\ MasterTypes'
  BY Zenon, <1>1, MasterStays DEF SlaveInv
<1>3. WALEnd' = WALEnd
  BY <1>1 DEF WALEnd, slaveLog
<1>4. Head(net) = net[1] /\ Head(net) \in Message /\ Head(net).n <= Len(mlog) /\ 1 \in DOMAIN net
  BY Zenon, <1>1, Received
<1>5. Resync(mlog, mcur, coff')
  BY Zenon, <1>1, <1>4 DEF SlaveInv, NetInv
<1>6. WireTypes' /\ WireInv' /\ NetInv'
  BY <1>1, ReceivedWire
<1>7. SlaveTypes'
  <2>1. SlaveTypes
    BY TypesSplit DEF SlaveInv
  <2>2. Head(net).n \in Nat
    BY <1>4 DEF Message
  <2>3. Len(mlog) \in Nat
    BY Lengths DEF SlaveInv
  <2>4. coff' \in 0 .. Len(mlog)
    BY <1>1, <1>4, <2>2, <2>3
  <2>5. st' \in States
    BY <1>1 DEF States
  <2> QED BY Zenon, <1>1, <1>3, <2>1, <2>4, <2>5 DEF SlaveTypes, slaveLog, data, counts
<1>8. LogInv'
  BY <1>1, <1>3, <1>5 DEF SlaveInv, LogInv, LogIsMasters, slaveLog
<1>9. DataInv'
  BY <1>1, <1>3 DEF SlaveInv, DataInv, slaveLog, data, counts
<1> QED BY <1>2, <1>6, <1>7, <1>8, <1>9, NextTypes DEF SlaveInv

\* The dump has arrived: LoadSyncedSnapshot begins.
LEMMA LoadSyncedSnapshotInv ==
    ASSUME SlaveInv, LoadSyncedSnapshot
    PROVE  SlaveInv'
<1>1. /\ st = "wait" /\ net # << >> /\ Head(net).t = "dump" /\ net' = Tail(net)
      /\ st' = "loading" /\ key' = "random" /\ base' = coff /\ slog' = << >> /\ db' = Partial
      /\ UNCHANGED <<mlog, was, mcur, m, psync>> /\ UNCHANGED <<scur, sync, coff, wns, counts>>
  BY DEF LoadSyncedSnapshot, Recv, master, place
<1>2. MasterInv' /\ MasterTypes'
  BY Zenon, <1>1, MasterStays DEF SlaveInv
<1>3. Len(mlog) \in Nat /\ coff \in Nat /\ coff <= Len(mlog) /\ sync = 0 /\ Resync(mlog, mcur, coff)
  BY <1>1, Lengths DEF SlaveInv, LogInv
<1>4. WALEnd' = coff
  <2>1. WALEnd' = coff + 0
    BY <1>1 DEF WALEnd
  <2> QED BY <1>3, <2>1
<1>5. Head(net).n = coff
  <2>1. Head(net) = net[1]
    BY Zenon, <1>1, Received
  <2> QED BY <1>1, <2>1 DEF SlaveInv, NetInv
<1>6. WireTypes' /\ WireInv' /\ NetInv'
  BY <1>1, <1>4, <1>5, ReceivedWire DEF Following
<1>7. SlaveTypes'
  <2>1. SlaveTypes
    BY TypesSplit DEF SlaveInv
  <2>2. slog' \in Seq(Entry) /\ st' \in States /\ key' \in {"self", "random", "lost", "master"}
    BY <1>1 DEF States
  <2>3. base' \in 0 .. Len(mlog) /\ WALEnd' <= Len(mlog) /\ sync' \in 0 .. WALEnd'
    BY <1>1, <1>3, <1>4
  <2>4. db' \in Seq(Command)
    <3> DEFINE r == [at |-> 0, ns |-> NoNamespace]
    <3>1. r \in Command
      BY DEF Command
    <3>2. db' = <<r>>
      BY <1>1 DEF Partial
    <3> HIDE DEF r
    <3> QED BY <3>1, <3>2
  <2> QED BY Zenon, <1>1, <2>1, <2>2, <2>3, <2>4 DEF SlaveTypes, counts
<1>8. LogInv'
  <2>1. DOMAIN slog' = {}
    BY <1>1
  <2>2. LogIsMasters'
    BY Zenon, <1>1, <1>3, <1>4, <2>1 DEF LogIsMasters
  <2> QED BY <1>1, <1>3, <2>2 DEF LogInv, Resync
<1>9. DataInv'
  BY <1>1 DEF DataInv
<1> QED BY <1>2, <1>6, <1>7, <1>8, <1>9, NextTypes DEF SlaveInv

\* The dump is loaded.
LEMMA LoadDoneInv ==
    ASSUME SlaveInv, LoadDone
    PROVE  SlaveInv'
<1>1. /\ st = "loading" /\ db' = ImageOf(was, coff) /\ key' = "master" /\ sync' = coff /\ st' = "replaying"
      /\ UNCHANGED <<mlog, was, mcur>> /\ UNCHANGED <<m, net, psync>> /\ UNCHANGED <<base, slog, scur, coff, wns, counts>>
  BY DEF LoadDone, Image, ImageOf, master, wire
<1>2. MasterInv' /\ MasterTypes'
  BY Zenon, <1>1, MasterStays DEF SlaveInv
<1>3. /\ Len(mlog) \in Nat /\ coff \in Nat /\ coff <= Len(mlog)
      /\ Len(slog) \in Nat /\ base \in Nat /\ WALEnd \in Nat /\ WALEnd = base + Len(slog)
  BY Zenon, Lengths DEF SlaveInv
<1>4. base = coff /\ (First # NoNamespace => base > 0)
  BY <1>1 DEF SlaveInv, LogInv
<1>5. WALEnd' = WALEnd
  BY <1>1 DEF WALEnd
<1>6. WireTypes /\ SlaveTypes
  BY TypesSplit DEF SlaveInv
<1>7. WireTypes'
  BY Zenon, <1>1, <1>6 DEF WireTypes
<1>8. WireInv' /\ NetInv'
  <2>1. WireInv'
    BY <1>1, <1>5 DEF SlaveInv, WireInv, Following
  <2>2. net # << >> => net[1].t # "continue" /\ net[1].t # "full" /\ net[1].t # "dump"
    BY <1>1 DEF SlaveInv, NetInv
  <2>3. st' \in Following
    BY <1>1 DEF Following
  <2> QED BY Zenon, <1>1, <1>5, <2>1, <2>2, <2>3 DEF SlaveInv, NetInv
<1> DEFINE P == [at : 1 .. Len(mlog), ns : Namespaces]
<1>9. db' \in Seq(P)
  <2>1. coff \in 0 .. Len(mlog)
    BY <1>3
  <2> QED BY Zenon, <1>1, <2>1, ImageType DEF SlaveInv
<1>10. P \subseteq Command /\ \A x \in P : x.at # 0
  BY <1>3 DEF Command
<1> HIDE DEF P
<1>11. db' \in Seq(Command) /\ \A i \in DOMAIN db' : db'[i].at # 0
  <2>1. db' \in Seq(Command)
    BY <1>9, <1>10, SeqWiden
  <2>2. \A i \in DOMAIN db' : db'[i] \in P
    BY <1>9, SeqOver
  <2> QED BY Zenon, <1>10, <2>1, <2>2
<1>12. SlaveTypes'
  <2>1. sync' \in 0 .. WALEnd' /\ st' \in States /\ key' \in {"self", "random", "lost", "master"}
    BY <1>1, <1>3, <1>4, <1>5 DEF States
  <2> QED BY Zenon, <1>1, <1>5, <1>6, <1>11, <2>1 DEF SlaveTypes, counts
<1>13. LogInv'
  BY <1>1, <1>3, <1>4, <1>5 DEF SlaveInv, LogInv, LogIsMasters
<1>14. DataInv'
  BY SMTT(60), <1>1, <1>3, <1>4, <1>11 DEF DataInv
<1> QED BY <1>2, <1>7, <1>8, <1>12, <1>13, <1>14, NextTypes DEF SlaveInv

\* A step of the replay.
LEMMA ReplayStepInv ==
    ASSUME SlaveInv, ReplayStep
    PROVE  SlaveInv'
<1>1. /\ st = "replaying" /\ sync \in WALStart .. WALEnd - 1
      /\ Put(slog[sync - base + 1], sync + 1) /\ sync' = sync + 1
      /\ UNCHANGED <<mlog, was, mcur>> /\ UNCHANGED <<m, net, psync>>
      /\ UNCHANGED <<st, key, base, slog, scur, coff, counts>>
  BY DEF ReplayStep, master, wire, slaveLog
<1>2. MasterInv' /\ MasterTypes'
  BY Zenon, <1>1, MasterStays DEF SlaveInv
<1>3. /\ Len(mlog) \in Nat /\ DOMAIN mlog = 1 .. Len(mlog)
      /\ Len(slog) \in Nat /\ DOMAIN slog = 1 .. Len(slog)
      /\ base \in Nat /\ WALEnd \in Nat /\ WALEnd = base + Len(slog) /\ WALEnd <= Len(mlog)
      /\ sync \in Nat
  BY Zenon, Lengths DEF SlaveInv
<1>4. sync >= base /\ key = "master" /\ LogIsMasters
  BY <1>1 DEF SlaveInv, LogInv
<1>5. sync < WALEnd
  <2>1. WALStart \in Int
    BY <1>3, SlaveAssumption DEF WALStart, Start
  <2> HIDE DEF WALStart
  <2>2. sync \in WALStart .. WALEnd - 1
    BY <1>1
  <2> QED BY <1>3, <2>1, <2>2
<1>6. WALEnd' = WALEnd
  BY <1>1 DEF WALEnd
<1>7. sync - base + 1 \in DOMAIN slog /\ base + (sync - base + 1) = sync + 1 /\ sync + 1 \in DOMAIN mlog
  BY <1>3, <1>4, <1>5
<1>8. slog[sync - base + 1] = mlog[sync + 1]
  <2>1. slog[sync - base + 1] = mlog[base + (sync - base + 1)]
    BY Zenon, <1>4, <1>7 DEF LogIsMasters
  <2> QED BY Zenon, <1>7, <2>1
<1>9. base <= sync /\ st \in {"replaying", "synced"} /\ Put(mlog[sync + 1], sync + 1)
  <2>1. base <= sync
    BY <1>3, <1>4
  <2> QED BY Zenon, <1>1, <1>8, <2>1
<1>10. /\ wns' = mlog[sync + 1].ns /\ wns' \in Namespaces
       /\ db' \in Seq(Command)
       /\ (\A i \in DOMAIN db : db[i].at # 0) => \A i \in DOMAIN db' : db'[i].at # 0
       /\ db = ImageOf(was, sync) => db' = ImageOf(was, sync + 1)
  BY Zenon, <1>1, <1>7, <1>9, Executed
<1>11. WireTypes /\ SlaveTypes
  BY TypesSplit DEF SlaveInv
<1>12. WireTypes'
  BY Zenon, <1>1, <1>11 DEF WireTypes
<1>13. WireInv' /\ NetInv'
  BY Zenon, <1>1, <1>6 DEF SlaveInv, WireInv, NetInv
<1>14. SlaveTypes'
  <2>1. sync' \in 0 .. WALEnd'
    BY <1>1, <1>3, <1>5, <1>6
  <2>2. {scur', wns'} \subseteq Namespaces \cup {NoNamespace}
    BY <1>1, <1>10, <1>11 DEF SlaveTypes
  <2> QED BY Zenon, <1>1, <1>6, <1>10, <1>11, <2>1, <2>2 DEF SlaveTypes, counts
<1>15. LogInv'
  <2>1. sync' >= base
    BY <1>1, <1>3, <1>4
  <2> QED BY <1>1, <1>6, <2>1 DEF SlaveInv, LogInv, LogIsMasters
<1>16. DataInv'
  <2>1. \A i \in DOMAIN db' : db'[i].at # 0
    BY Zenon, <1>4, <1>10 DEF SlaveInv, DataInv
  <2>2. First # NoNamespace /\ crashes + midCrashes = 0 => db' = ImageOf(was, sync + 1)
    BY Zenon, <1>1, <1>10 DEF SlaveInv, DataInv
  <2> QED BY Zenon, <1>1, <1>10, <2>1, <2>2 DEF DataInv, counts
<1> QED BY <1>2, <1>12, <1>13, <1>14, <1>15, <1>16, NextTypes DEF SlaveInv

\* The replay is complete.
LEMMA ReplayDoneInv ==
    ASSUME SlaveInv, ReplayDone
    PROVE  SlaveInv'
<1>1. /\ st = "replaying" /\ sync = WALEnd /\ st' = "synced"
      /\ wns' = IF scur = NoNamespace THEN wns ELSE scur
      /\ UNCHANGED <<mlog, was, mcur>> /\ UNCHANGED <<m, net, psync>>
      /\ UNCHANGED <<key, base, slog, scur, sync, coff, db, counts>>
  BY DEF ReplayDone, master, wire, slaveLog, place
<1>2. MasterInv' /\ MasterTypes'
  BY Zenon, <1>1, MasterStays DEF SlaveInv
<1>3. WALEnd' = WALEnd
  BY <1>1 DEF WALEnd
<1>4. WireTypes /\ SlaveTypes
  BY TypesSplit DEF SlaveInv
<1>5. WireTypes'
  BY Zenon, <1>1, <1>4 DEF WireTypes
<1>6. WireInv' /\ NetInv'
  <2>1. WireInv'
    BY <1>1, <1>3 DEF SlaveInv, WireInv, Following
  <2>2. net # << >> => net[1].t # "continue" /\ net[1].t # "full" /\ net[1].t # "dump"
    BY <1>1 DEF SlaveInv, NetInv
  <2>3. st' \in Following
    BY <1>1 DEF Following
  <2> QED BY Zenon, <1>1, <1>3, <2>1, <2>2, <2>3 DEF SlaveInv, NetInv
<1>7. SlaveTypes'
  <2>1. {scur', wns'} \subseteq Namespaces \cup {NoNamespace} /\ st' \in States
    BY <1>1, <1>4 DEF SlaveTypes, States
  <2> QED BY Zenon, <1>1, <1>3, <1>4, <2>1 DEF SlaveTypes, counts
<1>8. LogInv'
  BY <1>1, <1>3 DEF SlaveInv, LogInv, LogIsMasters
<1>9. DataInv'
  <2>1. sync > base => scur = mlog[sync].ns /\ scur # NoNamespace
    <3>1. /\ Len(mlog) \in Nat /\ DOMAIN mlog = 1 .. Len(mlog) /\ \A i \in DOMAIN mlog : mlog[i] \in Entry
          /\ Len(slog) \in Nat /\ (slog = << >> <=> Len(slog) = 0) /\ base \in Nat
          /\ WALEnd = base + Len(slog) /\ WALEnd <= Len(mlog)
      BY Zenon, Lengths DEF SlaveInv
    <3>2. ASSUME sync > base PROVE Len(slog) # 0 /\ WALEnd \in DOMAIN mlog
      BY <1>1, <3>1, <3>2
    <3>3. ASSUME sync > base PROVE mlog[WALEnd].ns \in Namespaces
      BY <3>1, <3>2, <3>3 DEF Entry
    <3>4. sync > base => scur = mlog[WALEnd].ns
      BY Zenon, <3>1, <3>2 DEF SlaveInv, LogInv
    <3> QED BY <1>1, <3>3, <3>4, SlaveAssumption
  <2> QED BY <1>1, <1>3, <2>1 DEF SlaveInv, DataInv, LogInv, counts
<1> QED BY <1>2, <1>5, <1>6, <1>7, <1>8, <1>9, NextTypes DEF SlaveInv

\* A command of the master is logged, and executed in a synced slave.
LEMMA HandleRedisCommandInv ==
    ASSUME SlaveInv, HandleRedisCommand
    PROVE  SlaveInv'
<1> DEFINE n == Head(net).n
<1>1. /\ st \in Following /\ net # << >> /\ Head(net).t = "entry" /\ net' = Tail(net)
      /\ DirectWriteWAL(mlog[n])
      /\ st = "synced" => Put(mlog[n], n) /\ sync' = sync + 1
      /\ st # "synced" => UNCHANGED <<sync, data>>
      /\ UNCHANGED <<mlog, was, mcur, m, psync>> /\ UNCHANGED <<st, coff, counts>>
  BY DEF HandleRedisCommand, Recv, master, Following
<1>2. MasterInv' /\ MasterTypes'
  BY Zenon, <1>1, MasterStays DEF SlaveInv
<1>3. /\ n = WALEnd + 1 /\ WALEnd' = WALEnd + 1 /\ WALEnd + 1 \in DOMAIN mlog
      /\ slog' \in Seq(Entry) /\ slog' # << >> /\ LogIsMasters'
      /\ scur' = mlog[WALEnd'].ns /\ scur' \in Namespaces /\ UNCHANGED <<key, base>>
  BY Zenon, <1>1, Logged
<1>4. WireTypes' /\ WireInv' /\ NetInv'
  <2>1. st' \notin {"down", "connecting", "info", "replconf"}
    BY <1>1 DEF Following
  <2>2. Head(net).t # "full" /\ WALEnd' = Head(net).n /\ st' \in Following
    BY <1>1, <1>3
  <2> QED BY Zenon, <1>1, <2>1, <2>2, ReceivedWire
<1>5. /\ Len(mlog) \in Nat /\ DOMAIN mlog = 1 .. Len(mlog)
      /\ base \in Nat /\ WALEnd \in Nat /\ sync \in Nat /\ sync <= WALEnd
  BY Zenon, Lengths DEF SlaveInv
<1>6. SlaveTypes
  BY TypesSplit DEF SlaveInv
<1>7. WALEnd' <= Len(mlog) /\ base <= WALEnd
  <2>1. base <= WALEnd
    BY <1>5, Lengths DEF SlaveInv
  <2> QED BY <1>3, <1>5, <2>1
<1> HIDE DEF n
<1>8. CASE st = "synced"
  <2>1. sync = WALEnd /\ key = "master"
    BY <1>8 DEF SlaveInv, LogInv
  <2>2. /\ wns' = mlog[sync + 1].ns /\ wns' \in Namespaces
        /\ db' \in Seq(Command)
        /\ (\A i \in DOMAIN db : db[i].at # 0) => \A i \in DOMAIN db' : db'[i].at # 0
        /\ db = ImageOf(was, sync) => db' = ImageOf(was, sync + 1)
    <3>1. st \in {"replaying", "synced"} /\ base <= sync
      BY <1>7, <1>8, <2>1
    <3>2. n = sync + 1 /\ sync + 1 \in DOMAIN mlog
      BY Zenon, <1>3, <2>1
    <3>3. Put(mlog[sync + 1], sync + 1)
      BY Zenon, <1>1, <1>8, <3>2
    <3> QED BY Zenon, <1>1, <3>1, <3>2, <3>3, Executed
  <2>3. sync' = WALEnd' /\ WALEnd' = sync + 1
    BY Zenon, <1>1, <1>3, <1>8, <2>1
  <2>4. SlaveTypes'
    <3>1. sync' \in 0 .. WALEnd' /\ {scur', wns'} \subseteq Namespaces \cup {NoNamespace}
      BY <1>3, <1>5, <2>2, <2>3
    <3> QED BY Zenon, <1>1, <1>3, <1>6, <1>7, <2>2, <3>1 DEF SlaveTypes, counts
  <2>5. LogInv'
    BY <1>1, <1>3, <1>8, <2>1, <2>3 DEF SlaveInv, LogInv
  <2>6. DataInv'
    <3>1. \A i \in DOMAIN db' : db'[i].at # 0
      BY Zenon, <2>1, <2>2 DEF SlaveInv, DataInv
    <3>2. First # NoNamespace /\ crashes + midCrashes = 0 => db' = ImageOf(was, WALEnd')
      <4>1. st # "replaying"
        BY <1>8
      <4> QED BY Zenon, <2>1, <2>2, <2>3, <4>1 DEF SlaveInv, DataInv
    <3>3. st' # "replaying"
      BY <1>1, <1>8
    <3> QED BY Zenon, <1>1, <2>2, <2>3, <3>1, <3>2, <3>3 DEF DataInv, counts
  <2> QED BY <1>2, <1>4, <2>4, <2>5, <2>6, NextTypes DEF SlaveInv
<1>9. CASE st # "synced"
  <2>1. st \in {"loading", "replaying"} /\ sync' = sync /\ wns' = wns /\ db' = db
    BY <1>1, <1>9 DEF Following, data
  <2>2. SlaveTypes'
    <3>1. sync' \in 0 .. WALEnd' /\ {scur', wns'} \subseteq Namespaces \cup {NoNamespace}
      <4>1. wns \in Namespaces \cup {NoNamespace}
        BY <1>6 DEF SlaveTypes
      <4> QED BY <1>3, <1>5, <2>1, <4>1
    <3> QED BY Zenon, <1>1, <1>3, <1>6, <1>7, <2>1, <3>1 DEF SlaveTypes, counts
  <2>3. LogInv'
    BY <1>1, <1>3, <1>9, <2>1 DEF SlaveInv, LogInv
  <2>4. DataInv'
    <3>1. st = "loading" => key # "master"
      BY DEF SlaveInv, LogInv
    <3> QED BY <1>1, <1>3, <2>1, <3>1 DEF SlaveInv, DataInv, counts
  <2> QED BY <1>2, <1>4, <2>2, <2>3, <2>4, NextTypes DEF SlaveInv
<1> QED BY <1>8, <1>9

\* The connection is closed (ChannelClosed), for whatever reason.
LEMMA ClosingInv ==
    ASSUME SlaveInv, Closing, UNCHANGED <<data, crashes, midCrashes>>, cuts' \in 0 .. MaxCuts
    PROVE  SlaveInv'
<1>1. /\ m' = Disconnected /\ net' = << >> /\ psync' = NoPsync
      /\ st' = "down" /\ sync' = 0 /\ coff' = 0
      /\ key' = (IF st = "replaying" /\ WALStart > 0 THEN "lost" ELSE key)
      /\ UNCHANGED <<mlog, was, mcur>> /\ UNCHANGED <<base, slog, scur, wns, db>>
  BY DEF Closing, master, data
<1>2. MasterInv' /\ MasterTypes'
  BY Zenon, <1>1, MasterStays DEF SlaveInv
<1>3. WireTypes' /\ WireInv' /\ NetInv'
  BY Zenon, <1>1, WireReset
<1>4. WALEnd' = WALEnd
  BY <1>1 DEF WALEnd
<1>5. Len(mlog) \in Nat /\ base \in Nat /\ WALEnd \in Nat
  BY Zenon, Lengths DEF SlaveInv
<1>6. SlaveTypes
  BY TypesSplit DEF SlaveInv
<1>7. SlaveTypes'
  <2>1. sync' \in 0 .. WALEnd' /\ coff' \in 0 .. Len(mlog)
    BY <1>1, <1>4, <1>5
  <2>2. st' \in States /\ key' \in {"self", "random", "lost", "master"}
    BY <1>1, <1>6 DEF States, SlaveTypes
  <2> QED BY Zenon, <1>1, <1>4, <1>6, <2>1, <2>2 DEF SlaveTypes
<1>8. LogInv'
  BY <1>1, <1>4 DEF SlaveInv, LogInv, LogIsMasters
<1>9. DataInv'
  <2>1. key' = "master" => key = "master"
    BY <1>1
  <2>2. key' = "master" /\ First # NoNamespace => st # "replaying"
    <3> SUFFICES ASSUME key' = "master", First # NoNamespace, st = "replaying" PROVE FALSE
      OBVIOUS
    <3>1. base > 0
      BY DEF SlaveInv, LogInv
    <3>2. WALStart > 0
      <4>1. KeepSlave \in Nat
        BY SlaveAssumption
      <4> QED BY <1>5, <3>1, <4>1 DEF WALStart, Start
    <3> QED BY <1>1, <3>2
  <2> QED BY <1>1, <1>4, <2>1, <2>2 DEF SlaveInv, DataInv
<1> QED BY <1>2, <1>3, <1>7, <1>8, <1>9, NextTypes DEF SlaveInv

\* A crash, and a crash between DirectWriteWAL and Put.
LEMMA CrashInv ==
    ASSUME SlaveInv, Crash \/ MidCrash
    PROVE  SlaveInv'
<1>1. /\ m' = Disconnected /\ net' = << >> /\ psync' = NoPsync
      /\ st' = "down" /\ sync' = 0 /\ coff' = 0 /\ wns' = NoNamespace
      /\ UNCHANGED <<mlog, was, mcur>> /\ UNCHANGED <<db, cuts>>
  BY DEF Crash, MidCrash, Restarted, master
<1>2. MasterInv' /\ MasterTypes'
  BY Zenon, <1>1, MasterStays DEF SlaveInv
<1>3. WireTypes' /\ WireInv' /\ NetInv'
  BY Zenon, <1>1, WireReset
<1>4. /\ Len(mlog) \in Nat /\ DOMAIN mlog = 1 .. Len(mlog) /\ base \in Nat /\ WALEnd \in Nat
      /\ WALEnd <= Len(mlog) /\ crashes \in Nat /\ midCrashes \in Nat
  BY Zenon, Lengths DEF SlaveInv
<1>5. SlaveTypes
  BY TypesSplit DEF SlaveInv
<1>6. /\ crashes' \in 0 .. MaxCrashes /\ midCrashes' \in 0 .. MaxMidCrashes
      /\ crashes' + midCrashes' # 0
  <2>1. crashes \in 0 .. MaxCrashes /\ midCrashes \in 0 .. MaxMidCrashes
    BY Zenon, <1>5 DEF SlaveTypes
  <2>2. CASE Crash
    <3>1. crashes < MaxCrashes /\ crashes' = crashes + 1 /\ midCrashes' = midCrashes
      BY Zenon, <2>2 DEF Crash
    <3> QED BY <2>1, <3>1, SlaveAssumption
  <2>3. CASE MidCrash
    <3>1. midCrashes < MaxMidCrashes /\ midCrashes' = midCrashes + 1 /\ crashes' = crashes
      BY Zenon, <2>3 DEF MidCrash
    <3> QED BY <2>1, <3>1, SlaveAssumption
  <2> QED BY Zenon, <2>2, <2>3
<1>7. /\ slog' \in Seq(Entry) /\ WALEnd' \in Nat /\ LogIsMasters' /\ UNCHANGED <<key, base>>
      /\ slog' # << >> => scur' = mlog[WALEnd'].ns
      /\ scur' \in Namespaces \cup {NoNamespace}
  <2>1. CASE Crash
    <3>1. UNCHANGED <<key, base, slog, scur>>
      BY <2>1 DEF Crash, slaveLog
    <3>2. WALEnd' = WALEnd
      BY <3>1 DEF WALEnd
    <3> QED BY <1>1, <1>4, <1>5, <3>1, <3>2 DEF SlaveInv, LogInv, LogIsMasters, SlaveTypes
  <2>2. CASE MidCrash
    <3>1. net # << >> /\ Head(net).t = "entry" /\ DirectWriteWAL(mlog[Head(net).n])
      BY <2>2 DEF MidCrash
    <3>2. /\ WALEnd' = WALEnd + 1
          /\ slog' \in Seq(Entry) /\ LogIsMasters'
          /\ scur' = mlog[WALEnd'].ns /\ scur' \in Namespaces /\ UNCHANGED <<key, base>>
      BY Zenon, <1>1, <3>1, Logged
    <3>3. WALEnd' \in Nat
      BY <1>4, <3>2
    <3>4. scur' \in Namespaces \cup {NoNamespace}
      BY <3>2
    <3> QED BY Zenon, <3>2, <3>3, <3>4
  <2> QED BY <2>1, <2>2
<1>8. SlaveTypes'
  <2>1. sync' \in 0 .. WALEnd' /\ coff' \in 0 .. Len(mlog') /\ {scur', wns'} \subseteq Namespaces \cup {NoNamespace}
    BY <1>1, <1>4, <1>7
  <2>2. st' \in States
    BY <1>1 DEF States
  <2>3. WALEnd' <= Len(mlog')
    BY Zenon, <1>7 DEF LogIsMasters
  <2> QED BY Zenon, <1>1, <1>5, <1>6, <1>7, <2>1, <2>2, <2>3 DEF SlaveTypes
<1>9. LogInv'
  BY <1>1, <1>7 DEF SlaveInv, LogInv
<1>10. DataInv'
  <2>1. key' = "master" => \A i \in DOMAIN db' : db'[i].at # 0
    BY Zenon, <1>1, <1>7 DEF SlaveInv, DataInv
  <2>2. st' \notin {"replaying", "synced"}
    BY <1>1
  <2> QED BY Zenon, <1>6, <2>1, <2>2 DEF DataInv
<1> QED BY <1>2, <1>3, <1>8, <1>9, <1>10, NextTypes DEF SlaveInv

-----------------------------------------------------------------------------
(* The theorems                                                            *)

\* Every step keeps the invariant.
LEMMA NextInv == SlaveInv /\ [Next]_vars => SlaveInv'
<1> SUFFICES ASSUME SlaveInv, [Next]_vars PROVE SlaveInv'
  OBVIOUS
<1>0. cuts \in 0 .. MaxCuts
  BY TypesSplit DEF SlaveInv, SlaveTypes
<1>1. CASE \E ns \in Namespaces : MasterWrite(ns)
  BY <1>1, MasterWriteInv
<1>2. CASE MasterStep
  BY <1>2, MasterPsyncInv, MasterDumpInv, MasterSyncInv DEF MasterStep
<1>3. CASE LoadFails \/ ReplayFails \/ ChannelClosed
  <2>1. Closing /\ UNCHANGED <<data, crashes, midCrashes>> /\ cuts' = cuts
    BY <1>3 DEF LoadFails, ReplayFails, ChannelClosed, counts
  <2> QED BY Zenon, <1>0, <2>1, ClosingInv
<1>4. CASE ConnectMaster \/ ChannelConnected \/ HandleInfoReply \/ HandleReplconfReply
  BY Zenon, <1>4, ConnectInv
<1>5. CASE HandleContinue \/ HandleFullResync \/ LoadSyncedSnapshot \/ LoadDone
  BY Zenon, <1>5, HandleContinueInv, HandleFullResyncInv, LoadSyncedSnapshotInv, LoadDoneInv
<1>6. CASE ReplayStep \/ ReplayDone \/ HandleRedisCommand
  BY Zenon, <1>6, ReplayStepInv, ReplayDoneInv, HandleRedisCommandInv
<1>7. CASE Cut
  <2>1. Closing /\ UNCHANGED <<data, crashes, midCrashes>> /\ cuts < MaxCuts /\ cuts' = cuts + 1
    BY <1>7 DEF Cut
  <2>2. cuts' \in 0 .. MaxCuts
    BY <1>0, <2>1, SlaveAssumption
  <2> QED BY Zenon, <2>1, <2>2, ClosingInv
<1>8. CASE Crash \/ MidCrash
  BY Zenon, <1>8, CrashInv
<1>9. CASE UNCHANGED vars
  <2>1. /\ UNCHANGED <<mlog, was, mcur>> /\ UNCHANGED <<m, net, psync>>
        /\ UNCHANGED <<st, slaveLog, place, data, counts>>
    BY <1>9 DEF vars, slaveLog, place, data, counts
  <2>2. MasterKept /\ MasterInv' /\ MasterTypes'
    BY Zenon, <2>1, MasterStays DEF SlaveInv
  <2>3. SlaveTypes' /\ LogInv' /\ DataInv'
    BY Zenon, <2>1, <2>2, SlaveSide
  <2>4. WireTypes'
    BY Zenon, <2>1, TypesSplit DEF SlaveInv, WireTypes
  <2>5. WALEnd' = WALEnd
    BY <2>1 DEF WALEnd, slaveLog
  <2>6. WireInv' /\ NetInv'
    BY Zenon, <2>1, <2>5 DEF SlaveInv, WireInv, NetInv, slaveLog, place
  <2> QED BY <2>2, <2>3, <2>4, <2>6, NextTypes DEF SlaveInv
<1> QED BY Zenon, <1>1, <1>2, <1>3, <1>4, <1>5, <1>6, <1>7, <1>8, <1>9 DEF Next, SlaveStep

\* The inductive invariant holds in every reachable state.
THEOREM SlaveInvCorrect == Spec => []SlaveInv
<1>1. Init => SlaveInv
  BY InitInv
<1>2. SlaveInv /\ [Next]_vars => SlaveInv'
  BY NextInv
<1> QED BY <1>1, <1>2, PTL DEF Spec

\* Every variable keeps its type, and no offset of the slave leaves the
\* master's log.
THEOREM SlaveTypeCorrect == Spec => []TypeOK
<1>1. SlaveInv => TypeOK
  BY DEF SlaveInv, Types
<1> QED BY <1>1, SlaveInvCorrect, PTL

\* The slave's log is a piece of the master's, for any backlogs, any cuts and
\* any crashes (DirectWriteWAL, ResetWALOffsetCksm).
THEOREM LogIsMastersCorrect == Spec => []LogIsMasters
<1>1. SlaveInv => LogIsMasters
  BY DEF SlaveInv, LogInv
<1> QED BY <1>1, SlaveInvCorrect, PTL

\* No slave serves from a dump that was not loaded to its end, whatever was cut
\* off or crashed in between (the random key of LoadSyncedSnapshot).
THEOREM LoadedBeforeSyncedCorrect == Spec => []LoadedBeforeSynced
<1>1. SlaveInv => LoadedBeforeSynced
  BY DEF SlaveInv, LogInv, DataInv, LoadedBeforeSynced
<1> QED BY <1>1, SlaveInvCorrect, PTL

\* A slave that has not crashed is where the master was at its offset, whatever
\* connections broke, if the master's log held a write when it was first asked
\* to synchronise: with an empty log ReplayWAL cannot tell that its connection
\* is gone, and keeps the key.
THEOREM SlaveFollowsCorrect ==
    ASSUME First # NoNamespace
    PROVE  Spec => []SlaveFollows
<1>1. SlaveInv => SlaveFollows
  <2> SUFFICES ASSUME SlaveInv PROVE SlaveFollows
    OBVIOUS
  <2>1. st = "synced" => sync = WALEnd /\ key = "master"
    BY DEF SlaveInv, LogInv
  <2>2. Image(sync) = ImageOf(was, sync)
    BY DEF Image, ImageOf
  <2>3. crashes + midCrashes = 0 /\ st = "replaying" => db = ImageOf(was, sync)
    BY Zenon DEF SlaveInv, DataInv
  <2>4. crashes + midCrashes = 0 /\ st = "synced" => db = ImageOf(was, sync)
    BY <2>1 DEF SlaveInv, DataInv
  <2> QED BY Zenon, <2>1, <2>2, <2>3, <2>4 DEF SlaveFollows
<1> QED BY <1>1, SlaveInvCorrect, PTL
=============================================================================
