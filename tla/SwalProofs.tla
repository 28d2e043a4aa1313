----------------------------- MODULE SwalProofs -----------------------------
(***************************************************************************)
(* Proofs about Swal, for every file size, cache size, log length and       *)
(* offset bound.                                                            *)
(***************************************************************************)
EXTENDS Swal, TLAPS

\* How far a call in progress has come fixes where its bytes are.
CallInv ==
    /\ pc = "idle" => len = 0
    /\ pc = "write" => end + len <= MaxOffset
    /\ pc \in {"start", "cksm", "ring"} => len <= end
    /\ pc \in {"start", "cksm"} => done = len

TypeInv == TypeOK /\ CallInv

\* A function on 1 .. n is a sequence.
LEMMA FunIsSeq ==
    ASSUME NEW S, NEW n \in Nat, NEW f \in [1 .. n -> S]
    PROVE  f \in Seq(S) /\ Len(f) = n
BY SMT

\* The logs appended are sequences of at most MaxLog bytes.
LEMMA LogsType ==
    ASSUME NEW log \in Logs
    PROVE  log \in Seq(Byte) /\ Len(log) \in 1 .. MaxLog
           /\ \A i \in 1 .. Len(log) : log[i] \in Byte
<1>1. PICK n \in 1 .. MaxLog : log \in [1 .. n -> Byte]
  BY DEF Logs
<1>2. n \in Nat
  BY SwalAssumption
<1>3. log \in Seq(Byte) /\ Len(log) = n
  BY <1>1, <1>2, FunIsSeq
<1> QED
  BY <1>1, <1>3

\* What swal_append adds to the checksum is a sequence of bytes.
LEMMA LoggedType ==
    ASSUME TypeInv, NEW o \in Offsets, NEW p \in Offsets, o <= p
    PROVE  Logged(o, p) \in Seq(Byte)
<1>1. p - o \in Nat
  BY SwalAssumption DEF Offsets
<1>2. Logged(o, p) \in [1 .. p - o -> Byte]
  BY SwalAssumption DEF Logged, TypeInv, TypeOK, Offsets
<1> QED
  BY <1>1, <1>2, FunIsSeq

\* Every step keeps the types and the bookkeeping of the call in progress.
LEMMA TypeStep == TypeInv /\ [Next]_vars => TypeInv'
<1> SUFFICES ASSUME TypeInv, [Next]_vars PROVE TypeInv'
  OBVIOUS
<1> USE SwalAssumption DEF Offsets, FilePos, RingPos
<1>1. ASSUME NEW log \in Logs, AppendBegin(log) PROVE TypeInv'
  <2>1. Len(log) \in 1 .. MaxLog /\ \A i \in 1 .. Len(log) : log[i] \in Byte
    BY LogsType
  <2>2. logged' \in [Offsets -> Byte]
    BY SMTT(30), <1>1, <2>1 DEF AppendBegin, TypeInv, TypeOK
  <2> QED
    BY <1>1, <2>1, <2>2
       DEF AppendBegin, TypeInv, TypeOK, CallInv, meta, disk, cache
<1>2. ASSUME NEW k \in 0 .. FileChunkLen, WriteChunk(k),
             faults' \in 0 .. MaxFaults
      PROVE  TypeInv'
  <2>1. FileChunkLen \in 1 .. FileSize - pos /\ done + FileChunkLen <= len
    BY <1>2 DEF WriteChunk, FileChunkLen, Smaller, TypeInv, TypeOK
  <2>2. file' \in [FilePos -> Byte]
    BY <1>2, <2>1 DEF WriteChunk, Written, TypeInv, TypeOK, CallInv
  <2>3. good' \in Offsets
    BY <1>2 DEF WriteChunk, TypeInv, TypeOK, CallInv, Larger
  <2>4. pos' \in FilePos /\ fdpos' \in 0 .. pos' /\ done' \in 0 .. len'
    BY SMTT(30), <1>2, <2>1 DEF WriteChunk, TypeInv, TypeOK
  <2> QED
    BY SMTT(30), <1>2, <2>1, <2>2, <2>3, <2>4
       DEF WriteChunk, TypeInv, TypeOK, CallInv, cache
<1>3. CASE FileChunk
  <2>1. FileChunkLen \in 0 .. FileChunkLen
    BY <1>3 DEF FileChunk, WriteChunk, FileChunkLen, Smaller, TypeInv, TypeOK
  <2> QED
    BY Zenon, <1>2, <1>3, <2>1 DEF FileChunk, TypeInv, TypeOK
<1>4. ASSUME NEW k \in 1 .. FileSize, ShortWrite(k) PROVE TypeInv'
  <2>1. FileChunkLen \in Int
    BY DEF FileChunkLen, Smaller, TypeInv, TypeOK
  <2>2. k \in 0 .. FileChunkLen
    BY <1>4, <2>1 DEF ShortWrite
  <2>3. faults' \in 0 .. MaxFaults
    BY <1>4 DEF ShortWrite, Fault, TypeInv, TypeOK
  <2> QED
    BY <1>2, <1>4, <2>2, <2>3 DEF ShortWrite
<1>5. CASE WriteFail
  BY <1>5 DEF WriteFail, Return, Fault, TypeInv, TypeOK, CallInv,
              meta, disk, cache
<1>6. CASE CommitEnd
  BY <1>6 DEF CommitEnd, TypeInv, TypeOK, CallInv, disk, cache, history
<1>7. CASE CommitStart
  BY <1>7 DEF CommitStart, TypeInv, TypeOK, CallInv, disk, cache, history
<1>8. CASE CommitCksm
  <2>1. end - len \in Offsets /\ end \in Offsets /\ end - len <= end
    BY <1>8 DEF CommitCksm, TypeInv, TypeOK, CallInv
  <2>2. Logged(end - len, end) \in Seq(Byte)
    BY <2>1, LoggedType
  <2>3. cksm' \in Seq(Byte)
    BY <1>8, <2>2 DEF CommitCksm, TypeInv, TypeOK
  <2> QED
    BY <1>8, <2>3 DEF CommitCksm, TypeInv, TypeOK, CallInv, disk, cache
<1>9. CASE RingChunk
  <2>1. RingChunkLen \in 1 .. RingSize - ridx /\ done + RingChunkLen <= len
    BY <1>9 DEF RingChunk, RingChunkLen, Smaller, Larger, TypeInv, TypeOK
  <2>2. ring' \in [RingPos -> Byte]
    BY <1>9, <2>1 DEF RingChunk, TypeInv, TypeOK, CallInv
  <2>3. ridx' \in RingPos \cup {0} /\ done' \in 0 .. len'
    BY <1>9, <2>1 DEF RingChunk, TypeInv, TypeOK, Larger
  <2> QED
    BY <1>9, <2>1, <2>2, <2>3
       DEF RingChunk, TypeInv, TypeOK, CallInv, meta, disk, history
<1>10. CASE RingCommit
  BY <1>10, SMTT(60) DEF RingCommit, Return, TypeInv, TypeOK, CallInv, meta, disk
<1>11. ASSUME NEW offset \in ResetOffsets, NEW c \in {<< >>, <<Zero>>},
              Reset(offset, c)
       PROVE  TypeInv'
  <2>1. << >> \in Seq(Byte) /\ <<Zero>> \in Seq(Byte)
    OBVIOUS
  <2>2. offset \in Offsets
    OBVIOUS
  <2>3. published' \in [Offsets -> Seq(Byte)]
    BY Zenon, <1>11, <2>1 DEF Reset
  <2> QED
    BY <1>11, <2>1, <2>2, <2>3, SMTT(60)
       DEF Reset, Fault, TypeInv, TypeOK, CallInv, Larger, call
<1>a. ASSUME Open, Return, UNCHANGED meta, file' \in [FilePos -> Byte],
             good' \in Offsets, published' \in [Offsets -> Seq(Byte)],
             faults' \in 0 .. MaxFaults
      PROVE  TypeInv'
  <2>1. logged' \in [Offsets -> Byte]
    BY <1>a DEF Return, TypeInv, TypeOK
  <2>2. ring' \in [RingPos -> Byte] /\ ridx' = 0 /\ rstart' \in Offsets
    BY <1>a DEF Open, TypeInv, TypeOK
  <2>3. UNCHANGED <<start, end, pos, cksm>> /\ fdpos' = pos
        /\ pc' = "idle" /\ len' = 0 /\ done' = 0
    BY <1>a DEF Open, Return, meta
  <2>4. CallInv'
    BY <2>3 DEF CallInv
  <2>5. fdpos' \in 0 .. pos' /\ len' \in 0 .. MaxLog /\ done' \in 0 .. len'
    BY <2>3 DEF TypeInv, TypeOK
  <2> HIDE DEF Offsets, RingPos
  <2>6. TypeOK'
    BY SMTT(30), <1>a, <2>1, <2>2, <2>3, <2>5 DEF TypeInv, TypeOK
  <2> QED
    BY <2>4, <2>6 DEF TypeInv
<1>12. ASSUME NEW k \in 0 .. FileSize, CrashInWrite(k) PROVE TypeInv'
  <2>1. FileChunkLen \in 0 .. FileSize - pos /\ done + FileChunkLen <= len
    BY <1>12 DEF CrashInWrite, FileChunkLen, Smaller, TypeInv, TypeOK
  <2>2. file' \in [FilePos -> Byte]
    BY <1>12, <2>1 DEF CrashInWrite, Written, TypeInv, TypeOK, CallInv
  <2>3. good' \in Offsets /\ published' \in [Offsets -> Seq(Byte)]
        /\ faults' \in 0 .. MaxFaults
    BY <1>12 DEF CrashInWrite, Fault, TypeInv, TypeOK
  <2> QED
    BY <1>a, <1>12, <2>2, <2>3 DEF CrashInWrite
<1>13. CASE Crash
  <2>1. published' \in [Offsets -> Seq(Byte)]
    BY <1>13 DEF Crash, TypeInv, TypeOK
  <2>2. good' \in Offsets /\ faults' \in 0 .. MaxFaults
        /\ file' \in [FilePos -> Byte]
    BY <1>13 DEF Crash, Fault, Larger, TypeInv, TypeOK
  <2> QED
    BY <1>a, <1>13, <2>1, <2>2 DEF Crash
<1>14. CASE Restart
  BY <1>14, SMTT(60) DEF Restart, Open, TypeInv, TypeOK, CallInv, Larger, meta, call,
               history
<1>15. CASE UNCHANGED vars
  BY <1>15 DEF vars, TypeInv, TypeOK, CallInv
<1> QED
  BY <1>1, <1>3, <1>4, <1>5, <1>6, <1>7, <1>8, <1>9, <1>10, <1>11, <1>12,
     <1>13, <1>14, <1>15 DEF Next

\* Every step keeps the file in agreement with the log.
LEMMA FileStep == TypeInv /\ FileInv /\ [Next]_vars => FileInv'
<1> SUFFICES ASSUME TypeInv, FileInv, [Next]_vars PROVE FileInv'
  OBVIOUS
<1>0. TypeInv'
  BY TypeStep
\* Nothing is held from the end of the file's content on.
<1>a. ASSUME good' >= FileEnd' PROVE FileInv'
  <2>1. good' \in Int
    BY <1>0, SwalAssumption DEF TypeInv, TypeOK, Offsets
  <2>2. FileEnd' \in Int
    <3>1. end' \in Int /\ done' \in Int
      BY <1>0, SwalAssumption DEF TypeInv, TypeOK, Offsets
    <3> QED
      BY <3>1 DEF FileEnd
  <2>3. \A o \in Offsets : ~Held(o)'
    BY <1>a, <2>1, <2>2, SwalAssumption DEF Held, Offsets
  <2> QED
    BY <1>a, <2>1, <2>2, <2>3 DEF FileInv
<1> USE SwalAssumption DEF Offsets, FilePos, Larger
<1>1. ASSUME NEW log \in Logs, AppendBegin(log) PROVE FileInv'
  <2>1. FileEnd' = FileEnd /\ FileEnd = end
    BY <1>1 DEF AppendBegin, FileEnd, TypeInv, TypeOK, meta
  <2>2. \A o \in Offsets : FileIndex(o)' = FileIndex(o)
    BY <1>1, <2>1 DEF AppendBegin, FileIndex, meta
  <2>3. \A o \in Offsets : o < end => logged'[o] = logged[o]
    BY <1>1 DEF AppendBegin, TypeInv, TypeOK
  <2> QED
    BY <1>1, <2>1, <2>2, <2>3 DEF AppendBegin, FileInv, Held, meta, disk
<1>2. CASE FileChunk
  <2> DEFINE n == FileChunkLen
  <2>1. /\ n \in 1 .. FileSize - pos /\ done + n <= len
        /\ pc = "write" /\ pc' = "write" /\ end' = end /\ start' = start
        /\ done' = done + n /\ logged' = logged
    BY <1>2 DEF FileChunk, WriteChunk, FileChunkLen, Smaller, TypeInv, TypeOK
  <2>2. FileEnd = end + done /\ FileEnd' = FileEnd + n
    BY <2>1 DEF FileEnd, TypeInv, TypeOK
  <2>3. CASE fdpos # pos
    <3>1. good' >= end + len
      BY <1>2, <2>1, <2>3 DEF FileChunk, WriteChunk, TypeInv, TypeOK
    <3>2. good' \in Int /\ end + len >= FileEnd' /\ FileEnd' \in Int
      BY <1>0, <2>1, <2>2 DEF TypeInv, TypeOK
    <3>3. good' >= FileEnd'
      BY <3>1, <3>2 DEF TypeInv, TypeOK
    <3> QED
      BY <1>a, <3>3
  <2>4. CASE fdpos = pos
    <3>1. /\ good' = good /\ file' = Written(n)
          /\ IF pos + n = FileSize THEN pos' = 0 /\ fdpos' = 0
             ELSE pos' = pos + n /\ fdpos' = pos + n
      BY <1>2, <2>1, <2>4 DEF FileChunk, WriteChunk
    <3>2. fdpos' = pos'
      BY <3>1
    <3>3. ASSUME NEW o \in Offsets, Held(o)'
          PROVE  file'[FileIndex(o)'] = logged[o]
      <4>1. start <= o /\ good <= o /\ FileEnd + n - FileSize <= o
            /\ o < FileEnd + n
        BY <2>1, <2>2, <3>1, <3>3 DEF Held, TypeInv, TypeOK
      <4>2. CASE o >= FileEnd
        <5>1. FileIndex(o)' = pos + (o - FileEnd)
          BY <2>1, <2>2, <3>1, <4>1, <4>2 DEF FileIndex, TypeInv, TypeOK
        <5>2. pos <= pos + (o - FileEnd) /\ pos + (o - FileEnd) < pos + n
              /\ pos + (o - FileEnd) \in FilePos
          BY <2>1, <2>2, <4>1, <4>2 DEF TypeInv, TypeOK
        <5> QED
          BY <2>1, <2>2, <2>4, <3>1, <5>1, <5>2 DEF Written, TypeInv, TypeOK
      <4>3. CASE o < FileEnd
        <5>1. FileIndex(o)' = FileIndex(o)
          BY <2>1, <2>2, <3>1, <4>1, <4>3 DEF FileIndex, TypeInv, TypeOK
        <5>2. FileIndex(o) \in FilePos
              /\ ~(pos <= FileIndex(o) /\ FileIndex(o) < pos + n)
          BY <2>1, <2>2, <4>1, <4>3 DEF FileIndex, TypeInv, TypeOK
        <5>3. Held(o)
          BY <2>1, <2>2, <4>1, <4>3 DEF Held, TypeInv, TypeOK
        <5>4. file'[FileIndex(o)] = file[FileIndex(o)]
          BY <2>4, <3>1, <5>2 DEF Written
        <5> QED
          BY <4>3, <5>1, <5>3, <5>4 DEF FileInv
      <4> QED
        BY <2>1, <2>2, <4>2, <4>3 DEF TypeInv, TypeOK
    <3> QED
      BY <2>1, <3>2, <3>3 DEF FileInv
  <2> QED
    BY <2>3, <2>4
<1>3. ASSUME NEW k \in 1 .. FileSize, ShortWrite(k) PROVE FileInv'
  <2>1. FileChunkLen \in Int
    BY DEF FileChunkLen, Smaller, TypeInv, TypeOK
  <2>2. good' >= end + len /\ pc' = "write" /\ end' = end
        /\ done' = done + FileChunkLen /\ pc = "write" /\ done < len
    BY <1>3, <2>1 DEF ShortWrite, WriteChunk, TypeInv, TypeOK
  <2>3. done' <= len
    BY <2>2 DEF FileChunkLen, Smaller, TypeInv, TypeOK
  <2>4. FileEnd' = end + done' /\ good' \in Int
    BY <1>0, <2>2 DEF FileEnd, TypeInv, TypeOK
  <2>5. good' >= FileEnd'
    BY <2>1, <2>2, <2>3, <2>4 DEF TypeInv, TypeOK
  <2> QED
    BY <1>a, <2>5
<1>4. ASSUME file' = file, UNCHANGED <<pos, fdpos, start, good>>,
             FileEnd' = FileEnd,
             \A o \in Offsets : o < FileEnd => logged'[o] = logged[o]
      PROVE  FileInv'
  <2>1. \A o \in Offsets : (Held(o)' <=> Held(o)) /\ (Held(o) => o < FileEnd)
    BY <1>4 DEF Held
  <2>2. \A o \in Offsets : FileIndex(o)' = FileIndex(o)
    BY <1>4 DEF FileIndex
  <2> QED
    BY <1>4, <2>1, <2>2 DEF FileInv
<1>5. CASE WriteFail
  <2>1. end' = end /\ pc' = "idle" /\ pc = "write" /\ FileEnd' = end
    BY <1>5 DEF WriteFail, Return, meta, FileEnd
  <2>2. CASE done = 0
    <3>1. FileEnd = end
      BY <2>1, <2>2 DEF FileEnd, TypeInv, TypeOK
    <3>2. \A o \in Offsets : o < FileEnd => logged'[o] = logged[o]
      BY <1>5, <3>1 DEF WriteFail, Return
    <3> QED
      BY <1>4, <1>5, <2>1, <2>2, <3>1, <3>2 DEF WriteFail, meta, disk
  <2>3. CASE done # 0
    BY <1>a, <1>5, <2>1, <2>3 DEF WriteFail, TypeInv, TypeOK
  <2> QED
    BY <2>2, <2>3
<1>6. CASE CommitEnd
  <2>1. FileEnd' = FileEnd
    BY <1>6 DEF CommitEnd, FileEnd
  <2> QED
    BY <1>4, <1>6, <2>1 DEF CommitEnd, disk, history
<1>7. CASE CommitStart
  <2>1. FileEnd' = FileEnd /\ FileEnd = end
    BY <1>7 DEF CommitStart, FileEnd
  <2>2. \A o \in Offsets : Held(o)' => Held(o)
    BY <1>7, <2>1 DEF CommitStart, Held, TypeInv, TypeOK, history
  <2>3. \A o \in Offsets : FileIndex(o)' = FileIndex(o)
    BY <1>7, <2>1 DEF CommitStart, FileIndex
  <2>4. UNCHANGED <<file, fdpos, pos, good, logged>>
    BY <1>7 DEF CommitStart, disk, history
  <2> QED
    BY <2>1, <2>2, <2>3, <2>4 DEF FileInv
<1>8. CASE CommitCksm
  <2>1. FileEnd' = FileEnd
    BY <1>8 DEF CommitCksm, FileEnd
  <2> QED
    BY <1>4, <1>8, <2>1 DEF CommitCksm, disk
<1>9. CASE RingChunk
  <2>1. FileEnd' = FileEnd
    BY <1>9 DEF RingChunk, FileEnd, meta
  <2> QED
    BY <1>4, <1>9, <2>1 DEF RingChunk, meta, disk, history
<1>10. CASE RingCommit
  <2>1. FileEnd' = FileEnd /\ FileEnd = end
    BY <1>10 DEF RingCommit, Return, FileEnd, meta
  <2>2. \A o \in Offsets : o < FileEnd => logged'[o] = logged[o]
    BY <1>10, <2>1 DEF RingCommit, Return
  <2> QED
    BY <1>4, <1>10, <2>1, <2>2 DEF RingCommit, meta, disk
<1>11. ASSUME NEW offset \in ResetOffsets, NEW c \in {<< >>, <<Zero>>},
              Reset(offset, c)
       PROVE  FileInv'
  <2>1. good' = offset /\ end' = offset /\ pc' = "idle"
    BY <1>11 DEF Reset, call
  <2> QED
    BY <1>a, <2>1 DEF FileEnd
<1>12. ASSUME NEW k \in 0 .. FileSize, CrashInWrite(k) PROVE FileInv'
  <2>1. end' = end /\ pc' = "idle" /\ pc = "write" /\ FileEnd' = end
    BY <1>12 DEF CrashInWrite, Return, meta, FileEnd
  <2>2. CASE done = 0 /\ k = 0
    <3>1. FileEnd = end
      BY <2>1, <2>2 DEF FileEnd, TypeInv, TypeOK
    <3>2. \A o \in Offsets : o < FileEnd => logged'[o] = logged[o]
      BY <1>12, <3>1 DEF CrashInWrite, Return
    <3>3. file' = file
      BY <1>12, <2>2 DEF CrashInWrite, Written, TypeInv, TypeOK
    <3>4. \A o \in Offsets : /\ FileIndex(o)' = FileIndex(o)
                             /\ Held(o)' <=> Held(o)
                             /\ Held(o) => o < FileEnd
      BY <1>12, <2>1, <2>2, <3>1 DEF CrashInWrite, Held, FileIndex, meta
    <3>5. fdpos' = pos'
      BY <1>12 DEF CrashInWrite, Open, meta
    <3>6. ASSUME NEW o \in Offsets, Held(o)'
          PROVE  file'[FileIndex(o)'] = logged'[o]
      <4>1. Held(o) /\ FileIndex(o)' = FileIndex(o) /\ o < FileEnd
        BY <3>4, <3>6
      <4>2. file[FileIndex(o)] = logged[o]
        BY <4>1 DEF FileInv
      <4>3. logged'[o] = logged[o]
        BY <3>2, <4>1
      <4> QED
        BY <3>3, <4>1, <4>2, <4>3
    <3> QED
      BY <3>5, <3>6 DEF FileInv
  <2>3. CASE ~(done = 0 /\ k = 0)
    BY <1>a, <1>12, <2>1, <2>3 DEF CrashInWrite, TypeInv, TypeOK
  <2> QED
    BY <2>2, <2>3
<1>13. CASE Crash \/ Restart
  <2>1. UNCHANGED <<start, end, pos, file>> /\ pc' = "idle" /\ fdpos' = pos
        /\ pc # "write"
    BY <1>13 DEF Crash, Restart, Open, Return, meta, call
  <2>2. FileEnd' = FileEnd /\ FileEnd = end
    BY <2>1 DEF FileEnd
  <2>3. good' >= good /\ good' \in Int /\ good \in Int
    <3>1. CASE Crash
      BY <3>1 DEF Crash, TypeInv, TypeOK
    <3>2. CASE Restart
      BY <3>2 DEF Restart, history, TypeInv, TypeOK
    <3> QED
      BY <1>13, <3>1, <3>2
  <2>4. \A o \in Offsets : Held(o)' => Held(o) /\ o < end
    BY <2>1, <2>2, <2>3 DEF Held
  <2>5. \A o \in Offsets : FileIndex(o)' = FileIndex(o)
    BY <2>1, <2>2 DEF FileIndex
  <2>6. \A o \in Offsets : o < end => logged'[o] = logged[o]
    BY <1>13 DEF Crash, Restart, Return, history
  <2> QED
    BY <2>1, <2>2, <2>4, <2>5, <2>6 DEF FileInv, TypeInv, TypeOK
<1>14. CASE UNCHANGED vars
  <2>1. FileEnd' = FileEnd
    BY <1>14 DEF vars, FileEnd
  <2> QED
    BY <1>4, <1>14, <2>1 DEF vars
<1> QED
  BY <1>1, <1>2, <1>3, <1>5, <1>6, <1>7, <1>8, <1>9, <1>10, <1>11, <1>12,
     <1>13, <1>14 DEF Next

\* Every step keeps the ring cache in agreement with the log.
LEMMA RingStep == TypeInv /\ RingInv /\ [Next]_vars => RingInv'
<1> SUFFICES ASSUME TypeInv, RingInv, [Next]_vars, RingSize > 0 PROVE RingInv'
  BY DEF RingInv
<1> USE SwalAssumption DEF Offsets, RingPos
<1>a. /\ rstart <= RingEnd
      /\ pc # "ring" => RingEnd - rstart <= RingSize
      /\ \A o \in Offsets : Cached(o) => ring[RingIndex(o)] = logged[o]
      /\ RingEnd \in Int
  <2>1. RingEnd \in Int
    BY DEF RingEnd, TypeInv, TypeOK, CallInv
  <2> QED
    BY <2>1 DEF RingInv
\* Enough for a step that only forgets part of the buffer of the call.
<1>b. ASSUME UNCHANGED <<ring, ridx, rstart>>, RingEnd' = RingEnd,
             pc # "ring" \/ RingEnd - rstart <= RingSize,
             \A o \in Offsets : o < RingEnd => logged'[o] = logged[o]
      PROVE  RingInv'
  <2>1. \A o \in Offsets : RingIndex(o)' = RingIndex(o)
    BY <1>b DEF RingIndex
  <2> QED
    BY <1>a, <1>b, <2>1 DEF RingInv, Cached
\* An empty cache.
<1>c. ASSUME rstart' = RingEnd', rstart' \in Int PROVE RingInv'
  <2>1. \A o \in Offsets : ~Cached(o)'
    BY <1>c DEF Cached
  <2>2. \A a \in Int : a <= a /\ a - a <= RingSize
    OBVIOUS
  <2>3. rstart' <= RingEnd' /\ RingEnd' - rstart' <= RingSize
    BY <1>c, <2>2, Zenon
  <2> QED
    BY <2>1, <2>3, Zenon DEF RingInv
<1>1. ASSUME NEW log \in Logs, AppendBegin(log) PROVE RingInv'
  <2>1. RingEnd' = RingEnd /\ RingEnd = end /\ pc # "ring"
    BY <1>1 DEF AppendBegin, RingEnd, meta
  <2>2. \A o \in Offsets : o < RingEnd => logged'[o] = logged[o]
    BY <1>1, <2>1 DEF AppendBegin, TypeInv, TypeOK
  <2> QED
    BY <1>1, <1>b, <2>1, <2>2 DEF AppendBegin, cache
<1>2. ASSUME NEW k, WriteChunk(k) PROVE RingInv'
  <2>1. RingEnd' = RingEnd /\ pc # "ring"
    BY <1>2 DEF WriteChunk, RingEnd
  <2> QED
    BY <1>2, <1>b, <2>1 DEF WriteChunk, cache
<1>3. CASE WriteFail
  <2>1. RingEnd' = RingEnd /\ RingEnd = end /\ pc # "ring"
    BY <1>3 DEF WriteFail, Return, RingEnd, meta
  <2>2. \A o \in Offsets : o < RingEnd => logged'[o] = logged[o]
    BY <1>3, <2>1 DEF WriteFail, Return
  <2> QED
    BY <1>3, <1>b, <2>1, <2>2 DEF WriteFail, cache
<1>4. CASE CommitEnd
  <2>1. RingEnd' = RingEnd /\ pc # "ring"
    BY <1>4 DEF CommitEnd, RingEnd, TypeInv, TypeOK
  <2> QED
    BY <1>4, <1>b, <2>1 DEF CommitEnd, cache, history
<1>5. CASE CommitStart
  <2>1. RingEnd' = RingEnd /\ pc # "ring"
    BY <1>5 DEF CommitStart, RingEnd
  <2> QED
    BY <1>5, <1>b, <2>1 DEF CommitStart, cache, history
<1>6. CASE CommitCksm
  <2>1. RingEnd' = RingEnd /\ pc # "ring"
    BY <1>6 DEF CommitCksm, RingEnd, TypeInv, TypeOK
  <2> QED
    BY <1>6, <1>b, <2>1 DEF CommitCksm, cache
<1>7. CASE RingChunk
  <2> DEFINE n == RingChunkLen
  <2>1. /\ n \in 1 .. RingSize - ridx /\ done + n <= len
        /\ ridx \in RingPos /\ ridx' \in RingPos
        /\ RingEnd = end - len + done /\ RingEnd' = RingEnd + n
        /\ UNCHANGED <<rstart, logged>> /\ pc' = "ring"
        /\ end - len \in Nat
    BY SMTT(30), <1>7 DEF RingChunk, RingChunkLen, Smaller, RingEnd, TypeInv, TypeOK,
                CallInv, meta, history
  <2>a. ridx' = IF ridx + n = RingSize THEN 0 ELSE ridx + n
    BY <1>7 DEF RingChunk
  <2>b. RingEnd \in Int /\ end - len + done \in Int /\ n \in Int /\ ridx \in Int
    BY <2>1 DEF TypeInv, TypeOK
  <2> HIDE DEF n
  <2>2. ASSUME NEW o \in Offsets, rstart <= o, RingEnd + n - RingSize <= o,
               o < RingEnd + n
        PROVE  ring'[RingIndex(o)'] = logged[o]
    <3>1. CASE o >= RingEnd
      <4>1. RingIndex(o)' = ridx + (o - RingEnd)
        BY <2>1, <2>a, <2>b, <2>2, <3>1 DEF RingIndex
      <4>2. ridx <= ridx + (o - RingEnd) /\ ridx + (o - RingEnd) < ridx + n
            /\ ridx + (o - RingEnd) \in RingPos
        BY <2>1, <2>2, <3>1
      <4> QED
        BY <1>7, <2>1, <4>1, <4>2 DEF RingChunk, TypeInv, TypeOK, n
    <3>2. CASE o < RingEnd
      <4>1. RingIndex(o)' = RingIndex(o)
        BY <2>1, <2>a, <2>b, <2>2, <3>2 DEF RingIndex
      <4>2. RingIndex(o) \in RingPos
            /\ ~(ridx <= RingIndex(o) /\ RingIndex(o) < ridx + n)
        BY <2>1, <2>2, <3>2 DEF RingIndex
      <4>3. ring'[RingIndex(o)] = ring[RingIndex(o)]
        BY <1>7, <4>2 DEF RingChunk, n
      <4>4. Cached(o)
        BY <2>1, <2>2, <3>2 DEF Cached
      <4> QED
        BY <1>a, <4>1, <4>3, <4>4
    <3> QED
      BY SMTT(30), <2>1, <3>1, <3>2 DEF TypeInv, TypeOK
  <2>3. ASSUME NEW o \in Offsets, Cached(o)'
        PROVE  ring'[RingIndex(o)'] = logged'[o]
    <3>1. rstart <= o /\ RingEnd + n - RingSize <= o /\ o < RingEnd + n
      BY <2>1, <2>b, <2>3 DEF Cached
    <3> QED
      BY <2>1, <2>2, <3>1
  <2>4. rstart' <= RingEnd'
    BY <1>a, <2>1, <2>b DEF TypeInv, TypeOK
  <2> QED
    BY SMTT(30), <2>1, <2>3, <2>4 DEF RingInv
<1>8. CASE RingCommit
  <2>1. /\ RingEnd = end /\ RingEnd' = end /\ pc' = "idle"
        /\ UNCHANGED <<ring, ridx>>
        /\ rstart' = IF end - rstart >= RingSize THEN end - RingSize
                     ELSE rstart
    BY <1>8 DEF RingCommit, Return, RingEnd, TypeInv, TypeOK, meta
  <2>2. \A o \in Offsets : o < end => logged'[o] = logged[o]
    BY <1>8 DEF RingCommit, Return
  <2>3. \A o \in Offsets : RingIndex(o)' = RingIndex(o)
    BY <2>1 DEF RingIndex
  <2>4. \A o \in Offsets : Cached(o)' => Cached(o) /\ o < end
    BY <2>1 DEF Cached, TypeInv, TypeOK
  <2>5. \A o \in Offsets : Cached(o)' => ring'[RingIndex(o)'] = logged'[o]
    BY <1>a, <2>1, <2>2, <2>3, <2>4
  <2> QED
    BY <1>a, <2>1, <2>5 DEF RingInv, Cached, TypeInv, TypeOK
<1>9. ASSUME NEW offset \in ResetOffsets, NEW c \in {<< >>, <<Zero>>},
             Reset(offset, c)
      PROVE  RingInv'
  <2>1. rstart' = offset /\ end' = offset /\ pc' = "idle"
    BY <1>9 DEF Reset, call
  <2> QED
    BY <1>c, <2>1 DEF RingEnd
<1>10. ASSUME Open, end' = end, pc' = "idle" PROVE RingInv'
  BY SMTT(30), <1>c, <1>10 DEF Open, RingEnd, TypeInv, TypeOK
<1>11. CASE UNCHANGED vars
  <2>1. RingEnd' = RingEnd
    BY <1>11 DEF vars, RingEnd
  <2>2. \A o \in Offsets : RingIndex(o)' = RingIndex(o)
    BY <1>11, <2>1 DEF vars, RingIndex
  <2> QED
    BY <1>a, <1>11, <2>1, <2>2 DEF vars, RingInv, Cached
<1>12. ASSUME NEW k \in 0 .. FileSize, CrashInWrite(k) PROVE RingInv'
  BY <1>10, <1>12 DEF CrashInWrite, Return, meta
<1>13. CASE Crash
  BY <1>10, <1>13 DEF Crash, Return, meta
<1>14. CASE Restart
  BY SMTT(30), <1>10, <1>14 DEF Restart, meta, call
<1> QED
  BY <1>1, <1>2, <1>3, <1>4, <1>5, <1>6, <1>7, <1>8, <1>9, <1>11, <1>12,
     <1>13, <1>14 DEF Next, FileChunk, ShortWrite

\* A buffer used as a ring, as swal_replay reads it: size bytes, the next one
\* going to idx, holding what was logged from offset on.
RingOf(mem, size, idx, offset) ==
    /\ size \in Nat \ {0}
    /\ idx \in 0 .. size - 1
    /\ end - offset <= size
    /\ \A o \in offset .. end - 1 : mem[Locate(size, idx, o)] = logged[o]

\* From its first byte on, a ring is read forward and around its end.
LEMMA Place ==
    ASSUME TypeInv, NEW offset \in Offsets, offset <= end,
           NEW STATE mem, NEW STATE size, NEW STATE idx,
           RingOf(mem, size, idx, offset)
    PROVE  LET p == Locate(size, idx, offset) IN
           /\ p \in 0 .. size - 1
           /\ idx >= end - offset => p + (end - offset) <= size
           /\ \A i \in 0 .. end - offset - 1 :
                mem[IF p + i < size THEN p + i ELSE p + i - size]
                  = logged[offset + i]
<1> USE SwalAssumption DEF Offsets
<1> DEFINE p == Locate(size, idx, offset)
<1>1. end \in Nat /\ offset \in Nat /\ size \in Nat /\ size # 0
      /\ idx \in 0 .. size - 1 /\ end - offset <= size
  BY DEF RingOf, TypeInv, TypeOK
<1>2. p \in 0 .. size - 1 /\ (idx >= end - offset => p + (end - offset) <= size)
  BY <1>1 DEF Locate
<1>3. ASSUME NEW i \in 0 .. end - offset - 1
      PROVE  mem[IF p + i < size THEN p + i ELSE p + i - size]
               = logged[offset + i]
  <2>1. Locate(size, idx, offset + i)
          = IF p + i < size THEN p + i ELSE p + i - size
    BY <1>1 DEF Locate
  <2>2. offset + i \in offset .. end - 1
    BY <1>1
  <2> QED
    BY <2>1, <2>2 DEF RingOf
<1> QED
  BY <1>2, <1>3

\* A call that reads up to the end of the buffer delivers the log.
LEMMA OneCallFaithful ==
    ASSUME TypeInv, NEW offset \in Offsets, offset <= end,
           NEW STATE mem, NEW STATE size, NEW STATE idx,
           RingOf(mem, size, idx, offset),
           NEW total \in 0 .. end - offset,
           Locate(size, idx, offset) + total <= size
    PROVE  Slice(mem, Locate(size, idx, offset), total)
             = Logged(offset, offset + total)
<1> USE SwalAssumption DEF Offsets
<1> DEFINE p == Locate(size, idx, offset)
<1>1. p \in 0 .. size - 1 /\ size \in Nat
  BY Zenon, Place DEF RingOf
<1>2. end \in Nat /\ offset \in Nat /\ offset + total - offset = total
  BY DEF TypeInv, TypeOK
<1>3. ASSUME NEW i \in 1 .. total
      PROVE  mem[p + i - 1] = logged[offset + i - 1]
  <2>1. i - 1 \in 0 .. end - offset - 1 /\ p + (i - 1) < size
        /\ p + (i - 1) = p + i - 1 /\ offset + (i - 1) = offset + i - 1
    BY <1>1, <1>2
  <2> QED
    BY <2>1, Place
<1> QED
  BY <1>2, <1>3 DEF Slice, Logged

\* Of two calls the first passes a tail of the buffer, and the second the rest
\* from where it says it starts.
TwoFaithful(calls, offset, total, tail) ==
    /\ calls[1].bytes = Logged(offset, offset + tail)
    /\ Len(calls[1].bytes) = tail
    /\ calls[1].at = 0
    /\ calls[2].bytes = Logged(offset + calls[2].at, offset + total)

\* The two calls of a replay that wraps deliver the log, whatever part of the
\* first the callback consumes.
LEMMA TwoCallsFaithful ==
    ASSUME TypeInv, NEW offset \in Offsets, offset <= end,
           NEW STATE mem, NEW STATE size, NEW STATE idx,
           RingOf(mem, size, idx, offset),
           NEW total \in 0 .. end - offset, NEW consumed \in Nat,
           Locate(size, idx, offset) + total >= size
    PROVE  TwoFaithful(TwoCalls(mem, size, Locate(size, idx, offset), total, consumed),
                       offset, total, size - Locate(size, idx, offset))
<1> USE SwalAssumption DEF Offsets
<1> DEFINE p == Locate(size, idx, offset)
           tlen == size - p
           hlen == p + total - size
           used == Smaller(consumed, tlen)
           rest == [i \in 1 .. tlen - used + hlen |->
                      IF i <= tlen - used THEN mem[p + used + i - 1]
                      ELSE mem[i - (tlen - used) - 1]]
           calls == TwoCalls(mem, size, p, total, consumed)
<1>1. p \in 0 .. size - 1 /\ size \in Nat
  BY Zenon, Place DEF RingOf
<1>2. end \in Nat /\ offset \in Nat /\ total \in Nat
  BY DEF TypeInv, TypeOK
<1>3. /\ calls[1].bytes = Slice(mem, p, tlen) /\ calls[1].at = 0
      /\ calls[2].bytes = rest /\ calls[2].at = used
  BY Zenon DEF TwoCalls
<1>4. tlen \in 0 .. total /\ hlen \in 0 .. total /\ tlen + hlen = total
      /\ used \in 0 .. tlen /\ p + tlen <= size
  BY <1>1, <1>2 DEF Smaller
<1>5. tlen \in 0 .. end - offset
  BY <1>2, <1>4
<1>6. Slice(mem, p, tlen) = Logged(offset, offset + tlen)
  BY <1>4, <1>5, OneCallFaithful
<1>7. Len(Slice(mem, p, tlen)) = tlen
  BY <1>4 DEF Slice
<1> HIDE DEF p, tlen, hlen, used
<1>8. ASSUME NEW i \in 1 .. total - used
      PROVE  (IF i <= tlen - used THEN mem[p + used + i - 1]
              ELSE mem[i - (tlen - used) - 1]) = logged[offset + used + i - 1]
  <2>1. used + i - 1 \in 0 .. end - offset - 1
    BY <1>2, <1>4
  <2>2. mem[IF p + (used + i - 1) < size THEN p + (used + i - 1)
            ELSE p + (used + i - 1) - size] = logged[offset + (used + i - 1)]
    BY <2>1, Place DEF p
  <2>3. /\ offset + (used + i - 1) = offset + used + i - 1
        /\ p + (used + i - 1) = p + used + i - 1
        /\ (i <= tlen - used) <=> (p + (used + i - 1) < size)
        /\ p + (used + i - 1) - size = i - (tlen - used) - 1
    BY SMTT(30), <1>1, <1>2, <1>4 DEF tlen
  <2> QED
    BY <2>2, <2>3
<1>9. rest = Logged(offset + used, offset + total)
  <2>1. tlen - used + hlen = total - used
        /\ offset + total - (offset + used) = total - used
    BY <1>2, <1>4
  <2>2. rest = [i \in 1 .. total - used |-> logged[offset + used + i - 1]]
    BY <1>8, <2>1
  <2>3. Logged(offset + used, offset + total)
          = [i \in 1 .. total - used |-> logged[offset + used + i - 1]]
    <3> DEFINE a == offset + used
               b == offset + total
    <3>1. b - a = total - used
      BY <1>2, <1>4
    <3> HIDE DEF a, b
    <3>2. Logged(a, b) = [i \in 1 .. total - used |-> logged[a + i - 1]]
      BY <3>1 DEF Logged
    <3> QED
      BY <3>2 DEF a, b
  <2> QED
    BY Zenon, <2>2, <2>3
<1> QED
  BY Zenon, <1>3, <1>6, <1>7, <1>9 DEF TwoFaithful, p, tlen, used

\* The inductive invariant.
IInv == TypeInv /\ FileInv /\ RingInv

\* A new log, or one swal_open has just created, satisfies it.
LEMMA InitInv == Init => IInv
<1> SUFFICES ASSUME Init PROVE IInv
  OBVIOUS
<1> USE SwalAssumption DEF Offsets, FilePos, RingPos
<1>1. TypeInv
  <2>1. << >> \in Seq(Byte)
    OBVIOUS
  <2>2. published \in [Offsets -> Seq(Byte)] /\ logged \in [Offsets -> Byte]
        /\ file \in [FilePos -> Byte]
    BY <2>1 DEF Init
  <2> QED
    BY <2>1, <2>2 DEF Init, TypeInv, TypeOK, CallInv
<1>2. FileInv
  BY DEF Init, FileInv, Held, FileEnd
<1>3. RingInv
  BY DEF Init, RingInv, Cached, RingEnd
<1> QED
  BY <1>1, <1>2, <1>3 DEF IInv

\* It holds after every append, fault, reset and restart.
LEMMA Invariance == Spec => []IInv
<1>1. IInv /\ [Next]_vars => IInv'
  BY TypeStep, FileStep, RingStep DEF IInv
<1> QED
  BY <1>1, InitInv, PTL DEF Spec

\* The fields of the log keep their ranges through every append, fault, reset
\* and restart.
THEOREM TypeCorrect == Spec => []TypeOK
<1>1. IInv => TypeOK
  BY DEF IInv, TypeInv
<1> QED
  BY <1>1, Invariance, PTL

\* Between two calls the file is a ring that holds the log from any offset on
\* that swal_replay may read.
LEMMA FileIsRing ==
    ASSUME IInv, pc = "idle", NEW offset \in Oldest .. end
    PROVE  /\ offset \in Offsets /\ start <= offset /\ offset <= end
           /\ RingOf(file, FileSize, pos, offset)
<1> USE SwalAssumption DEF Offsets, IInv
<1>1. /\ start \in Nat /\ good \in Nat /\ end \in 0 .. MaxOffset
      /\ FileEnd = end /\ pos \in 0 .. FileSize - 1
  BY DEF TypeInv, TypeOK, FileEnd, FilePos
<1>2. start <= offset /\ good <= offset /\ end - FileSize <= offset
      /\ offset <= end /\ offset \in Nat
  BY <1>1 DEF Oldest, Larger
<1>3. ASSUME NEW o \in offset .. end - 1
      PROVE  file[Locate(FileSize, pos, o)] = logged[o]
  <2>1. o \in Offsets /\ Held(o)
    BY <1>1, <1>2 DEF Held
  <2>2. FileIndex(o) = Locate(FileSize, pos, o)
    BY <1>1 DEF FileIndex, Locate
  <2> QED
    BY <2>1, <2>2 DEF FileInv
<1> QED
  BY <1>1, <1>2, <1>3 DEF RingOf

\* Between two calls the cache is a ring that holds the log from
\* ring_cache_start_offset on.
LEMMA CacheIsRing ==
    ASSUME IInv, pc = "idle", NEW offset \in start .. end, FromRing(offset)
    PROVE  offset \in Offsets /\ RingOf(ring, RingSize, ridx, offset)
<1> USE SwalAssumption DEF Offsets, IInv
<1>1. /\ start \in Nat /\ rstart \in Nat /\ end \in 0 .. MaxOffset
      /\ RingEnd = end /\ RingSize > 0 /\ ridx \in 0 .. RingSize - 1
  BY DEF TypeInv, TypeOK, RingEnd, FromRing, RingPos
<1>2. rstart <= offset /\ end - rstart <= RingSize /\ offset \in Nat
  BY <1>1 DEF FromRing, RingInv
<1>3. ASSUME NEW o \in offset .. end - 1
      PROVE  ring[Locate(RingSize, ridx, o)] = logged[o]
  <2>1. o \in Offsets /\ Cached(o)
    BY <1>1, <1>2 DEF Cached
  <2>2. RingIndex(o) = Locate(RingSize, ridx, o)
    BY <1>1 DEF RingIndex, Locate
  <2> QED
    BY <1>1, <2>1, <2>2 DEF RingInv
<1> QED
  BY <1>1, <1>2, <1>3 DEF RingOf

\* What Faithful asks of the calls made for total bytes from an offset on.
Delivers(calls, offset, total) ==
    \A n \in 1 .. Len(calls) :
       LET at == calls[n].at
           upto == IF n = Len(calls) THEN total ELSE Len(calls[n].bytes)
       IN  calls[n].bytes = Logged(offset + at, offset + upto)

\* One call that passes the log's bytes delivers them.
LEMMA OneDelivers ==
    ASSUME NEW calls, NEW offset, NEW total, Len(calls) = 1, calls[1].at = 0,
           offset + 0 = offset, calls[1].bytes = Logged(offset, offset + total)
    PROVE  Delivers(calls, offset, total)
  BY DEF Delivers

\* Two calls, the second of which starts again where the first left off, do.
LEMMA TwoDeliver ==
    ASSUME NEW calls, NEW offset, NEW total, NEW tail, Len(calls) = 2,
           offset + 0 = offset, TwoFaithful(calls, offset, total, tail)
    PROVE  Delivers(calls, offset, total)
<1>1. ASSUME NEW n \in 1 .. Len(calls)
      PROVE  LET at == calls[n].at
                 upto == IF n = Len(calls) THEN total ELSE Len(calls[n].bytes)
             IN  calls[n].bytes = Logged(offset + at, offset + upto)
  <2>1. n = 1 \/ n = 2
    BY <1>1
  <2>2. CASE n = 1
    BY <2>2 DEF TwoFaithful
  <2>3. CASE n = 2
    BY <2>3 DEF TwoFaithful
  <2> QED BY Zenon, <2>1, <2>2, <2>3
<1> QED BY Zenon, <1>1 DEF Delivers

\* Reading a ring in one call or, where it wraps, in two delivers the log.
LEMMA RingDelivers ==
    ASSUME TypeInv, NEW offset \in Offsets, offset <= end,
           NEW STATE mem, NEW STATE size, NEW STATE idx,
           RingOf(mem, size, idx, offset),
           NEW total \in 0 .. end - offset, NEW consumed \in Nat
    PROVE  LET p == Locate(size, idx, offset) IN
           /\ p + total <= size => Delivers(OneCall(mem, p, total), offset, total)
           /\ p + total >= size =>
                Delivers(TwoCalls(mem, size, p, total, consumed), offset, total)
<1> DEFINE p == Locate(size, idx, offset)
<1>1. offset + 0 = offset
  BY SMTT(30), SwalAssumption DEF Offsets
<1>2. ASSUME p + total <= size
      PROVE  Delivers(OneCall(mem, p, total), offset, total)
  <2>1. Slice(mem, p, total) = Logged(offset, offset + total)
    BY <1>2, OneCallFaithful
  <2>2. Len(OneCall(mem, p, total)) = 1
        /\ OneCall(mem, p, total)[1].at = 0
        /\ OneCall(mem, p, total)[1].bytes = Slice(mem, p, total)
    BY DEF OneCall
  <2> QED
    BY Zenon, <1>1, <2>1, <2>2, OneDelivers
<1>3. ASSUME p + total >= size
      PROVE  Delivers(TwoCalls(mem, size, p, total, consumed), offset, total)
  <2> DEFINE calls == TwoCalls(mem, size, p, total, consumed)
  <2>1. TwoFaithful(calls, offset, total, size - p)
    BY Zenon, <1>3, TwoCallsFaithful
  <2>2. Len(calls) = 2
    BY SMTT(30) DEF TwoCalls
  <2> HIDE DEF calls
  <2>3. Delivers(calls, offset, total)
    BY Zenon, <1>1, <2>1, <2>2, TwoDeliver
  <2> QED
    BY Zenon, <2>3 DEF calls
<1> QED
  BY <1>2, <1>3

\* The length of a replay is at most what follows the offset.
LEMMA ReplayLenType ==
    ASSUME TypeInv, NEW offset \in Offsets, offset <= end, NEW limit \in Nat
    PROVE  ReplayLen(offset, limit) \in 0 .. end - offset
BY SwalAssumption DEF ReplayLen, TypeInv, TypeOK, Offsets

\* A replay that reads the file delivers the log.
LEMMA FileReplayDelivers ==
    ASSUME TypeInv, NEW offset \in Offsets, offset <= end,
           RingOf(file, FileSize, pos, offset),
           NEW total \in 0 .. end - offset, NEW consumed \in Nat
    PROVE  Delivers(FileReplay(offset, total, consumed), offset, total)
<1> DEFINE p == Locate(FileSize, pos, offset)
<1>1. p \in Int /\ total \in Int /\ FileSize \in Int
  <2>1. FileSize \in Int /\ offset \in Int /\ end \in Int
    BY SwalAssumption DEF TypeInv, TypeOK, Offsets
  <2>2. p \in 0 .. FileSize - 1
    BY Place
  <2> HIDE DEF p
  <2> QED BY <2>1, <2>2
<1>2. CASE p + total < FileSize
  BY <1>1, <1>2, RingDelivers DEF FileReplay
<1>3. CASE ~(p + total < FileSize)
  <2>1. p + total >= FileSize
    BY <1>1, <1>3
  <2> QED
    BY <1>3, <2>1, RingDelivers DEF FileReplay
<1> QED
  BY SMTT(30), <1>2, <1>3

\* A replay that reads the ring cache delivers the log.
LEMMA RingReplayDelivers ==
    ASSUME TypeInv, NEW offset \in Offsets, offset <= end,
           RingOf(ring, RingSize, ridx, offset),
           NEW total \in 0 .. end - offset, NEW consumed \in Nat
    PROVE  Delivers(RingReplay(offset, total, consumed), offset, total)
<1> DEFINE p == Locate(RingSize, ridx, offset)
<1>1. p \in Int /\ total \in Int /\ RingSize \in Int /\ end \in Int
      /\ offset \in Int /\ ridx \in Int
  <2>1. RingSize \in Int /\ offset \in Int /\ end \in Int /\ ridx \in Int
    BY SwalAssumption DEF TypeInv, TypeOK, Offsets, RingPos
  <2>2. p \in 0 .. RingSize - 1
    BY Place
  <2> HIDE DEF p
  <2> QED BY <2>1, <2>2
<1>2. CASE ridx >= end - offset \/ total <= RingSize - p
  <2>1. ridx >= end - offset => p + (end - offset) <= RingSize
    BY Place
  <2>2. p + total <= RingSize
    BY <1>1, <1>2, <2>1
  <2> QED
    BY SMTT(30), <1>2, <2>2, RingDelivers DEF RingReplay
<1>3. CASE ~(ridx >= end - offset \/ total <= RingSize - p)
  <2>1. p + total >= RingSize
    BY <1>1, <1>3
  <2> QED
    BY <1>3, <2>1, RingDelivers DEF RingReplay
<1> QED
  BY SMTT(30), <1>2, <1>3

\* swal_replay delivers exactly the bytes that were appended, for every size
\* of the file and of the cache, every offset the log still holds, every limit
\* and every way the callback consumes the first part.
THEOREM ReplayCorrect == Spec => []ReplayFaithful
<1>1. ASSUME IInv PROVE ReplayFaithful
  <2> SUFFICES ASSUME pc = "idle", NEW offset \in Oldest .. end,
                      NEW limit \in 0 .. end - Oldest,
                      NEW consumed \in 0 .. Larger(FileSize, RingSize)
               PROVE  Faithful(offset, limit, consumed)
    BY DEF ReplayFaithful
  <2> DEFINE total == ReplayLen(offset, limit)
  <2>1. offset \in Offsets /\ start <= offset /\ offset <= end
        /\ RingOf(file, FileSize, pos, offset)
    BY <1>1, FileIsRing
  <2>2. consumed \in Nat /\ limit \in Nat /\ offset \in start .. end
    BY <1>1, <2>1, SwalAssumption DEF IInv, TypeInv, TypeOK, Offsets
  <2>3. TypeInv /\ total \in 0 .. end - offset
    BY SMTT(30), <1>1, <2>1, <2>2, ReplayLenType DEF IInv
  <2>4. CASE FromRing(offset)
    <3>1. RingOf(ring, RingSize, ridx, offset)
      BY <1>1, <2>2, <2>4, CacheIsRing
    <3>2. Delivers(RingReplay(offset, total, consumed), offset, total)
      BY SMTT(30), <2>1, <2>2, <2>3, <3>1, RingReplayDelivers
    <3> QED
      BY <2>1, <2>4, <3>2 DEF Faithful, Delivers, swal_replay, InRange
  <2>5. CASE ~FromRing(offset)
    <3>1. Delivers(FileReplay(offset, total, consumed), offset, total)
      BY <2>1, <2>2, <2>3, FileReplayDelivers
    <3> QED
      BY <2>1, <2>5, <3>1 DEF Faithful, Delivers, swal_replay, InRange
  <2> QED
    BY <2>4, <2>5
<1> QED
  BY <1>1, Invariance, PTL

\* What the ring cache serves never depends on the outcome of write(2).
THEOREM CacheCorrect == Spec => []CacheFaithful
<1>1. ASSUME IInv PROVE CacheFaithful
  <2> SUFFICES ASSUME pc = "idle", NEW offset \in start .. end,
                      FromRing(offset)
               PROVE  end - offset <= RingSize /\ Faithful(offset, 0, RingSize)
    BY DEF CacheFaithful
  <2>1. offset \in Offsets /\ RingOf(ring, RingSize, ridx, offset)
        /\ start <= offset /\ offset <= end
    BY <1>1, CacheIsRing DEF IInv, TypeInv, TypeOK, Offsets
  <2>2. TypeInv /\ ReplayLen(offset, 0) \in 0 .. end - offset
    BY <1>1, <2>1, ReplayLenType DEF IInv
  <2>3. Delivers(RingReplay(offset, ReplayLen(offset, 0), RingSize),
                 offset, ReplayLen(offset, 0))
    BY SMTT(30), <2>1, <2>2, SwalAssumption, RingReplayDelivers
  <2> QED
    BY <2>1, <2>3 DEF RingOf, Faithful, Delivers, swal_replay, InRange
<1> QED
  BY <1>1, Invariance, PTL

-----------------------------------------------------------------------------
(* The refinement of WalLog                                                *)

\* What can be read of the file is what was logged.
ReadsLog ==
    /\ Lo \in Int /\ Lo <= end /\ end \in 0 .. MaxOffset
    /\ [o \in Lo .. end - 1 |-> file[FileIndex(o)]] = [o \in Lo .. end - 1 |-> logged[o]]
    /\ \A o \in Lo .. end - 1 : o \in Offsets /\ logged[o] \in Byte
    /\ start \in Nat /\ good \in Nat /\ FileEnd \in Nat /\ end <= FileEnd
    /\ Lo = Smaller(Larger(start, Larger(good, FileEnd - FileSize)), end)

\* It is, because the file holds it byte by byte.
LEMMA TextIsLog == TypeInv /\ FileInv => ReadsLog
<1> SUFFICES ASSUME TypeInv, FileInv PROVE ReadsLog
  OBVIOUS
<1> USE SwalAssumption DEF Offsets
<1>1. /\ start \in Nat /\ good \in Nat /\ end \in 0 .. MaxOffset /\ FileEnd \in Nat
      /\ end <= FileEnd
  BY DEF TypeInv, TypeOK, FileEnd
<1>2. /\ Lo \in Int /\ Lo <= end
      /\ \A o \in Lo .. end - 1 : start <= o /\ good <= o /\ FileEnd - FileSize <= o
  BY <1>1 DEF Lo, Oldest, Larger, Smaller
<1>3. \A o \in Lo .. end - 1 : o \in Offsets /\ Held(o)
  BY SMTT(30), <1>1, <1>2 DEF Held
<1>4. \A o \in Lo .. end - 1 : file[FileIndex(o)] = logged[o]
  BY <1>3 DEF FileInv
<1>5. \A o \in Lo .. end - 1 : logged[o] \in Byte
  BY <1>3 DEF TypeInv, TypeOK
<1> HIDE DEF Offsets
<1> QED BY <1>1, <1>2, <1>3, <1>4, <1>5 DEF ReadsLog, Lo, Oldest

\* The same after a step.
LEMMA TextIsLogNext == TypeInv' /\ FileInv' => ReadsLog'
BY TextIsLog, PTL

\* A step that leaves the end where it is: the window may lose its oldest part.
LEMMA WindowMoves ==
    ASSUME ReadsLog, ReadsLog', end' = end, Lo <= Lo',
           \A o \in Offsets : o < end => logged'[o] = logged[o]
    PROVE  Promise!Forget \/ UNCHANGED Promise!logVars
<1> DEFINE t == [o \in Lo .. end - 1 |-> file[FileIndex(o)]]
<1>1. /\ Lo \in Int /\ Lo <= end /\ end \in 0 .. MaxOffset
      /\ t = [o \in Lo .. end - 1 |-> logged[o]]
      /\ Lo' \in Int /\ Lo' <= end
      /\ t' = [o \in Lo' .. end - 1 |-> logged'[o]]
      /\ \A o \in Lo' .. end - 1 : o \in Offsets
  BY DEF ReadsLog
<1> HIDE DEF t
<1>2. \A o \in Lo' .. end - 1 : logged'[o] = logged[o] /\ o \in Lo .. end - 1
  BY <1>1
<1>3. t' = [o \in Lo' .. end - 1 |-> t[o]]
  BY <1>1, <1>2
<1>4. CASE Lo' = Lo
  <2>1. t' = t
    <3>1. \A o \in Lo .. end - 1 : logged'[o] = logged[o]
      BY Zenon, <1>2, <1>4
    <3> QED BY Zenon, <1>1, <1>4, <3>1
  <2> QED BY Zenon, <1>4, <2>1 DEF Promise!logVars, t
<1>5. CASE Lo' # Lo
  <2>1. Lo' \in Lo + 1 .. end
    BY <1>1, <1>5
  <2> QED BY SMTT(30), <1>3, <2>1 DEF Promise!Forget, Promise!Window, t
<1> QED BY <1>4, <1>5

\* The end moves on (CommitEnd).
LEMMA WindowGrows ==
    ASSUME ReadsLog, ReadsLog', end' > end, Lo <= Lo', logged' = logged
    PROVE  Promise!Grow
<1> DEFINE t == [o \in Lo .. end - 1 |-> file[FileIndex(o)]]
<1>1. /\ Lo \in Int /\ Lo <= end /\ end \in 0 .. MaxOffset
      /\ t = [o \in Lo .. end - 1 |-> logged[o]]
      /\ Lo' \in Int /\ Lo' <= end' /\ end' \in 0 .. MaxOffset
      /\ t' = [o \in Lo' .. end' - 1 |-> logged[o]]
      /\ \A o \in Lo' .. end' - 1 : logged[o] \in Byte
  BY Zenon DEF ReadsLog
<1> HIDE DEF t
<1>2. end' \in end + 1 .. MaxOffset /\ Lo' \in Lo .. end'
  BY <1>1
<1>3. t' \in [Lo' .. end' - 1 -> Byte]
  BY Zenon, <1>1
<1>4. ASSUME NEW o \in (Lo .. end - 1) \cap (Lo' .. end' - 1) PROVE t'[o] = t[o]
  <2>1. t[o] = logged[o] /\ t'[o] = logged[o]
    BY <1>1
  <2> QED BY <2>1
<1> QED BY <1>2, <1>3, <1>4 DEF Promise!Grow, Promise!Window, t

\* An empty range.
LEMMA NoOffsets == ASSUME NEW n \in Int PROVE n .. n - 1 = {}
BY SMT

\* A new text (Reset).
LEMMA WindowStarts ==
    ASSUME end' \in 0 .. MaxOffset, Lo' = end'
    PROVE  Promise!Restart
<1> DEFINE t == [o \in Lo .. end - 1 |-> file[FileIndex(o)]]
<1>1. end' .. end' - 1 = {}
  <2>1. end' \in Int
    BY SwalAssumption
  <2> QED BY Zenon, <2>1, NoOffsets
<1>2. t' = [o \in Lo' .. end' - 1 |-> CHOOSE b \in Byte : TRUE]
  BY Zenon, <1>1
<1> QED BY Zenon, <1>2 DEF Promise!Restart, Promise!Window

\* The low end of the window, and that it moves with what it is made of.
Low(s, g, f, e) == Smaller(Larger(s, Larger(g, f - FileSize)), e)

LEMMA LowMoves ==
    ASSUME NEW s \in Nat, NEW s2 \in Nat, NEW g \in Nat, NEW g2 \in Nat,
           NEW f \in Nat, NEW f2 \in Nat, NEW e \in Nat,
           \/ s <= s2 /\ g <= g2 /\ f <= f2
           \/ e <= g2
    PROVE  Low(s, g, f, e) <= Low(s2, g2, f2, e)
BY SwalAssumption DEF Low, Larger, Smaller

\* Every step keeps the promise.
LEMMA PromiseStep == TypeInv /\ FileInv /\ [Next]_vars => [Promise!LogNext]_(Promise!logVars)
<1> SUFFICES ASSUME TypeInv, FileInv, [Next]_vars
             PROVE  Promise!LogNext \/ UNCHANGED Promise!logVars
  OBVIOUS
<1>1. ReadsLog /\ ReadsLog' /\ TypeInv'
  BY TypeStep, FileStep, TextIsLog, TextIsLogNext
<1> USE SwalAssumption
<1>2. /\ start \in Nat /\ good \in Nat /\ end \in Nat /\ len \in Nat /\ done \in Nat
      /\ FileEnd \in Nat /\ FileSize \in Nat /\ end <= FileEnd
      /\ (pc = "write" => FileEnd = end + done) /\ (pc # "write" => FileEnd = end)
  BY DEF TypeInv, TypeOK, FileEnd, Offsets
<1>3. /\ end' \in Nat /\ start' \in Nat /\ good' \in Nat /\ FileEnd' \in Nat
      /\ Lo' = Low(start', good', FileEnd', end')
      /\ Lo = Low(start, good, FileEnd, end)
  BY <1>1 DEF ReadsLog, Low
<1>3a. FileEnd' = IF pc' = "write" THEN end' + done' ELSE end'
  BY DEF FileEnd
<1> DEFINE Same == \A o \in Offsets : o < end => logged'[o] = logged[o]
           Up == start <= start' /\ good <= good' /\ FileEnd <= FileEnd'
<1> HIDE DEF Same, Up
<1>4. ASSUME end' = end, Same, Up \/ end <= good' PROVE Promise!Forget \/ UNCHANGED Promise!logVars
  <2>1. Low(start, good, FileEnd, end) <= Low(start', good', FileEnd', end)
    BY Zenon, <1>2, <1>3, <1>4, LowMoves DEF Up
  <2> QED BY Zenon, <1>1, <1>3, <1>4, <2>1, WindowMoves DEF Same
<1>5. ASSUME UNCHANGED logged PROVE Same
  BY Zenon, <1>5 DEF Same
<1>6. ASSUME Return PROVE Same
  BY Zenon, <1>6 DEF Same, Return
<1>10. ASSUME NEW log \in Logs, AppendBegin(log) PROVE Promise!Forget \/ UNCHANGED Promise!logVars
  <2>1. end' = end /\ Up
    BY SMTT(30), <1>10, <1>2, <1>3a DEF AppendBegin, meta, Up
  <2>2. Same
    <3>1. logged' = [o \in Offsets |-> IF end <= o /\ o < end + Len(log)
                                      THEN log[o - end + 1] ELSE logged[o]]
      BY Zenon, <1>10 DEF AppendBegin
    <3>2. \A o \in Offsets : o < end => ~(end <= o)
      BY <1>2 DEF Offsets
    <3> QED BY Zenon, <3>1, <3>2 DEF Same
  <2> QED BY Zenon, <2>1, <2>2, <1>4
<1>11. ASSUME NEW k, WriteChunk(k) PROVE Promise!Forget \/ UNCHANGED Promise!logVars
  <2>1. FileChunkLen \in Nat
    BY DEF FileChunkLen, Smaller, TypeInv, TypeOK, FilePos
  <2>2. end' = end /\ start' = start /\ pc' = pc /\ pc = "write" /\ done' = done + FileChunkLen
        /\ Same
    BY Zenon, <1>11, <1>5 DEF WriteChunk
  <2>3. good <= good'
    BY <1>11, <1>2 DEF WriteChunk, Larger
  <2>4. Up
    BY <2>1, <2>2, <2>3, <1>2, <1>3a DEF Up
  <2> QED BY Zenon, <2>2, <2>4, <1>4
<1>12. CASE WriteFail
  <2>1. end' = end /\ start' = start /\ pc = "write" /\ pc' = "idle" /\ Same
        /\ good' = IF done = 0 THEN good ELSE end
    BY Zenon, <1>12, <1>6 DEF WriteFail, Return, meta
  <2>2. Up \/ end <= good'
    BY <2>1, <1>2, <1>3a DEF Up
  <2> QED BY Zenon, <2>1, <2>2, <1>4 DEF Promise!LogNext
<1>13. CASE CommitEnd
  <2>1. /\ end' = end + len /\ start' = start /\ good' = good /\ logged' = logged
        /\ pc = "write" /\ pc' = "start" /\ done = len
    BY Zenon, <1>13 DEF CommitEnd, history
  <2>2. FileEnd' = FileEnd
    BY <2>1, <1>2, <1>3a
  <2>3. CASE len = 0
    <3>1. end' = end /\ Up /\ Same
      BY <2>1, <2>2, <2>3, <1>2, <1>5 DEF Up
    <3> QED BY Zenon, <3>1, <1>4 DEF Promise!LogNext
  <2>4. CASE len # 0
    <3>1. end' > end
      BY <2>1, <2>4, <1>2
    <3>2. Low(start, good, FileEnd, end) <= Low(start, good, FileEnd, end')
      BY <2>1, <1>2 DEF Low, Larger, Smaller
    <3>3. Lo <= Lo'
      BY Zenon, <3>2, <2>1, <2>2, <1>3
    <3> QED BY Zenon, <3>1, <3>3, <2>1, <1>1, WindowGrows DEF Promise!LogNext
  <2> QED BY <2>3, <2>4 DEF Promise!LogNext
<1>14. CASE CommitStart
  <2>1. end' = end /\ good' = good /\ pc = "start" /\ pc' = "cksm" /\ Same
        /\ start' = IF end - start >= FileSize THEN end - FileSize ELSE start
    BY Zenon, <1>14, <1>5 DEF CommitStart, history
  <2>2. Up
    BY <2>1, <1>2, <1>3a DEF Up
  <2> QED BY Zenon, <2>1, <2>2, <1>4 DEF Promise!LogNext
<1>15. CASE CommitCksm
  <2>1. end' = end /\ good' = good /\ start' = start /\ pc = "cksm" /\ pc' = "ring" /\ Same
    BY Zenon, <1>15, <1>5 DEF CommitCksm
  <2>2. Up
    BY <2>1, <1>2, <1>3a DEF Up
  <2> QED BY Zenon, <2>1, <2>2, <1>4 DEF Promise!LogNext
<1>16. CASE RingChunk
  <2>1. end' = end /\ good' = good /\ start' = start /\ pc = "ring" /\ pc' = "ring" /\ Same
    BY Zenon, <1>16, <1>5 DEF RingChunk, meta, history
  <2>2. Up
    BY <2>1, <1>2, <1>3a DEF Up
  <2> QED BY Zenon, <2>1, <2>2, <1>4 DEF Promise!LogNext
<1>17. CASE RingCommit
  <2>1. end' = end /\ good' = good /\ start' = start /\ pc = "ring" /\ pc' = "idle" /\ Same
    BY Zenon, <1>17, <1>6 DEF RingCommit, Return, meta
  <2>2. Up
    BY <2>1, <1>2, <1>3a DEF Up
  <2> QED BY Zenon, <2>1, <2>2, <1>4 DEF Promise!LogNext
<1>18. ASSUME NEW offset \in ResetOffsets, NEW c, Reset(offset, c) PROVE Promise!Restart
  <2>1. end' = offset /\ start' = offset /\ good' = offset /\ pc' = "idle" /\ offset \in 0 .. MaxOffset
    BY Zenon, <1>18 DEF Reset, call
  <2>2. FileEnd' = end'
    BY <2>1, <1>3a
  <2>3. Low(offset, offset, offset, offset) = offset
    BY <2>1 DEF Low, Larger, Smaller
  <2>4. Lo' = end'
    BY Zenon, <2>1, <2>2, <2>3, <1>3
  <2> QED BY Zenon, <2>1, <2>4, WindowStarts
<1>19. ASSUME NEW k, CrashInWrite(k) PROVE Promise!Forget \/ UNCHANGED Promise!logVars
  <2>1. end' = end /\ start' = start /\ pc = "write" /\ pc' = "idle" /\ Same
        /\ good' = IF done = 0 /\ k = 0 THEN good ELSE end
    BY Zenon, <1>19, <1>6 DEF CrashInWrite, Return, meta
  <2>2. Up \/ end <= good'
    BY <2>1, <1>2, <1>3a DEF Up
  <2> QED BY Zenon, <2>1, <2>2, <1>4
<1>20. CASE Crash
  <2>1. end' = end /\ start' = start /\ pc # "write" /\ pc' = "idle" /\ Same
        /\ good' = IF pc = "start" THEN Larger(good, end - FileSize) ELSE good
    BY Zenon, <1>20, <1>6 DEF Crash, Return, meta
  <2>2. Up
    BY <2>1, <1>2, <1>3a DEF Up, Larger
  <2> QED BY Zenon, <2>1, <2>2, <1>4 DEF Promise!LogNext
<1>21. CASE Restart
  <2>1. end' = end /\ start' = start /\ good' = good /\ pc' = pc /\ done' = done /\ Same
    BY Zenon, <1>21, <1>5 DEF Restart, meta, call, history
  <2>2. Up
    BY <2>1, <1>2, <1>3a DEF Up
  <2> QED BY Zenon, <2>1, <2>2, <1>4 DEF Promise!LogNext
<1>22. CASE UNCHANGED vars
  <2>1. end' = end /\ start' = start /\ good' = good /\ pc' = pc /\ done' = done /\ Same
    BY Zenon, <1>22, <1>5 DEF vars
  <2>2. Up
    BY <2>1, <1>2, <1>3a DEF Up
  <2> QED BY Zenon, <2>1, <2>2, <1>4 DEF Promise!LogNext
<1>23. CASE \E k \in 1 .. FileSize : ShortWrite(k)
  BY Zenon, <1>11, <1>23 DEF ShortWrite, Promise!LogNext
<1>24. CASE FileChunk
  BY Zenon, <1>11, <1>24 DEF FileChunk, Promise!LogNext
<1> QED
  BY Zenon, <1>10, <1>12, <1>13, <1>14, <1>15, <1>16, <1>17, <1>18, <1>19, <1>20, <1>21,
     <1>22, <1>23, <1>24 DEF Next, Promise!LogNext

\* The log starts as an empty text.
LEMMA PromiseInit == Init => Promise!LogInit
<1> SUFFICES ASSUME Init PROVE Promise!LogInit
  OBVIOUS
<1> USE SwalAssumption
<1>1. end = 0 /\ start = 0 /\ good = 0 /\ pc = "idle"
  BY Zenon DEF Init
<1>2. Lo = 0
  BY <1>1 DEF Lo, Oldest, FileEnd, Larger, Smaller
<1>3. Lo .. end - 1 = {}
  <2>1. 0 \in Int
    OBVIOUS
  <2> QED BY Zenon, <1>1, <1>2, <2>1, NoOffsets
<1>4. end \in 0 .. MaxOffset
  BY <1>1
<1> QED BY <1>1, <1>2, <1>3, <1>4 DEF Promise!LogInit, Promise!Window

\* KeepsPromise: swal.c implements the append-only text of WalLog.  Whatever
\* chunk is written over older bytes, whatever write(2) fails or is cut short
\* and wherever the process dies, a byte that can still be read never changes
\* and a byte given up never comes back.
THEOREM KeepsPromiseCorrect == Spec => KeepsPromise
<1>1. IInv => TypeInv /\ FileInv
  BY DEF IInv
<1> QED BY <1>1, Invariance, PromiseInit, PromiseStep, PTL DEF Spec, KeepsPromise, Promise!LogSpec

-----------------------------------------------------------------------------
(* The checksum decides: AcceptFaithful                                   *)

\* Putting two stretches of the log together.
LEMMA LoggedJoin ==
    ASSUME TypeInv, NEW o \in Offsets, NEW p \in Offsets, NEW q \in Offsets, o <= p, p <= q
    PROVE  Logged(o, p) \o Logged(p, q) = Logged(o, q)
<1> USE SwalAssumption DEF Offsets
<1>1. o \in Nat /\ p \in Nat /\ q \in Nat
  OBVIOUS
<1>2. Logged(o, p) \in [1 .. p - o -> Byte] /\ Logged(p, q) \in [1 .. q - p -> Byte]
      /\ Logged(o, q) \in [1 .. q - o -> Byte]
  BY DEF Logged, TypeInv, TypeOK
<1> DEFINE A == Logged(o, p)
           B == Logged(p, q)
           C == Logged(o, q)
<1>3. /\ \A i \in 1 .. p - o : A[i] = logged[o + i - 1]
      /\ \A i \in 1 .. q - p : B[i] = logged[p + i - 1]
      /\ \A i \in 1 .. q - o : C[i] = logged[o + i - 1]
  BY DEF Logged
<1> HIDE DEF A, B, C, Offsets
<1>3a. A \in [1 .. p - o -> Byte] /\ B \in [1 .. q - p -> Byte] /\ C \in [1 .. q - o -> Byte]
  BY Zenon, <1>2 DEF A, B, C
<1>4. p - o \in Nat /\ q - p \in Nat /\ q - o \in Nat /\ (p - o) + (q - p) = q - o
  BY <1>1
<1>5. A \in Seq(Byte) /\ Len(A) = p - o /\ B \in Seq(Byte) /\ Len(B) = q - p
      /\ C \in Seq(Byte) /\ Len(C) = q - o
  BY Zenon, <1>3a, <1>4, FunIsSeq
<1>6. ASSUME NEW i \in 1 .. q - o PROVE (A \o B)[i] = C[i]
  <2>1. CASE i <= p - o
    BY <1>1, <1>3, <1>5, <2>1
  <2>2. CASE i > p - o
    <3>1. i - (p - o) \in 1 .. q - p /\ p + (i - (p - o)) - 1 = o + i - 1
      BY <1>1, <2>2
    <3>2. (A \o B)[i] = B[i - (p - o)]
      BY SMTT(30), <1>1, <1>5, <2>2
    <3> QED BY <1>3, <3>1, <3>2
  <2>3. i <= p - o \/ i > p - o
    BY <1>1
  <2> QED BY Zenon, <2>1, <2>2, <2>3
<1>7. A \o B \in Seq(Byte) /\ Len(A \o B) = q - o
  BY SMTT(30), <1>4, <1>5
<1> QED BY SMTT(30), <1>5, <1>6, <1>7 DEF A, B, C

\* The sum ends where a call in progress begins, or at the end of the log.
LEMMA SumEndType ==
    ASSUME TypeInv
    PROVE  SumEnd \in Offsets /\ SumEnd <= end /\ end \in Offsets
BY SwalAssumption DEF SumEnd, TypeInv, TypeOK, CallInv, Offsets

\* The log up to p does not change when only bytes from end on do.
LEMMA LoggedSame ==
    ASSUME TypeInv, NEW o \in Offsets, NEW p \in Offsets, o <= p, p <= end,
           \A i \in Offsets : i < end => logged'[i] = logged[i]
    PROVE  Logged(o, p)' = Logged(o, p)
<1>1. end \in Nat /\ o \in Nat /\ p \in Nat
  BY SwalAssumption DEF TypeInv, TypeOK, Offsets
<1>2. ASSUME NEW i \in 1 .. p - o PROVE logged'[o + i - 1] = logged[o + i - 1]
  <2>1. o + i - 1 \in Offsets /\ o + i - 1 < end
    BY SwalAssumption, <1>1 DEF Offsets
  <2> QED BY <2>1
<1> QED BY Zenon, <1>2 DEF Logged

\* What SumInv says of one offset.
SumAt(o) ==
    /\ o <= SumEnd
    /\ Len(cksm) <= Len(published[o]) + (SumEnd - o)
    /\ Len(cksm) = Len(published[o]) + (SumEnd - o) =>
         cksm = published[o] \o Logged(o, SumEnd)

\* Most steps leave the sum, what it covers and what was published alone.
LEMMA SumSame ==
    ASSUME TypeInv, SumInv, SumEnd' = SumEnd, cksm' = cksm, published' = published,
           \A i \in Offsets : i < end => logged'[i] = logged[i]
    PROVE  SumInv'
<1> SUFFICES ASSUME NEW o \in Offsets, published[o] # << >>
             PROVE  SumAt(o)'
  BY Zenon DEF SumInv, SumAt
<1>1. SumAt(o)
  BY Zenon DEF SumInv, SumAt
<1>2. Logged(o, SumEnd)' = Logged(o, SumEnd)
  BY Zenon, <1>1, SumEndType, LoggedSame DEF SumAt
<1> QED BY Zenon, <1>1, <1>2 DEF SumAt

\* The length of a concatenation.
LEMMA ConcatLen ==
    ASSUME NEW S, NEW a \in Seq(S), NEW b \in Seq(S)
    PROVE  a \o b \in Seq(S) /\ Len(a \o b) = Len(a) + Len(b)
BY SMT

\* A sequence that is followed by nothing.
LEMMA ConcatEmpty == ASSUME NEW S, NEW a \in Seq(S), NEW b, b = << >> PROVE a \o b = a
BY SMT

\* No bytes of the log.
LEMMA LoggedEmpty == ASSUME NEW n \in Int PROVE Logged(n, n) = << >>
<1>1. 1 .. n - n = {}
  BY SMT
<1>2. Logged(n, n) = [i \in {} |-> logged[n + i - 1]]
  BY Zenon, <1>1 DEF Logged
<1> QED BY SMT, <1>2

\* swal_append brings the sum up to the end and publishes it.
LEMMA SumCommit ==
    ASSUME TypeInv, TypeInv', SumInv, CommitCksm
    PROVE  SumInv'
<1> USE SwalAssumption
<1> DEFINE e == end - len
           x == Logged(e, end)
<1>1. /\ SumEnd = e /\ e \in Offsets /\ end \in Offsets /\ e <= end /\ end \in Nat /\ e \in Nat
      /\ SumEnd' = end
      /\ cksm \in Seq(Byte) /\ published \in [Offsets -> Seq(Byte)] /\ end' = end /\ logged' = logged
      /\ cksm' = cksm \o x /\ published' = [published EXCEPT ![end] = cksm']
  <2>1. /\ pc = "cksm" /\ pc' = "ring" /\ end' = end /\ logged' = logged
        /\ cksm' = cksm \o x /\ published' = [published EXCEPT ![end] = cksm']
    BY Zenon DEF CommitCksm
  <2>2. /\ end \in Offsets /\ len \in Nat /\ len <= end
        /\ cksm \in Seq(Byte) /\ published \in [Offsets -> Seq(Byte)]
    BY <2>1 DEF TypeInv, TypeOK, CallInv
  <2>3. end \in Nat /\ e \in Nat /\ e <= end /\ e \in Offsets
    BY <2>2 DEF Offsets
  <2>4. SumEnd = e /\ SumEnd' = end
    BY Zenon, <2>1 DEF SumEnd
  <2> QED BY Zenon, <2>1, <2>2, <2>3, <2>4
<1>2. x \in Seq(Byte) /\ Len(x) = end - e
  <2>1. end - e \in Nat
    BY <1>1
  <2>2. x \in [1 .. end - e -> Byte]
    <3> HIDE DEF e
    <3>0. end \in Offsets /\ end \in Nat /\ e \in Nat
      BY Zenon, <1>1
    <3>1. \A i \in 1 .. end - e : e + i - 1 \in Offsets
      BY SMT, <3>0 DEF Offsets
    <3>2. logged \in [Offsets -> Byte]
      BY Zenon DEF TypeInv, TypeOK
    <3>3. \A i \in 1 .. end - e : logged[e + i - 1] \in Byte
      BY Zenon, <3>1, <3>2
    <3> QED BY Zenon, <3>3 DEF Logged
  <2> HIDE DEF e, x
  <2> QED BY Zenon, <2>1, <2>2, FunIsSeq
<1> HIDE DEF e, x
<1>3. cksm' \in Seq(Byte) /\ Len(cksm') = Len(cksm) + (end - e)
  BY Zenon, <1>1, <1>2, ConcatLen
<1> SUFFICES ASSUME NEW o \in Offsets, published'[o] # << >>
             PROVE  SumAt(o)'
  BY Zenon DEF SumInv, SumAt
<1>4. Logged(o, SumEnd)' = Logged(o, end)
  BY Zenon, <1>1 DEF Logged
<1>5. o \in Int /\ end \in Int
  BY DEF TypeInv, TypeOK, Offsets
<1>6. CASE o = end
  <2>1. published'[o] = cksm'
    BY <1>1, <1>6
  <2>2. Logged(o, end) = << >>
    BY Zenon, <1>5, <1>6, LoggedEmpty
  <2>3. cksm' = cksm' \o Logged(o, end)
    BY Zenon, <2>2, <1>3, ConcatEmpty
  <2>4. Len(cksm') <= Len(cksm') + (end - end) /\ end <= end
    BY <1>3, <1>5
  <2> QED BY Zenon, <2>1, <2>3, <2>4, <1>4, <1>1, <1>5, <1>6 DEF SumAt
<1>7. CASE o # end
  <2>1. published'[o] = published[o] /\ published[o] \in Seq(Byte)
    BY <1>1, <1>7
  <2> DEFINE u == published[o]
             y == Logged(o, e)
  <2>2. SumAt(o)
    BY Zenon, <2>1 DEF SumInv, SumAt
  <2>3. o <= e /\ Len(cksm) <= Len(u) + (e - o)
        /\ (Len(cksm) = Len(u) + (e - o) => cksm = u \o y)
    BY Zenon, <2>2, <1>1 DEF SumAt
  <2>4. y \in Seq(Byte)
    BY Zenon, <1>1, <2>3, LoggedType
  <2>5. y \o x = Logged(o, end)
    BY Zenon, <1>1, <2>3, LoggedJoin DEF x
  <2> HIDE DEF u, y
  <2>6. u \in Seq(Byte) /\ Len(u) \in Nat /\ Len(cksm) \in Nat
    BY <2>1, <1>1 DEF u
  <2>7. o <= end /\ Len(cksm') <= Len(u) + (end - o)
    BY SMTT(30), <1>1, <1>3, <1>5, <2>3, <2>6
  <2>8. ASSUME Len(cksm') = Len(u) + (end - o) PROVE cksm' = u \o Logged(o, end)
    <3>1. Len(cksm) = Len(u) + (e - o)
      <4> DEFINE m == Len(cksm)
                 n == Len(u)
      <4>1. m \in Nat /\ n \in Nat /\ m + (end - e) = n + (end - o)
        BY Zenon, <1>3, <2>6, <2>8
      <4> HIDE DEF m, n
      <4>2. m = n + (e - o)
        BY <4>1, <1>1, <1>5
      <4> QED BY Zenon, <4>2 DEF m, n
    <3>2. cksm' = (u \o y) \o x
      BY Zenon, <3>1, <2>3, <1>1
    <3>3. (u \o y) \o x = u \o (y \o x)
      <4>1. u \in Seq(Byte) /\ y \in Seq(Byte) /\ x \in Seq(Byte)
        BY Zenon, <1>2, <2>4, <2>6
      <4> QED BY SMTT(30), <4>1
    <3> QED BY Zenon, <3>2, <3>3, <2>5
  <2> QED BY Zenon, <2>1, <2>7, <2>8, <1>1, <1>4 DEF SumAt, u
<1> QED BY Zenon, <1>6, <1>7

\* A crash may leave bytes out of the sum for good.
LEMMA SumCrash ==
    ASSUME TypeInv, TypeInv', SumInv, Crash
    PROVE  SumInv'
<1> USE SwalAssumption
<1>1. /\ end \in Offsets /\ end' = end /\ cksm' = cksm /\ cksm \in Seq(Byte)
      /\ published \in [Offsets -> Seq(Byte)] /\ pc' = "idle" /\ pc \notin {"idle", "write"}
      /\ published' = IF pc \in {"start", "cksm"}
                      THEN [published EXCEPT ![end] = cksm] ELSE published
      /\ \A i \in Offsets : i < end => logged'[i] = logged[i]
  BY Zenon DEF Crash, Return, meta, TypeInv, TypeOK
<1>2. SumEnd' = end /\ SumEnd \in Offsets /\ SumEnd <= end
  BY Zenon, <1>1, SumEndType DEF SumEnd
<1>3. pc \notin {"start", "cksm"} => SumEnd = end /\ published' = published
  BY Zenon, <1>1 DEF SumEnd
<1>4. CASE pc \notin {"start", "cksm"}
  BY Zenon, <1>1, <1>2, <1>3, <1>4, SumSame
<1>5. CASE pc \in {"start", "cksm"}
  <2> SUFFICES ASSUME NEW o \in Offsets, published'[o] # << >>
               PROVE  SumAt(o)'
    BY Zenon DEF SumInv, SumAt
  <2>1. o \in Int /\ end \in Int /\ Len(cksm) \in Nat /\ SumEnd \in Int
    BY <1>1, <1>2 DEF Offsets
  <2>2. Logged(o, SumEnd)' = Logged(o, end)'
    BY Zenon, <1>1, <1>2 DEF Logged
  <2>3. CASE o = end
    <3>1. published'[o] = cksm
      BY <1>1, <1>5, <2>3
    <3>2. Logged(o, end)' = << >>
      <4>1. end' - o = 0 /\ 1 .. 0 = {}
        BY <1>1, <2>1, <2>3
      <4>2. Logged(o, end)' = [i \in {} |-> logged'[o + i - 1]]
        BY Zenon, <4>1 DEF Logged
      <4> QED BY SMT, <4>2
    <3>3. cksm = cksm \o Logged(o, end)'
      BY Zenon, <3>2, <1>1, ConcatEmpty
    <3>4. Len(cksm) <= Len(cksm) + (end - end) /\ end <= end
      BY <2>1
    <3> QED BY Zenon, <3>1, <3>3, <3>4, <2>2, <1>1, <1>2, <2>3 DEF SumAt
  <2>4. CASE o # end
    <3>1. published'[o] = published[o] /\ Len(published[o]) \in Nat
      BY <1>1, <1>5, <2>4
    <3>2. SumAt(o)
      BY Zenon, <3>1 DEF SumInv, SumAt
    <3> DEFINE m == Len(cksm)
               n == Len(published[o])
    <3>3. m \in Nat /\ n \in Nat /\ o <= SumEnd /\ m <= n + (SumEnd - o)
      BY Zenon, <2>1, <3>1, <3>2 DEF SumAt
    <3> HIDE DEF m, n
    <3>4. o <= end /\ m <= n + (end - o) /\ (m = n + (end - o) => SumEnd = end)
      BY <3>3, <1>2, <2>1
    <3>5. ASSUME m = n + (end - o) PROVE cksm = published[o] \o Logged(o, end)'
      <4>1. SumEnd = end
        BY Zenon, <3>4, <3>5
      <4>2. cksm = published[o] \o Logged(o, end)
        BY Zenon, <3>2, <3>5, <4>1 DEF SumAt, m, n
      <4>3. Logged(o, end)' = Logged(o, end)
        <5>1. ASSUME NEW i \in 1 .. end - o PROVE logged'[o + i - 1] = logged[o + i - 1]
          <6>1. o + i - 1 \in Offsets /\ o + i - 1 < end
            BY <1>1, <2>1 DEF Offsets
          <6> QED BY Zenon, <6>1, <1>1
        <5> QED BY Zenon, <5>1, <1>1 DEF Logged
      <4> QED BY Zenon, <4>2, <4>3
    <3> QED BY Zenon, <3>1, <3>4, <3>5, <2>2, <1>1, <1>2 DEF SumAt, m, n
  <2> QED BY Zenon, <2>3, <2>4
<1> QED BY Zenon, <1>4, <1>5

\* swal_reset starts a new sum.
LEMMA SumReset ==
    ASSUME TypeInv, SumInv, NEW offset \in ResetOffsets, NEW c \in Seq(Byte), Reset(offset, c)
    PROVE  SumInv'
<1> USE SwalAssumption
<1>1. /\ offset \in Offsets /\ end' = offset /\ cksm' = c /\ pc' = "idle"
      /\ published' = [o \in Offsets |-> IF o = offset THEN c ELSE << >>]
  BY Zenon DEF Reset, call, Offsets
<1>2. SumEnd' = offset
  BY Zenon, <1>1 DEF SumEnd
<1> SUFFICES ASSUME NEW o \in Offsets, published'[o] # << >>
             PROVE  SumAt(o)'
  BY Zenon DEF SumInv, SumAt
<1>3. o = offset /\ published'[o] = c
  BY Zenon, <1>1
<1>4. offset \in Int /\ Len(c) \in Nat
  BY <1>1 DEF Offsets
<1>5. Logged(o, SumEnd)' = << >>
  <2>1. SumEnd' - o = 0 /\ 1 .. 0 = {}
    BY <1>2, <1>3, <1>4
  <2>2. Logged(o, SumEnd)' = [i \in {} |-> logged'[o + i - 1]]
    BY Zenon, <2>1 DEF Logged
  <2> QED BY SMT, <2>2
<1>6. c = c \o Logged(o, SumEnd)'
  BY Zenon, <1>5, ConcatEmpty
<1>7. Len(c) <= Len(c) + (offset - offset) /\ offset <= offset
  BY <1>4
<1> QED BY Zenon, <1>1, <1>2, <1>3, <1>6, <1>7 DEF SumAt

\* Every step keeps it.
LEMMA SumStep == TypeInv /\ SumInv /\ [Next]_vars => SumInv'
<1> SUFFICES ASSUME TypeInv, SumInv, [Next]_vars PROVE SumInv'
  OBVIOUS
<1>1. TypeInv'
  BY TypeStep
<1> USE SwalAssumption
<1> DEFINE Same == \A i \in Offsets : i < end => logged'[i] = logged[i]
<1> HIDE DEF Same
<1>2. ASSUME SumEnd' = SumEnd, cksm' = cksm, published' = published, Same PROVE SumInv'
  BY Zenon, <1>2, SumSame DEF Same
<1>3. ASSUME UNCHANGED logged PROVE Same
  BY Zenon, <1>3 DEF Same
<1>4. ASSUME Return PROVE Same
  BY Zenon, <1>4 DEF Same, Return
<1>5. end \in Int /\ len \in Int /\ (pc = "idle" => len = 0)
  BY DEF TypeInv, TypeOK, CallInv, Offsets
<1>10. CASE \E log \in Logs : AppendBegin(log)
  <2>1. PICK log \in Logs : AppendBegin(log)
    BY <1>10
  <2>2. Same
    BY <2>1, <1>5 DEF AppendBegin, Same, Offsets
  <2>3. SumEnd' = SumEnd /\ cksm' = cksm /\ published' = published
    BY Zenon, <2>1 DEF AppendBegin, meta, SumEnd
  <2> QED BY Zenon, <2>2, <2>3, <1>2
<1>11. CASE \E k \in 0 .. FileSize : CrashInWrite(k)
  BY Zenon, <1>11, <1>2, <1>4 DEF CrashInWrite, Return, meta, SumEnd
<1>12. ASSUME NEW k, WriteChunk(k) PROVE SumInv'
  BY Zenon, <1>12, <1>2, <1>3 DEF WriteChunk, SumEnd
<1>13. CASE WriteFail
  BY Zenon, <1>13, <1>2, <1>4 DEF WriteFail, Return, meta, SumEnd
<1>14. CASE CommitEnd
  <2>1. end + len - len = end
    BY <1>5
  <2>2. SumEnd' = end + len - len /\ SumEnd = end
    <3>1. pc = "write" /\ pc' = "start" /\ end' = end + len /\ len' = len
      BY Zenon, <1>14 DEF CommitEnd
    <3>2. SumEnd = end /\ SumEnd' = end' - len'
      BY Zenon, <3>1 DEF SumEnd
    <3> QED BY <3>1, <3>2, <1>5
  <2>3. cksm' = cksm /\ published' = published /\ Same
    BY Zenon, <1>14, <1>3 DEF CommitEnd, history
  <2> QED BY Zenon, <2>1, <2>2, <2>3, <1>2
<1>15. CASE CommitStart
  BY Zenon, <1>15, <1>2, <1>3 DEF CommitStart, history, SumEnd
<1>16. CASE RingChunk
  BY Zenon, <1>16, <1>2, <1>3 DEF RingChunk, history, meta, SumEnd
<1>17. CASE RingCommit
  BY Zenon, <1>17, <1>2, <1>4 DEF RingCommit, Return, meta, SumEnd
<1>18. CASE \E offset \in ResetOffsets, c \in {<< >>, <<Zero>>} : Reset(offset, c)
  <2>1. << >> \in Seq(Byte) /\ <<Zero>> \in Seq(Byte)
    OBVIOUS
  <2> QED BY Zenon, <2>1, <1>18, SumReset
<1>19. CASE Restart
  BY Zenon, <1>19, <1>2, <1>3 DEF Restart, history, meta, call, SumEnd
<1>20. CASE UNCHANGED vars
  BY Zenon, <1>20, <1>2, <1>3 DEF vars, SumEnd
<1>21. CASE FileChunk \/ \E k \in 1 .. FileSize : ShortWrite(k)
  BY Zenon, <1>21, <1>12 DEF FileChunk, ShortWrite
<1>22. CASE CommitCksm \/ Crash
  BY Zenon, <1>22, <1>1, SumCommit, SumCrash
<1> QED
  BY Zenon, <1>10, <1>11, <1>13, <1>14, <1>15, <1>16, <1>17, <1>18, <1>19, <1>20, <1>21,
     <1>22 DEF Next

\* Nothing is published of a new log.
LEMMA SumInit == Init => SumInv
BY Zenon DEF Init, SumInv

\* c is a followed by b; x is the stretch of the log from o to p.
Cat(a, b, c) == c = a \o b
Stretch(x, o, p) == x = Logged(o, p)

\* Two byte strings that the log begins with are stretches of the log.
LEMMA LoggedSplit ==
    ASSUME TypeInv, NEW o \in Offsets, NEW q \in Offsets, o <= q,
           NEW a \in Seq(Byte), NEW b \in Seq(Byte),
           Cat(a, b, Logged(o, q))
    PROVE  Stretch(a, o, o + Len(a)) /\ Stretch(b, o + Len(a), q)
<1> USE SwalAssumption
<1>1. o \in Nat /\ q \in Nat /\ Len(a) \in Nat /\ Len(b) \in Nat
  BY DEF Offsets
<1>2. Logged(o, q) \in [1 .. q - o -> Byte] /\ q - o \in Nat
  BY <1>1 DEF Logged, TypeInv, TypeOK, Offsets
<1> DEFINE C == Logged(o, q)
<1>3. \A i \in 1 .. q - o : C[i] = logged[o + i - 1]
  BY DEF Logged
<1>3a. C = a \o b
  BY Zenon DEF Cat
<1> HIDE DEF C
<1>4. C \in Seq(Byte) /\ Len(C) = q - o
  BY Zenon, <1>2, FunIsSeq DEF C
<1>5. Len(a) + Len(b) = q - o
  BY Zenon, <1>3a, <1>4, ConcatLen
<1>6. ASSUME NEW i \in 1 .. Len(a) PROVE a[i] = logged[o + i - 1]
  <2>1. C[i] = a[i]
    BY SMT, <1>3a
  <2>2. i \in 1 .. q - o
    BY <1>1, <1>5
  <2> QED BY Zenon, <2>1, <2>2, <1>3
<1>7. ASSUME NEW i \in 1 .. Len(b) PROVE b[i] = logged[o + Len(a) + i - 1]
  <2>1. C[Len(a) + i] = b[i]
    BY SMT, <1>3a
  <2>2. Len(a) + i \in 1 .. q - o /\ o + (Len(a) + i) - 1 = o + Len(a) + i - 1
    BY <1>1, <1>5
  <2>3. C[Len(a) + i] = logged[o + (Len(a) + i) - 1]
    BY Zenon, <2>2, <1>3
  <2> QED BY Zenon, <2>1, <2>2, <2>3
<1>8. a = [i \in 1 .. Len(a) |-> a[i]] /\ b = [i \in 1 .. Len(b) |-> b[i]]
  BY SMT
<1>9. o + Len(a) - o = Len(a) /\ q - (o + Len(a)) = Len(b)
  BY <1>1, <1>5
<1>10. Logged(o, o + Len(a)) = [i \in 1 .. Len(a) |-> logged[o + i - 1]]
  <2> DEFINE p == o + Len(a)
  <2>1. p - o = Len(a)
    BY <1>1
  <2> HIDE DEF p
  <2>2. Logged(o, p) = [i \in 1 .. Len(a) |-> logged[o + i - 1]]
    BY Zenon, <2>1 DEF Logged
  <2> QED BY Zenon, <2>2 DEF p
<1>11. Logged(o + Len(a), q) = [i \in 1 .. Len(b) |-> logged[o + Len(a) + i - 1]]
  <2> DEFINE p == o + Len(a)
  <2>1. q - p = Len(b)
    BY Zenon, <1>9
  <2> HIDE DEF p
  <2>2. Logged(p, q) = [i \in 1 .. Len(b) |-> logged[p + i - 1]]
    BY Zenon, <2>1 DEF Logged
  <2> QED BY Zenon, <2>2 DEF p
<1>12. [i \in 1 .. Len(a) |-> a[i]] = [i \in 1 .. Len(a) |-> logged[o + i - 1]]
  BY Zenon, <1>6
<1>13. [i \in 1 .. Len(b) |-> b[i]] = [i \in 1 .. Len(b) |-> logged[o + Len(a) + i - 1]]
  BY Zenon, <1>7
<1> QED BY Zenon, <1>8, <1>10, <1>11, <1>12, <1>13 DEF Stretch

\* The calls of the two replays of one offset, the one IsValidOffsetCksm sums
\* up and the one a slave is sent, are the same when they read the file.
LEMMA SameCalls ==
    ASSUME TypeInv, NEW offset \in Offsets, offset <= end, end - offset <= FileSize
    PROVE  LET p == Locate(FileSize, pos, offset)
               total == end - offset
               a == Slice(file, p, FileSize - p)
               b == Slice(file, 0, p + total - FileSize)
           IN  /\ p \in 0 .. FileSize - 1 /\ total \in Nat
               /\ p + total >= FileSize =>
                    \A n \in {MaxOffset, FileSize} :
                      TwoCalls(file, FileSize, p, total, n)
                        = << [at |-> 0, bytes |-> a], [at |-> FileSize - p, bytes |-> b] >>
<1> USE SwalAssumption
<1> DEFINE p == Locate(FileSize, pos, offset)
           total == end - offset
           a == Slice(file, p, FileSize - p)
           b == Slice(file, 0, p + total - FileSize)
<1>1. end \in 0 .. MaxOffset /\ offset \in Nat /\ pos \in 0 .. FileSize - 1 /\ FileSize \in Nat
  BY DEF TypeInv, TypeOK, Offsets, FilePos
<1>2. p \in 0 .. FileSize - 1 /\ total \in 0 .. MaxOffset
  BY <1>1 DEF Locate
<1>3. ASSUME p + total >= FileSize, NEW n \in {MaxOffset, FileSize}
      PROVE  TwoCalls(file, FileSize, p, total, n)
               = << [at |-> 0, bytes |-> a], [at |-> FileSize - p, bytes |-> b] >>
  <2> DEFINE t == FileSize - p
             h == p + total - FileSize
             used == Smaller(n, t)
             rest == [i \in 1 .. t - used + h |->
                        IF i <= t - used THEN file[p + used + i - 1]
                        ELSE file[i - (t - used) - 1]]
  <2> HIDE DEF p, total
  <2>1. used = t /\ t - used = 0 /\ t - used + h = h /\ h \in Nat
    BY <1>1, <1>2, <1>3 DEF Smaller
  <2> HIDE DEF t, h, used
  <2>2. ASSUME NEW i \in 1 .. h
        PROVE  (IF i <= t - used THEN file[p + used + i - 1]
                ELSE file[i - (t - used) - 1]) = file[0 + i - 1]
    <3>1. ~(i <= 0) /\ i - 0 - 1 = 0 + i - 1
      BY <2>1
    <3> QED BY Zenon, <3>1, <2>1
  <2>3. rest = [i \in 1 .. h |-> file[0 + i - 1]]
    BY Zenon, <2>1, <2>2
  <2>4. rest = b
    BY Zenon, <2>3 DEF Slice, h
  <2>5. TwoCalls(file, FileSize, p, total, n)
          = << [at |-> 0, bytes |-> Slice(file, p, t)], [at |-> used, bytes |-> rest] >>
    BY Zenon DEF TwoCalls, t, h, used
  <2> QED BY Zenon, <2>1, <2>4, <2>5 DEF t
<1>4. total \in Nat
  BY <1>2
<1> QED BY Zenon, <1>2, <1>3, <1>4

\* A slice of the file is a sequence.
LEMMA SliceType ==
    ASSUME TypeInv, NEW p \in Nat, NEW n \in Nat, p + n <= FileSize
    PROVE  Slice(file, p, n) \in Seq(Byte) /\ Len(Slice(file, p, n)) = n
<1>1. Slice(file, p, n) \in [1 .. n -> Byte]
  BY SwalAssumption DEF Slice, TypeInv, TypeOK, FilePos
<1> QED BY Zenon, <1>1, FunIsSeq

\* The length and the elements of two sequences put together.
LEMMA CatAt ==
    ASSUME NEW S, NEW c \in Seq(S), NEW x \in Seq(S), NEW r, Cat(c, x, r)
    PROVE  Len(r) = Len(c) + Len(x) /\ \A i \in 1 .. Len(x) : r[Len(c) + i] = x[i]
  BY SMTT(60) DEF Cat

\* The same bytes in front of two sequences cancel.
LEMMA Cancel ==
    ASSUME NEW S, NEW c \in Seq(S), NEW x \in Seq(S), NEW y \in Seq(S), NEW r,
           Cat(c, x, r), Cat(c, y, r)
    PROVE  x = y
<1>1. /\ Len(r) = Len(c) + Len(x) /\ Len(r) = Len(c) + Len(y)
      /\ \A i \in 1 .. Len(x) : r[Len(c) + i] = x[i]
      /\ \A i \in 1 .. Len(y) : r[Len(c) + i] = y[i]
  BY SMTT(30), CatAt
<1>2. Len(x) = Len(y)
  BY SMT, <1>1
<1>3. \A i \in 1 .. Len(x) : x[i] = y[i]
  BY Zenon, <1>1, <1>2
<1> QED BY SMTT(30), <1>2, <1>3

\* What is summed up in full and compares equal is what was logged.
LEMMA SumDecides ==
    ASSUME TypeInv, SumInv, pc = "idle", NEW o \in Offsets, published[o] # << >>,
           NEW x \in Seq(Byte), Len(x) = end - o, published[o] \o x = cksm
    PROVE  x = Logged(o, end)
<1> DEFINE u == published[o]
<1>1. u \in Seq(Byte) /\ end \in Offsets /\ SumEnd = end
  BY Zenon DEF TypeInv, TypeOK, SumEnd
<1>2. SumAt(o)
  BY Zenon DEF SumInv, SumAt
<1>3. o <= end /\ (Len(cksm) = Len(u) + (end - o) => cksm = u \o Logged(o, end))
  BY Zenon, <1>1, <1>2 DEF SumAt
<1>4. Len(cksm) = Len(u) + (end - o)
  BY Zenon, <1>1, ConcatLen
<1>5. Logged(o, end) \in Seq(Byte)
  BY Zenon, <1>1, <1>3, LoggedType
<1>6. Cat(u, x, cksm) /\ Cat(u, Logged(o, end), cksm)
  BY Zenon, <1>3, <1>4 DEF Cat
<1> HIDE DEF u
<1> QED BY Zenon, <1>1, <1>5, <1>6, Cancel

\* AcceptFaithful: whatever crashes and failed writes did to the file and the
\* meta block, an offset that IsValidOffsetCksm accepts with the checksum
\* published for it is one from which the log's own bytes are sent.
THEOREM AcceptCorrect == Spec => []AcceptFaithful
<1>1. ASSUME IInv, SumInv PROVE AcceptFaithful
  <2> SUFFICES ASSUME pc = "idle", NEW offset \in Larger(start, end - FileSize) .. end,
                      published[offset] # << >>,
                      IsValidOffsetCksm(offset, published[offset])
               PROVE  Faithful(offset, 0, FileSize)
    BY Zenon DEF AcceptFaithful
  <2> USE SwalAssumption
  <2> DEFINE total == end - offset
             p == Locate(FileSize, pos, offset)
  <2>1. TypeInv /\ offset \in Offsets /\ end \in Offsets /\ start <= offset /\ offset <= end
        /\ total <= FileSize /\ offset \in start .. end /\ total \in Nat /\ FileSize \in Nat
        /\ offset \in Nat
    BY <1>1 DEF IInv, TypeInv, TypeOK, Offsets, Larger
  <2>2. ReplayLen(offset, total) = total /\ ReplayLen(offset, 0) = total
    BY <2>1 DEF ReplayLen
  <2>3. InRange(offset)
    BY Zenon, <2>1 DEF InRange
  <2>4. CASE FromRing(offset)
    <3>1. RingOf(ring, RingSize, ridx, offset)
      BY Zenon, <1>1, <2>1, <2>4, CacheIsRing
    <3>2. total \in 0 .. end - offset
      BY <2>1
    <3>3. Delivers(RingReplay(offset, total, FileSize), offset, total)
      BY Zenon, <2>1, <3>1, <3>2, RingReplayDelivers
    <3> QED BY Zenon, <2>2, <2>3, <2>4, <3>3 DEF Faithful, Delivers, swal_replay
  <2>5. CASE ~FromRing(offset)
    <3>1. published[offset] \o Summed(FileReplay(offset, total, MaxOffset)) = cksm
      BY Zenon, <2>2, <2>3, <2>5 DEF IsValidOffsetCksm, swal_replay
    <3>2. p \in 0 .. FileSize - 1 /\ p \in Nat /\ FileSize - p \in Nat
      <4>1. p \in 0 .. FileSize - 1
        BY Zenon, <2>1, SameCalls
      <4> HIDE DEF p
      <4> QED BY <4>1, <2>1
    <3>3. CASE p + total < FileSize
      <4> DEFINE x == Slice(file, p, total)
      <4>1. x \in Seq(Byte) /\ Len(x) = total
        <5> DEFINE T == end - offset
        <5>1. T \in Nat /\ FileSize \in Nat
          BY Zenon, <2>1
        <5> HIDE DEF p, T
        <5>2. p + T <= FileSize
          BY <5>1, <3>2, <3>3 DEF T
        <5> QED BY Zenon, <2>1, <3>2, <5>1, <5>2, SliceType DEF T
      <4>2. \A n : FileReplay(offset, total, n) = << [at |-> 0, bytes |-> x] >>
        BY Zenon, <3>3 DEF FileReplay, OneCall
      <4> HIDE DEF x
      <4>3. Summed(<< [at |-> 0, bytes |-> x] >>) = x
        BY SMT DEF Summed
      <4>4. x = Logged(offset, end)
        BY Zenon, <1>1, <2>1, <3>1, <4>1, <4>2, <4>3, SumDecides
      <4>5. offset + 0 = offset /\ offset + total = end
        BY <2>1 DEF Offsets
      <4>6. Delivers(<< [at |-> 0, bytes |-> x] >>, offset, total)
        <5> DEFINE calls == << [at |-> 0, bytes |-> x] >>
        <5>1. Len(calls) = 1 /\ calls[1].at = 0 /\ calls[1].bytes = x
          BY SMTT(30)
        <5> HIDE DEF calls
        <5>2. Delivers(calls, offset, total)
          BY Zenon, <4>4, <4>5, <5>1, OneDelivers
        <5> QED BY Zenon, <5>2 DEF calls
      <4> QED BY Zenon, <2>2, <2>3, <2>5, <4>2, <4>6 DEF Faithful, Delivers, swal_replay
    <3>4. CASE ~(p + total < FileSize)
      <4> DEFINE t == FileSize - p
                 h == p + total - FileSize
                 a == Slice(file, p, t)
                 b == Slice(file, 0, h)
                 calls == << [at |-> 0, bytes |-> a], [at |-> t, bytes |-> b] >>
      <4>1. p + total >= FileSize /\ t \in Nat /\ h \in Nat /\ 0 + h <= FileSize /\ p + t <= FileSize
            /\ t + h = total /\ 0 \in Nat /\ offset + t \in Offsets
        <5> DEFINE T == end - offset
        <5>1. T = total /\ T \in Nat /\ T <= FileSize /\ end = offset + T
          BY <2>1 DEF Offsets
        <5> HIDE DEF p, T
        <5> QED BY <5>1, <2>1, <3>2, <3>4 DEF Offsets
      <4>2. a \in Seq(Byte) /\ Len(a) = t /\ b \in Seq(Byte) /\ Len(b) = h
        BY Zenon, <2>1, <3>2, <4>1, SliceType
      <4>3. \A n \in {MaxOffset, FileSize} : FileReplay(offset, total, n) = calls
        BY Zenon, <2>1, <3>4, <4>1, SameCalls DEF FileReplay
      <4> HIDE DEF a, b, t, h
      <4>4. Summed(calls) = a \o b
        BY SMT DEF Summed
      <4>5. a \o b \in Seq(Byte) /\ Len(a \o b) = total
        BY Zenon, <4>1, <4>2, ConcatLen
      <4>6. a \o b = Logged(offset, end)
        BY Zenon, <1>1, <2>1, <3>1, <4>3, <4>4, <4>5, SumDecides
      <4>7. a = Logged(offset, offset + t) /\ b = Logged(offset + t, end)
        <5>1. Stretch(a, offset, offset + Len(a)) /\ Stretch(b, offset + Len(a), end)
          <6>1. Cat(a, b, Logged(offset, end))
            BY Zenon, <4>6 DEF Cat
          <6>2. TypeInv /\ offset \in Offsets /\ end \in Offsets /\ offset <= end
            BY Zenon, <2>1
          <6>3. a \in Seq(Byte) /\ b \in Seq(Byte)
            BY Zenon, <4>2
          <6> QED BY Zenon, <6>1, <6>2, <6>3, LoggedSplit
        <5> QED BY Zenon, <5>1, <4>2 DEF Stretch
      <4>8. offset + 0 = offset /\ offset + total = end
        BY <2>1 DEF Offsets
      <4>9. Delivers(calls, offset, total)
        <5>1. Len(calls) = 2 /\ calls[1].at = 0 /\ calls[1].bytes = a /\ calls[2].at = t
              /\ calls[2].bytes = b
          BY SMTT(30)
        <5> HIDE DEF calls
        <5> QED BY Zenon, <4>2, <4>7, <4>8, <5>1, TwoDeliver DEF TwoFaithful
      <4> HIDE DEF calls
      <4> QED BY Zenon, <2>2, <2>3, <2>5, <4>3, <4>9 DEF Faithful, Delivers, swal_replay
    <3> QED BY Zenon, <3>3, <3>4
  <2> QED BY Zenon, <2>4, <2>5
<1>2. IInv /\ SumInv /\ [Next]_vars => SumInv'
  BY SumStep DEF IInv
<1> QED BY <1>1, <1>2, Invariance, SumInit, PTL DEF Spec
=============================================================================
