-------------------------------- MODULE Swal --------------------------------
(***************************************************************************)
(* The write-ahead log behind replication (repl/swal.c): a file of fixed    *)
(* size used as a ring, a meta block mapped MAP_SHARED that says how much   *)
(* of the log was ever written and where the next byte goes, and an         *)
(* optional in-memory ring that caches the most recent bytes.               *)
(*                                                                          *)
(* swal_append runs on the replication thread only, so nobody reads the     *)
(* log while an append is under way; it is still split into the steps at    *)
(* which a failing write(2) returns early or at which a dying process       *)
(* leaves the file and the meta block behind.  swal_replay changes nothing  *)
(* and is an operator.                                                      *)
(***************************************************************************)
EXTENDS Integers, Sequences

CONSTANTS
    Byte,          \* the values a byte can take
    Zero,          \* the byte ftruncate fills a new file with
    FileSize,      \* options.max_file_size
    RingSize,      \* options.ring_cache_size; 0 when there is no cache
    MaxLog,        \* bound: the longest log handed to one swal_append
    MaxOffset,     \* bound: the largest offset reached
    ResetOffsets,  \* bound: the offsets swal_reset is called with
    MaxFaults      \* bound: failed and short writes, crashes and resets

ASSUME SwalAssumption ==
    /\ Zero \in Byte
    /\ FileSize \in Nat \ {0}
    /\ RingSize \in Nat
    /\ MaxLog \in Nat \ {0}
    /\ MaxOffset \in Nat
    /\ ResetOffsets \subseteq 0 .. MaxOffset
    /\ MaxFaults \in Nat

Offsets == 0 .. MaxOffset
FilePos == 0 .. FileSize - 1
RingPos == 0 .. RingSize - 1

VARIABLES
    start,     \* meta->log_start_offset
    end,       \* meta->log_end_offset
    pos,       \* meta->log_file_pos
    cksm,      \* meta->cksm: the bytes summed up so far (no collisions)
    file,      \* the content of the log file
    fdpos,     \* the file offset of wal->fd
    ring,      \* wal->ring_cache
    ridx,      \* wal->ring_cache_idx
    rstart,    \* wal->ring_cache_start_offset
    pc,        \* the step swal_append has reached, or "idle"
    len,       \* loglen of the call in progress
    done,      \* bytes of the call already dealt with by the current loop
    logged,    \* history: the byte at every offset; from end on, the buffer
               \* of the call in progress
    good,      \* history: the file is trustworthy from this offset on
    published, \* history: the checksum this log has published per offset
    faults     \* how many of the MaxFaults events have happened

meta == <<start, end, pos, cksm>>
disk == <<file, fdpos>>
cache == <<ring, ridx, rstart>>
call == <<pc, len, done>>
history == <<logged, good, published>>
vars == <<start, end, pos, cksm, file, fdpos, ring, ridx, rstart,
          pc, len, done, logged, good, published, faults>>

Larger(a, b) == IF a >= b THEN a ELSE b
Smaller(a, b) == IF a <= b THEN a ELSE b

Fault == faults < MaxFaults /\ faults' = faults + 1

-----------------------------------------------------------------------------
(* swal_append                                                             *)

\* The caller's buffer, as the bytes that follow the present end.
AppendBegin(log) ==
    /\ pc = "idle"
    /\ end + Len(log) <= MaxOffset
    /\ pc' = "write" /\ len' = Len(log) /\ done' = 0
    /\ logged' = [o \in Offsets |-> IF end <= o /\ o < end + Len(log)
                                    THEN log[o - end + 1] ELSE logged[o]]
    /\ UNCHANGED <<meta, disk, cache, good, published, faults>>

\* The call is over, with or without success: the buffer is gone.
Return ==
    /\ pc' = "idle" /\ len' = 0 /\ done' = 0
    /\ logged' = [o \in Offsets |-> IF o < end THEN logged[o] ELSE Zero]

\* What one round of the file loop hands to write(2).
FileChunkLen == Smaller(FileSize - pos, len - done)

\* The file once the first k bytes of the chunk have been written at fdpos.
Written(k) == [i \in FilePos |-> IF fdpos <= i /\ i < fdpos + k
                                 THEN logged[end + done + (i - fdpos)]
                                 ELSE file[i]]

\* A round of the file loop in which write(2) takes k bytes.  The code looks
\* at the result only for a negative value: log_file_pos moves by the whole
\* chunk even when fewer bytes were taken.
WriteChunk(k) ==
    /\ pc = "write" /\ done < len
    /\ file' = Written(k)
    /\ done' = done + FileChunkLen
    /\ IF pos + FileChunkLen = FileSize
       THEN pos' = 0 /\ fdpos' = 0
       ELSE pos' = pos + FileChunkLen /\ fdpos' = fdpos + k
    /\ good' = IF k = FileChunkLen /\ fdpos = pos THEN good
               ELSE Larger(good, end + len)
    /\ UNCHANGED <<start, end, cksm, cache, pc, len, logged, published>>

FileChunk == WriteChunk(FileChunkLen) /\ UNCHANGED faults

ShortWrite(k) == k \in 1 .. FileChunkLen - 1 /\ WriteChunk(k) /\ Fault

\* write(2) fails: swal_append returns at once, with log_file_pos where the
\* earlier rounds left it and log_end_offset as it was.
WriteFail ==
    /\ pc = "write" /\ done < len
    /\ good' = IF done = 0 THEN good ELSE end
    /\ Return
    /\ Fault
    /\ UNCHANGED <<meta, disk, cache, published>>

\* log_end_offset += loglen
CommitEnd ==
    /\ pc = "write" /\ done = len
    /\ pc' = "start"
    /\ end' = end + len
    /\ UNCHANGED <<start, pos, cksm, disk, cache, len, done, history, faults>>

\* log_start_offset follows once the log is longer than the file.
CommitStart ==
    /\ pc = "start"
    /\ pc' = "cksm"
    /\ start' = IF end - start >= FileSize THEN end - FileSize ELSE start
    /\ UNCHANGED <<end, pos, cksm, disk, cache, len, done, history, faults>>

\* The bytes from offset o to offset p, p excluded.
Logged(o, p) == [i \in 1 .. p - o |-> logged[o + i - 1]]

\* meta->cksm = cksm_func(meta->cksm, log, loglen)
CommitCksm ==
    /\ pc = "cksm"
    /\ cksm' = cksm \o Logged(end - len, end)
    /\ published' = [published EXCEPT ![end] = cksm']
    /\ pc' = "ring" /\ done' = 0
    /\ UNCHANGED <<start, end, pos, disk, cache, len, logged, good, faults>>

RingChunkLen == Smaller(RingSize - ridx, len - done)

\* A round of the loop that copies the log into the ring cache.
RingChunk ==
    /\ pc = "ring" /\ RingSize > 0 /\ done < len
    /\ ring' = [i \in RingPos |->
                  IF ridx <= i /\ i < ridx + RingChunkLen
                  THEN logged[end - len + done + (i - ridx)] ELSE ring[i]]
    /\ ridx' = IF ridx + RingChunkLen = RingSize THEN 0
               ELSE ridx + RingChunkLen
    /\ done' = done + RingChunkLen
    /\ UNCHANGED <<meta, disk, rstart, pc, len, history, faults>>

\* A bug: ring_cache_start_offset stays behind.
RingCommitNoStart ==
    /\ pc = "ring" /\ (RingSize > 0 => done = len)
    /\ Return
    /\ UNCHANGED <<meta, disk, cache, good, published, faults>>

\* ring_cache_start_offset follows; swal_append returns.
RingCommit ==
    /\ pc = "ring" /\ (RingSize > 0 => done = len)
    /\ rstart' = IF RingSize > 0 /\ end - rstart >= RingSize
                 THEN end - RingSize ELSE rstart
    /\ Return
    /\ UNCHANGED <<meta, disk, ring, ridx, good, published, faults>>

-----------------------------------------------------------------------------
(* swal_reset, and swal_open after the process died                        *)

Reset(offset, c) ==
    /\ pc = "idle"
    /\ start' = offset /\ end' = offset /\ pos' = 0 /\ cksm' = c
    /\ rstart' = IF RingSize > 0 THEN offset ELSE rstart
    /\ ridx' = 0
    /\ fdpos' = 0
    /\ good' = offset
    /\ published' = [o \in Offsets |-> IF o = offset THEN c ELSE <<>>]
    /\ logged' = [o \in Offsets |-> Zero]
    /\ Fault
    /\ UNCHANGED <<file, ring, call>>

\* What swal_open does to the volatile part: the file is positioned at
\* log_file_pos, the ring cache is empty and its memory arbitrary.
Open ==
    /\ fdpos' = pos
    /\ ring' \in [RingPos -> Byte]
    /\ ridx' = 0
    /\ rstart' = IF RingSize > 0 THEN end ELSE rstart

\* swal_close and swal_open, or a process that dies between two calls.
Restart ==
    /\ pc = "idle"
    /\ Open
    /\ UNCHANGED <<meta, file, call, history, faults>>

\* The process dies and comes back.  The file and the meta block survive;
\* in the file loop, k bytes of the current chunk may have reached the file
\* although log_file_pos has not moved yet.
CrashInWrite(k) ==
    /\ pc = "write"
    /\ k \in 0 .. FileChunkLen
    /\ file' = Written(k)
    /\ good' = IF done = 0 /\ k = 0 THEN good ELSE end
    /\ Open
    /\ Return
    /\ Fault
    /\ UNCHANGED <<meta, published>>

\* A bug: after the file loop the meta block comes back as it was before the
\* call.
CrashLosesMeta ==
    /\ pc = "start"
    /\ end' = end - len /\ pos' = (pos - len + 2 * FileSize) % FileSize
    /\ fdpos' = pos'
    /\ ring' \in [RingPos -> Byte] /\ ridx' = 0 /\ rstart' = end'
    /\ good' = Larger(good, end - FileSize)
    /\ Return
    /\ Fault
    /\ UNCHANGED <<start, cksm, file, published>>

\* Later on the meta block is left as the last store to it made it:
\* log_start_offset and cksm may lag behind log_end_offset.
Crash ==
    /\ pc \notin {"idle", "write"}
    /\ good' = IF pc = "start" THEN Larger(good, end - FileSize) ELSE good
    /\ published' = IF pc \in {"start", "cksm"}
                    THEN [published EXCEPT ![end] = cksm] ELSE published
    /\ Open
    /\ Return
    /\ Fault
    /\ UNCHANGED <<meta, file>>

-----------------------------------------------------------------------------
(* swal_replay: the buffers it hands to the callback, in order.  A call     *)
(* [at, bytes] is made when the callback has consumed at bytes; consumed is *)
(* what the first of two calls returns.                                     *)

InRange(offset) == start <= offset /\ offset <= end

ReplayLen(offset, limit) ==
    IF limit > 0 /\ limit < end - offset THEN limit ELSE end - offset

\* n bytes of mem from position p
Slice(mem, p, n) == [i \in 1 .. n |-> mem[p + i - 1]]

\* Where the byte at an offset sits in a buffer of the given size whose next
\* byte goes to position idx.
Locate(size, idx, offset) ==
    IF idx >= end - offset THEN idx - (end - offset)
    ELSE size - (end - offset) + idx

OneCall(mem, p, total) == << [at |-> 0, bytes |-> Slice(mem, p, total)] >>

\* A bug: what the callback left of the tail is not offered again.
TwoCallsDropRest(mem, size, p, total, consumed) ==
    << [at |-> 0, bytes |-> Slice(mem, p, size - p)],
       [at |-> Smaller(consumed, size - p),
        bytes |-> Slice(mem, 0, p + total - size)] >>

\* The data wraps: the tail of the buffer, then the head, with what the
\* callback left of the tail copied in front of it.
TwoCalls(mem, size, p, total, consumed) ==
    LET tlen == size - p
        hlen == p + total - size
        used == Smaller(consumed, tlen)
    IN  << [at |-> 0, bytes |-> Slice(mem, p, tlen)],
           [at |-> used,
            bytes |-> [i \in 1 .. tlen - used + hlen |->
                         IF i <= tlen - used THEN mem[p + used + i - 1]
                         ELSE mem[i - (tlen - used) - 1]]] >>

RingReplay(offset, total, consumed) ==
    LET p == Locate(RingSize, ridx, offset)
    IN  IF ridx >= end - offset \/ total <= RingSize - p
        THEN OneCall(ring, p, total)
        ELSE TwoCalls(ring, RingSize, p, total, consumed)

FileReplay(offset, total, consumed) ==
    LET p == Locate(FileSize, pos, offset)
    IN  IF p + total < FileSize
        THEN OneCall(file, p, total)
        ELSE TwoCalls(file, FileSize, p, total, consumed)

FromRing(offset) == RingSize > 0 /\ offset >= rstart

swal_replay(offset, limit, consumed) ==
    IF ~InRange(offset) THEN << >>
    ELSE IF FromRing(offset)
         THEN RingReplay(offset, ReplayLen(offset, limit), consumed)
         ELSE FileReplay(offset, ReplayLen(offset, limit), consumed)

\* ReplicationBacklog::IsValidOffsetCksm, which sums up the log from offset
\* on and compares; a sum of zero is not compared.
Summed(calls) == IF Len(calls) = 1 THEN calls[1].bytes
                 ELSE calls[1].bytes \o calls[2].bytes

\* A bug: the offset alone decides.
IsValidOffsetOnly(offset, c) == offset > 0 /\ InRange(offset)

IsValidOffsetCksm(offset, c) ==
    /\ offset > 0
    /\ InRange(offset)
    /\ c # << >> =>
         c \o Summed(swal_replay(offset, end - offset, MaxOffset)) = cksm

-----------------------------------------------------------------------------
Init ==
    /\ start = 0 /\ end = 0 /\ pos = 0 /\ cksm = << >>
    /\ file = [i \in FilePos |-> Zero]
    /\ fdpos = 0
    /\ ring \in [RingPos -> Byte]
    /\ ridx = 0 /\ rstart = 0
    /\ pc = "idle" /\ len = 0 /\ done = 0
    /\ logged = [o \in Offsets |-> Zero]
    /\ good = 0
    /\ published = [o \in Offsets |-> << >>]
    /\ faults = 0

Logs == UNION { [1 .. n -> Byte] : n \in 1 .. MaxLog }

Next ==
    \/ \E log \in Logs : AppendBegin(log)
    \/ FileChunk
    \/ \E k \in 1 .. FileSize : ShortWrite(k)
    \/ WriteFail
    \/ CommitEnd
    \/ CommitStart
    \/ CommitCksm
    \/ RingChunk
    \/ RingCommit
    \/ \E offset \in ResetOffsets, c \in {<< >>, <<Zero>>} : Reset(offset, c)
    \/ \E k \in 0 .. FileSize : CrashInWrite(k)
    \/ Crash
    \/ Restart

Spec == Init /\ [][Next]_vars

-----------------------------------------------------------------------------
\* Every field stays in the range its C type and its use assume; the file
\* descriptor never runs ahead of log_file_pos.
TypeOK ==
    /\ start \in Offsets /\ end \in Offsets /\ start <= end
    /\ pos \in FilePos
    /\ cksm \in Seq(Byte)
    /\ file \in [FilePos -> Byte]
    /\ fdpos \in 0 .. pos
    /\ ring \in [RingPos -> Byte]
    /\ ridx \in RingPos \cup {0}
    /\ rstart \in Offsets
    /\ pc \in {"idle", "write", "start", "cksm", "ring"}
    /\ len \in 0 .. MaxLog /\ done \in 0 .. len
    /\ logged \in [Offsets -> Byte]
    /\ good \in Offsets
    /\ published \in [Offsets -> Seq(Byte)]
    /\ faults \in 0 .. MaxFaults

-----------------------------------------------------------------------------
\* The end of what the file loop has written, committed or not.
FileEnd == IF pc = "write" THEN end + done ELSE end

\* Where the file holds the byte at an offset.
FileIndex(o) == IF pos >= FileEnd - o THEN pos - (FileEnd - o)
                ELSE FileSize - (FileEnd - o) + pos

\* The oldest offset the file still holds.
Oldest == Larger(start, Larger(good, FileEnd - FileSize))

\* The buffers swal_replay hands out are the logged bytes that follow what
\* has been consumed, and together they reach the length asked for.
Faithful(offset, limit, consumed) ==
    LET calls == swal_replay(offset, limit, consumed)
        total == ReplayLen(offset, limit)
    IN  \A n \in 1 .. Len(calls) :
             LET at == calls[n].at
                 upto == IF n = Len(calls) THEN total
                         ELSE Len(calls[n].bytes)
             IN  calls[n].bytes = Logged(offset + at, offset + upto)

\* swal_replay from any offset the log still holds, with any limit and
\* whatever the callback consumes of the first part, yields exactly the bytes
\* appended there: across the wrap of the file, across the wrap of the ring
\* cache, after failed and short writes and after a crash at any point.
ReplayFaithful ==
    pc = "idle" =>
      \A offset \in Oldest .. end, limit \in 0 .. end - Oldest,
         consumed \in 0 .. Larger(FileSize, RingSize) :
           Faithful(offset, limit, consumed)

\* What the ring cache serves is right whatever happened to the file: its
\* bytes never depend on the outcome of write(2).
CacheFaithful ==
    pc = "idle" =>
      \A offset \in start .. end : FromRing(offset) =>
        /\ end - offset <= RingSize
        /\ Faithful(offset, 0, RingSize)

\* When IsValidOffsetCksm accepts an offset together with the checksum this
\* log published for it, the bytes a partial resynchronisation would send
\* from there are the bytes that were appended: a file and a meta block that
\* a crash or a failed write left out of step are never served.
AcceptFaithful ==
    pc = "idle" =>
      \A offset \in Larger(start, end - FileSize) .. end :
        LET c == published[offset] IN
        (c # << >> /\ IsValidOffsetCksm(offset, c)) =>
            Faithful(offset, 0, FileSize)

-----------------------------------------------------------------------------
(* Why replay is faithful: the inductive invariant of SwalProofs.          *)

\* The file still holds the byte at an offset.
Held(o) == start <= o /\ good <= o /\ FileEnd <= o + FileSize /\ o < FileEnd

\* Byte by byte, the file holds what was logged; a descriptor that lags
\* behind log_file_pos after a short write means nothing is held any more.
FileInv ==
    /\ fdpos # pos => good >= FileEnd
    /\ \A o \in Offsets : Held(o) => file[FileIndex(o)] = logged[o]

\* The end of what has been copied into the ring cache.
RingEnd == IF pc \in {"start", "cksm"} THEN end - len
           ELSE IF pc = "ring" THEN end - len + done ELSE end

RingIndex(o) == IF ridx >= RingEnd - o THEN ridx - (RingEnd - o)
                ELSE RingSize - (RingEnd - o) + ridx

\* The ring cache holds the byte at an offset.
Cached(o) == rstart <= o /\ RingEnd <= o + RingSize /\ o < RingEnd

\* Byte by byte, the ring cache holds what was logged from
\* ring_cache_start_offset on, as far as it is large enough.
RingInv ==
    RingSize > 0 =>
      /\ rstart <= RingEnd
      /\ pc # "ring" => RingEnd - rstart <= RingSize
      /\ \A o \in Offsets : Cached(o) => ring[RingIndex(o)] = logged[o]

\* The end of what meta->cksm sums up.
SumEnd == IF pc \in {"start", "cksm"} THEN end - len ELSE end

\* Since it published a checksum the log has summed up at most the bytes that
\* followed (a crash may leave some out), and no others if it summed up all.
SumInv ==
    \A o \in Offsets : published[o] # << >> =>
      /\ o <= SumEnd
      /\ Len(cksm) <= Len(published[o]) + (SumEnd - o)
      /\ Len(cksm) = Len(published[o]) + (SumEnd - o) =>
           cksm = published[o] \o Logged(o, SumEnd)

-----------------------------------------------------------------------------
\* The promise of WalLog, read off the file: the window ends at the committed
\* end, and its bytes are those the file has at their places.
Lo == Smaller(Oldest, end)

Promise == INSTANCE WalLog WITH
    lo <- Lo, hi <- end, text <- [o \in Lo .. end - 1 |-> file[FileIndex(o)]]

\* The file keeps the promise of an append-only text behind a window that only
\* moves forward: no chunk written over older bytes, no failed or short write
\* and no crash changes a byte that can still be read, or makes a byte that
\* was given up readable again.
KeepsPromise == Promise!LogSpec
=============================================================================
