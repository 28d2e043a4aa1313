------------------------------ MODULE Connection ------------------------------
(* One connection of the server: the channel (common/channel/channel.cpp),   *)
(* the frame decoder that cuts commands out of what arrives                  *)
(* (codec/stack_frame_decoder.hpp, codec/redis_command_codec.cpp) and the    *)
(* request handler (network.cpp), on the thread of the connection's event    *)
(* loop.  A command is two units on the wire, so that it may arrive in       *)
(* pieces; a reply, a published message or a piece of a file is one.         *)
EXTENDS Integers, Sequences, FiniteSets

CONSTANTS Streams,    \* the command sequences a client may send
          Room,       \* bound on the socket's send buffer
          MaxPushes,  \* bound on what other threads post to a client's connection
                      \* (messages, closes and pauses)
          MaxFeeds,   \* bound on what the replication thread sends to a replica's
          FileLen,    \* units of the file SendFile sends
          Overloads   \* bound on the suspensions for exceeding a qps limit

VARIABLES stream,     \* the commands of the client, by kind
          net,        \* the socket: sent, received, wire, got and fin, the client's close
          ch,         \* the channel with its decoder and handler; the last fields, from
                      \* calls on, record what happened
          pushes, overloads

connVars == <<stream, net, ch, pushes, overloads>>

\* Replies are the numbers of their commands; what else is sent:
Message == 0
NilReply == -1
FilePiece == -2

PushFrame(c, frames) == [c EXCEPT !.stack = frames \o @]
PopFrame(c) == [c EXCEPT !.stack = Tail(@)]
Top == IF ch.stack = <<>> THEN "loop" ELSE Head(ch.stack)[1]
\* The thread is in its event loop: outermost, or the one a SAVE keeps going.
AtLoop == Top \in {"loop", "save"}
\* A connection that PSYNC made a replica's: no more commands from it.
Replica == stream = <<>>
KindOf(u) == stream[(u + 1) \div 2]

ConnInit ==
  /\ stream \in Streams
  /\ net = [sent |-> 0, rcv |-> <<>>, wire |-> <<>>, got |-> <<>>, fin |-> FALSE]
  /\ \E added \in BOOLEAN :
       ch = [open |-> TRUE, mask |-> {"R"}, input |-> <<>>, cumulation |-> <<>>, output |-> <<>>,
             block_read |-> FALSE, detached |-> FALSE, resume |-> FALSE,
             pause |-> FALSE, resume_ustime |-> "unset", auto_disable |-> ~Replica,
             close_after_write |-> FALSE, file |-> 0, bpop |-> 0, reply |-> 0, added |-> added,
             stack |-> <<>>, calls |-> <<>>, written |-> <<>>,
             nested |-> FALSE, timedout |-> FALSE, unblocked |-> FALSE, paused |-> FALSE, cut |-> FALSE]
  /\ pushes = 0 /\ overloads = 0

-----------------------------------------------------------------------------
(* The operations of the channel.                                            *)

EnableWriting(c) == IF c.open THEN [c EXCEPT !.mask = @ \cup {"W"}] ELSE c

\* A reply or message is encoded straight into the output buffer.
Write(c, m) ==
  EnableWriting([c EXCEPT !.output = Append(@, m), !.written = Append(@, m)])

BlockRead(c) ==
  IF c.open /\ ~c.block_read
  THEN [c EXCEPT !.mask = @ \ {"R"}, !.block_read = TRUE] ELSE c

\* StackFrameDecoder::MessageReceived: what is left of earlier input comes
\* first; the decoding loop is pushed on the stack.
MessageReceived(c) ==
  IF c.cumulation # <<>>
  THEN PushFrame([c EXCEPT !.cumulation = @ \o c.input, !.input = <<>>], <<<<"cumulation", 0>>>>)
  ELSE PushFrame(c, <<<<"input", 0>>>>)

UnblockRead(c) ==
  LET d == [c EXCEPT !.block_read = FALSE, !.unblocked = TRUE,
                     !.mask = IF c.open THEN @ \cup {"R"} ELSE @]
  IN IF ~c.block_read THEN c ELSE IF c.input # <<>> THEN MessageReceived(d) ELSE d

\* Mutant: the output left in the buffer is not polled for again.
AttachFDReadOnly(c) ==
  [c EXCEPT !.mask = IF c.open THEN @ \cup {"R"} ELSE @, !.detached = FALSE]

AttachFD(c) ==
  [c EXCEPT !.mask = IF c.open THEN @ \cup {"R"} \cup (IF c.output # <<>> THEN {"W"} ELSE {}) ELSE @,
            !.detached = FALSE]

DetachFD(c) ==
  IF c.open /\ ~c.detached THEN [c EXCEPT !.mask = {}, !.detached = TRUE] ELSE c

\* Channel::DoClose(false): the decoder decodes what it still holds and the
\* client is freed.
DoClose(c) ==
  LET cleanup == (IF c.cumulation = <<>> THEN <<>> ELSE <<<<"cumulation", 0>>, <<"last", 0>>>>)
                 \o <<<<"free", 0>>, <<"clear", 0>>>>
  IN IF ~c.open THEN c
     ELSE [PushFrame(c, cleanup) EXCEPT !.open = FALSE, !.mask = {}, !.file = 0, !.cut = c.output # <<>>]

Close(c) ==
  IF c.output # <<>> /\ c.open
  THEN EnableWriting([c EXCEPT !.close_after_write = TRUE]) ELSE DoClose(c)

-----------------------------------------------------------------------------
(* Decoding and handling commands: the top of the stack.                     *)

\* RedisRequestHandler::MessageReceived for command k.  The reply is an object
\* of the thread's pool that every call starts over.
Call(c, k) ==
  LET d == [c EXCEPT !.calls = Append(@, k), !.reply = 0,
                     !.nested = @ \/ \E i \in DOMAIN c.stack : c.stack[i][1] \in {"save", "reply"}]
  IN CASE stream[k] = "call"  -> Write([d EXCEPT !.reply = k], k)
       [] stream[k] = "quit"  -> Close(Write([d EXCEPT !.reply = k], k))
       [] stream[k] = "block" -> BlockRead([d EXCEPT !.bpop = k])
       [] stream[k] = "save"  -> PushFrame(BlockRead(d), <<<<"save", k>>>>)

\* suspendConnection, at the end of a call that exceeds a qps limit.
Suspended(c) ==
  \/ ch' = c /\ UNCHANGED overloads
  \/ /\ overloads < Overloads /\ ~c.detached
     /\ ch' = [DetachFD(c) EXCEPT !.resume = TRUE]
     /\ overloads' = overloads + 1

\* A whole command is at the head of the buffer; a malformed one is there as
\* soon as its first unit is.
Whole(buf) == buf # <<>> /\ (KindOf(buf[1]) = "bad" \/ Len(buf) >= 2)

\* RedisCommandDecoder::Decode of the buffer b, on which the caller goes on or
\* not: a malformed piece is consumed without a command.
Decode(c, b) ==
  IF KindOf(c[b][1]) = "bad"
  THEN ch' = [c EXCEPT ![b] = Tail(@)] /\ UNCHANGED overloads
  ELSE LET d == [c EXCEPT ![b] = SubSeq(@, 3, Len(@))]
           k == (c[b][1] + 1) \div 2
       IN IF stream[k] = "save" THEN ch' = Call(d, k) /\ UNCHANGED overloads
          ELSE Suspended(Call(d, k))

\* StackFrameDecoder::CallDecode, a round of its loop.
CallDecode ==
  /\ Top \in {"input", "cumulation"}
  /\ ~ch.block_read /\ Whole(ch[Top])
  /\ Decode(ch, Top)
  /\ UNCHANGED <<stream, net, pushes>>

\* The loop ends; what is left of the input is kept for the next message.
CallDecodeEnd ==
  /\ Top \in {"input", "cumulation"}
  /\ ch.block_read \/ ~Whole(ch[Top])
  /\ ch' = IF Top = "input"
           THEN PopFrame([ch EXCEPT !.cumulation = @ \o ch.input, !.input = <<>>])
           ELSE PopFrame(ch)
  /\ UNCHANGED <<stream, net, pushes, overloads>>

\* DecodeLast, when the channel is closed: one more command, blocked or not.
DecodeLast ==
  /\ Top = "last"
  /\ IF Whole(ch.cumulation) THEN Decode(PopFrame(ch), "cumulation")
     ELSE ch' = PopFrame(ch) /\ UNCHANGED overloads
  /\ UNCHANGED <<stream, net, pushes>>

\* ChannelClosed of the handler: FreeClient, whose UnblockKeys unblocks the
\* channel; then the decoder's buffer is cleared.
FreeClient ==
  /\ \/ Top = "free" /\ ch' = UnblockRead(PopFrame([ch EXCEPT !.bpop = 0]))
     \/ Top = "clear" /\ ch' = PopFrame([ch EXCEPT !.cumulation = <<>>])
  /\ UNCHANGED <<stream, net, pushes, overloads>>

\* SAVE (or IMPORT) is done: the reply object is set and the channel unblocked
\* before the call returns to the handler.  One whose channel was closed
\* meanwhile goes on with a deleted channel and is outside the model; one decoded
\* while its channel is being closed has the channel still.
SaveEnd ==
  /\ Top = "save"
  /\ ch.open \/ \E i \in DOMAIN ch.stack : ch.stack[i][1] = "free"
  /\ ch' = UnblockRead(PushFrame(PopFrame([ch EXCEPT !.reply = Head(ch.stack)[2]]), <<<<"reply", 0>>>>))
  /\ UNCHANGED <<stream, net, pushes, overloads>>

\* The rest of the handler after a SAVE: whatever the reply object holds by now
\* is written.
SaveReply ==
  /\ Top = "reply"
  /\ Suspended(PopFrame(IF ch.reply = 0 THEN ch ELSE Write(ch, ch.reply)))
  /\ UNCHANGED <<stream, net, pushes>>

-----------------------------------------------------------------------------
(* Events of the loop.                                                       *)

\* Channel::OnRead: with reading blocked only the end of the stream matters.
OnRead ==
  /\ AtLoop /\ ch.open /\ "R" \in ch.mask
  /\ net.rcv # <<>> \/ net.fin
  /\ IF net.rcv = <<>> THEN ch' = DoClose(ch) /\ UNCHANGED net
     ELSE IF ch.block_read THEN ch' = MessageReceived(ch) /\ UNCHANGED net
     ELSE /\ ch' = MessageReceived([ch EXCEPT !.input = @ \o net.rcv])
          /\ net' = [net EXCEPT !.rcv = <<>>]
  /\ UNCHANGED <<stream, pushes, overloads>>

\* What a write of n units moves into the socket, followed by m of the file.
Sent(n, m) ==
  net' = [net EXCEPT !.wire = @ \o SubSeq(ch.output, 1, n) \o [i \in 1 .. m |-> FilePiece]]
Rest(n) == SubSeq(ch.output, n + 1, Len(ch.output))
Fits(n) == n <= Len(ch.output) /\ Len(net.wire) + n <= Room

\* send_wal_toslave puts log into the output buffer of a replica; the loop goes on
\* polling for writing unless this was all of the log.
FeedLog(c, all) == [Write(c, Message) EXCEPT !.auto_disable = all]

\* The end of OnWrite: a replica gets more of the log (ChannelWritable, or the
\* completion of a file), and writing is disabled when there is no output.
Writable(c) ==
  \/ /\ ch' = IF c.output = <<>> /\ c.auto_disable THEN [c EXCEPT !.mask = @ \ {"W"}] ELSE c
     /\ UNCHANGED pushes
  \/ /\ Replica /\ pushes < MaxFeeds
     /\ \E all \in BOOLEAN : ch' = FeedLog(c, all)
     /\ pushes' = pushes + 1

\* Channel::OnWrite: flush, then close, wait for the rest, or go on with the file.
OnWrite(n) ==
  /\ AtLoop /\ ch.open /\ "W" \in ch.mask /\ Fits(n)
  /\ LET c == [ch EXCEPT !.output = Rest(n)] IN
     \/ c.close_after_write /\ Sent(n, 0) /\ ch' = Close(c) /\ UNCHANGED pushes
     \/ ~c.close_after_write /\ c.output # <<>> /\ Sent(n, 0) /\ ch' = c /\ UNCHANGED pushes
     \/ ~c.close_after_write /\ c.output = <<>> /\ c.file = 0 /\ Sent(n, 0) /\ Writable(c)
     \/ /\ ~c.close_after_write /\ c.output = <<>> /\ c.file > 0
        /\ \E m \in 0 .. c.file :
             /\ Len(net.wire) + n + m <= Room
             /\ Sent(n, m)
             /\ LET d == [c EXCEPT !.file = @ - m, !.written = @ \o [i \in 1 .. m |-> FilePiece]]
                IN IF m = c.file THEN Writable(d) ELSE ch' = d /\ UNCHANGED pushes
  /\ UNCHANGED <<stream, overloads>>

\* A write finds the connection reset by the client.
WriteError ==
  /\ AtLoop /\ ch.open /\ "W" \in ch.mask /\ net.fin
  /\ ch.output # <<>> \/ ch.file > 0
  /\ ch' = DoClose(ch)
  /\ UNCHANGED <<stream, net, pushes, overloads>>

\* Callbacks that other threads post to the loop: a published message or a
\* monitored command, a close (CLIENT KILL).  The replication thread, which is the
\* thread of a replica's loop: the file of a snapshot (SendFile), log, a close.
\* Nothing else is written to a replica while it is sent a file.
Posted ==
  /\ AtLoop /\ ch.open
  /\ \/ /\ ~Replica /\ pushes < MaxPushes
        /\ ch' \in {Write(ch, Message), Close(ch)}
     \/ /\ Replica /\ pushes < MaxFeeds
        /\ \/ ch.file = 0 /\ ch' = EnableWriting([ch EXCEPT !.file = FileLen])
           \/ ch.file = 0 /\ \E all \in BOOLEAN : ch' = FeedLog(ch, all)
           \/ ch' = Close(ch)
  /\ pushes' = pushes + 1
  /\ UNCHANGED <<stream, net, overloads>>

\* Channel::WriteNow of a message to a replica, with the options it has: into the
\* output buffer behind what is there, or straight into the socket, n units of it.
\* Where there is output, writing is enabled (PollsForWork) and Flush does nothing.
WriteNow(n) ==
  /\ AtLoop /\ ch.open /\ Replica /\ pushes < MaxFeeds /\ ch.file = 0
  /\ LET c == [ch EXCEPT !.output = Append(@, Message), !.written = Append(@, Message)] IN
     \/ "W" \in ch.mask /\ n = 0 /\ ch' = c /\ UNCHANGED net
     \/ /\ "W" \notin ch.mask /\ ch.output = <<>>
        /\ \/ n = 0 /\ ch' = EnableWriting(c) /\ UNCHANGED net
           \/ /\ n = 1 /\ Len(net.wire) < Room
              /\ ch' = [ch EXCEPT !.written = Append(@, Message)]
              /\ net' = [net EXCEPT !.wire = Append(@, Message)]
           \/ net.fin /\ n = 0 /\ ch' = DoClose(c) /\ UNCHANGED net
  /\ pushes' = pushes + 1
  /\ UNCHANGED <<stream, overloads>>

\* CLIENT PAUSE, on the thread of some client: the callback that detaches is
\* posted, and the time to resume is set.
ClientPause ==
  /\ ch.open /\ ch.added /\ ~Replica /\ pushes < MaxPushes
  /\ ch' = [ch EXCEPT !.pause = TRUE, !.resume_ustime = "ahead", !.paused = TRUE]
  /\ pushes' = pushes + 1
  /\ UNCHANGED <<stream, net, overloads>>

channel_pause_callback ==
  /\ AtLoop /\ ch.pause
  /\ ch' = [DetachFD(ch) EXCEPT !.pause = FALSE]
  /\ UNCHANGED <<stream, net, pushes, overloads>>

\* Another client's push serves the blocked command: UnblockKeys.
Serve ==
  /\ AtLoop /\ ch.open /\ ch.bpop # 0
  /\ ch' = UnblockRead([Write(ch, ch.bpop) EXCEPT !.bpop = 0])
  /\ UNCHANGED <<stream, net, pushes, overloads>>

\* ScanClients finds the blocked command's time over: an empty reply, and the
\* connection is closed.  Only a client that ChannelConnected added is scanned.
ScanTimeout ==
  /\ AtLoop /\ ch.open /\ ch.added /\ ch.bpop # 0 /\ ~ch.timedout
  /\ ch' = Close(Write([ch EXCEPT !.timedout = TRUE], NilReply))
  /\ UNCHANGED <<stream, net, pushes, overloads>>

\* ScanClients attaches a paused connection the first time it looks at it, unless
\* the time is over by then.
ScanPaused ==
  /\ AtLoop /\ ch.open /\ ch.added /\ ch.resume_ustime = "ahead"
  /\ ch' = [AttachFD(ch) EXCEPT !.resume_ustime = "unset"]
  /\ UNCHANGED <<stream, net, pushes, overloads>>

PauseOver ==
  /\ ch.resume_ustime = "ahead"
  /\ ch' = [ch EXCEPT !.resume_ustime = "past"]
  /\ UNCHANGED <<stream, net, pushes, overloads>>

\* ResumeOverloadConnection, the timer of a suspension.
Resume ==
  /\ AtLoop /\ ch.resume
  /\ ch' = [AttachFD(ch) EXCEPT !.resume = FALSE]
  /\ UNCHANGED <<stream, net, pushes, overloads>>

-----------------------------------------------------------------------------
(* The client and the network.                                               *)

ClientSend ==
  /\ ~net.fin /\ net.sent < 2 * Len(stream)
  /\ net' = [net EXCEPT !.sent = @ + 1, !.rcv = Append(@, net.sent + 1)]
  /\ UNCHANGED <<stream, ch, pushes, overloads>>

ClientRead ==
  /\ net.wire # <<>>
  /\ net' = [net EXCEPT !.wire = Tail(@), !.got = Append(@, Head(net.wire))]
  /\ UNCHANGED <<stream, ch, pushes, overloads>>

ClientClose ==
  /\ ~net.fin
  /\ net' = [net EXCEPT !.fin = TRUE]
  /\ UNCHANGED <<stream, ch, pushes, overloads>>

ConnNext ==
  \/ CallDecode \/ CallDecodeEnd \/ DecodeLast \/ FreeClient \/ SaveEnd \/ SaveReply
  \/ OnRead \/ WriteError \/ Posted \/ \E n \in 0 .. Room : OnWrite(n) \/ WriteNow(n)
  \/ ClientPause \/ channel_pause_callback \/ PauseOver
  \/ Serve \/ ScanTimeout \/ ScanPaused \/ Resume
  \/ ClientSend \/ ClientRead \/ ClientClose

-----------------------------------------------------------------------------

IsPrefixOf(s, t) == Len(s) <= Len(t) /\ SubSeq(t, 1, Len(s)) = s
Replies(s) == SelectSeq(s, LAMBDA m : m \in 1 .. Len(stream))
WellFormed == SelectSeq([k \in 1 .. Len(stream) |-> k], LAMBDA k : stream[k] # "bad")

\* Cutting the stream into commands loses and repeats nothing: the commands
\* called are the first of the client's well-formed ones, in order, and what
\* the channel and the socket still hold is the rest of what was sent, in order
\* (while the channel is open; the input buffer and the decoder's buffer change
\* places across blocking, suspension and nested decoding).
FramesExact ==
  /\ IsPrefixOf(ch.calls, WellFormed)
  /\ ch.open =>
       LET held == ch.cumulation \o ch.input \o net.rcv
       IN /\ \A i \in DOMAIN held : held[i] = net.sent - Len(held) + i
          /\ \A u \in 1 .. net.sent - Len(held) :
               KindOf(u) = "bad" \/ \E i \in DOMAIN ch.calls : ch.calls[i] = (u + 1) \div 2

\* What the client gets is what was written, in order and without a gap, and
\* all of it when the server closes the connection (Close waits for the output,
\* the last replies included) and the client has not.
OutputExact ==
  /\ IsPrefixOf(net.got \o net.wire, ch.written)
  /\ ch.open => net.got \o net.wire \o ch.output = ch.written
  /\ ch.cut => net.fin

\* Every command is answered once and in order, a blocked one when it is
\* served, unless the reply object was overwritten (commands decoded inside the
\* UnblockRead of a SAVE) or a blocked command timed out.
RepliesInOrder ==
  ~ch.nested /\ ~ch.timedout =>
    /\ IsPrefixOf(Replies(net.got \o net.wire), ch.calls)
    /\ ch.open /\ AtLoop /\ ch.bpop = 0 /\ Top = "loop" => Replies(ch.written) = ch.calls

\* The loop always polls for what the connection waits for: to write while
\* there is output, to read unless reading is blocked, or else the connection
\* is detached, and then the timer that resumes it is set (but for CLIENT PAUSE: a
\* connection that ScanClients looks at before the callback detaches it, or only
\* after the pause, stays detached); and it leaves no whole command undecoded but
\* after an UnblockRead, which looks at the input buffer only.
PollsForWork ==
  ch.open /\ Top = "loop" =>
    /\ (ch.output # <<>> \/ ch.file > 0) => "W" \in ch.mask \/ ch.detached
    /\ "R" \in ch.mask \/ ch.block_read \/ ch.detached
    /\ ch.detached => ch.resume \/ ch.paused
    /\ Whole(ch.cumulation) => ch.block_read \/ ch.unblocked

\* A connection reads its commands, answers them and sends what it has to.
ConnectionRight == FramesExact /\ OutputExact /\ RepliesInOrder /\ PollsForWork
==============================================================================
