------------------------------ MODULE EventLoop -------------------------------
(* The threads that serve connections (common/channel/channel_service.cpp):  *)
(* a main event loop that accepts, loops of its sub-pool that the accepted   *)
(* connections are handed to, and the loop of the replication service that a *)
(* replica's connection moves to; the ae loop under each (redis/ae.c), its   *)
(* soft-signal pipe (signal/soft_signal_channel.cpp) and the lock-free       *)
(* queues through which threads post to one another                         *)
(* (util/concurrent_queue.hpp).                                              *)
EXTENDS Integers, Sequences

CONSTANTS Main,        \* the service that accepts
          SubPool,     \* m_sub_pool: the services of its pool (a server of one thread,
                       \* which has none, is not modelled)
          Repl,        \* the replication service
          Other,       \* a thread that posts to services and has no loop
          Chans,       \* channels of accepted connections, numbered from 1
          Fds,         \* file descriptors of accepted connections, numbered from 1
          SetSize,     \* aeEventLoop.setsize: descriptors from here on are refused
          PipeSize,    \* signals a pipe holds
          MaxPosts     \* bound on the callbacks the other thread posts

Subs == {SubPool[i] : i \in DOMAIN SubPool}

ASSUME LoopAssumption ==
  /\ Main # Repl /\ Main \notin Subs /\ Repl \notin Subs /\ Other \notin {Main, Repl} \cup Subs
  /\ SubPool \in Seq(Subs) /\ SubPool # <<>>
  /\ Chans \subseteq Nat \ {0} /\ Fds \subseteq Nat \ {0}
  /\ SetSize \in Nat /\ PipeSize \in Nat /\ MaxPosts \in Nat

VARIABLES life,        \* channel |-> the stage of its life, see Stages
          m_fd,        \* channel |-> its descriptor
          m_service,   \* channel |-> the service it is attached to
          owned,       \* service |-> m_channel_table
          events,      \* service |-> descriptor |-> the channel registered for it
          pipe,        \* service |-> signals in the soft-signal pipe
          tasks,       \* service |-> m_pending_tasks and m_async_io_queue
          removing,    \* service |-> m_remove_queue
          fired,       \* service |-> descriptors of this round of aeProcessEvents
          inbox,       \* service |-> signals read from the pipe
          drain,       \* service |-> the queue OnSoftSignal is popping from
          stopped,     \* service |-> aeEventLoop.stop
          ended,       \* service |-> aeMain has returned
          posting,     \* thread |-> what it has to post
          step,        \* thread |-> how far it is with the first of these
          posts,       \* callbacks the other thread has posted
          lost         \* signals a full pipe has lost

loopVars == <<life, m_fd, m_service, owned, events, pipe, tasks, removing, fired, inbox,
              drain, stopped, ended, posting, step, posts, lost>>

connection == <<life, m_fd, m_service, owned, events>>
round == <<fired, inbox, drain, stopped, ended>>

Services == {Main, Repl} \cup Subs
Posters == Services \cup {Other}
Queues == {"pending", "async"}
NoChannel == 0
NoFd == 0

\* A channel is accepted by the main service and pending in the queue of another; a
\* replica's is moving from its service, and moved once it is in the queue of the
\* replication service.  One that broke before it moved becomes an orphan.
Stages == {"new", "accepted", "pending", "open", "moving", "moved", "orphan", "closed", "deleted"}

\* What is posted: an accepted channel, or a callback with a channel or without.
Post(s, q, what, c) == [serv |-> s, q |-> q, what |-> what, chan |-> c]
\* A node of a queue; its link is the next pointer of the node before it.
Node(what, c, t, link) == [what |-> what, chan |-> c, by |-> t, link |-> link]

LoopInit ==
  /\ life = [c \in Chans |-> "new"]
  /\ m_fd = [c \in Chans |-> NoFd]
  /\ m_service = [c \in Chans |-> Main]
  /\ owned = [s \in Services |-> {}]
  /\ events = [s \in Services |-> [fd \in Fds |-> NoChannel]]
  /\ pipe = [s \in Services |-> <<>>]
  /\ tasks = [s \in Services |-> [q \in Queues |-> <<>>]]
  /\ removing = [s \in Services |-> {}]
  /\ fired = [s \in Services |-> {}]
  /\ inbox = [s \in Services |-> <<>>]
  /\ drain = [s \in Services |-> "none"]
  /\ stopped = [s \in Services |-> FALSE]
  /\ ended = [s \in Services |-> FALSE]
  /\ posting = [t \in Posters |-> <<>>]
  /\ step = [t \in Posters |-> "push"]
  /\ posts = 0 /\ lost = {}

-----------------------------------------------------------------------------
(* Posting to a service: the node becomes the queue's head, then it is       *)
(* linked to the one before it, then the service is signalled.               *)

\* FireSoftSignal: the pipe does not block, a full one loses the signal.
FireSoftSignal(s, q) ==
  IF Len(pipe[s]) < PipeSize
  THEN pipe' = [pipe EXCEPT ![s] = Append(@, q)] /\ UNCHANGED lost
  ELSE lost' = lost \cup {<<s, q>>} /\ UNCHANGED pipe

\* MPSCQueue::Push, up to its exchange of the head.
Push(t) ==
  /\ posting[t] # <<>> /\ step[t] = "push" /\ Head(posting[t]).what # "wakeup"
  /\ LET p == Head(posting[t]) IN
     /\ tasks' = [tasks EXCEPT ![p.serv][p.q] = Append(@, Node(p.what, p.chan, t, "null"))]
     /\ life' = [c \in Chans |->
                   IF c # p.chan THEN life[c]
                   ELSE CASE p.what = "accept" -> "pending" [] p.what = "attach" -> "moved" [] OTHER -> life[c]]
  /\ step' = [step EXCEPT ![t] = "link"]
  /\ UNCHANGED <<m_fd, m_service, owned, events, pipe, removing, round, posting, posts, lost>>

LinkedBy(nodes, t) ==
  [i \in DOMAIN nodes |-> IF nodes[i].by = t THEN Node(nodes[i].what, nodes[i].chan, t, "set") ELSE nodes[i]]

\* The end of Push: the node before it points to the new one.
Link(t) ==
  /\ posting[t] # <<>> /\ step[t] = "link"
  /\ LET p == Head(posting[t]) IN
     tasks' = [tasks EXCEPT ![p.serv][p.q] = LinkedBy(@, t)]
  /\ step' = [step EXCEPT ![t] = "signal"]
  /\ UNCHANGED <<connection, pipe, removing, round, posting, posts, lost>>

\* The signal after a Push, or Wakeup alone.
Signal(t) ==
  /\ posting[t] # <<>>
  /\ step[t] = "signal" \/ (step[t] = "push" /\ Head(posting[t]).what = "wakeup")
  /\ FireSoftSignal(Head(posting[t]).serv, Head(posting[t]).q)
  /\ posting' = [posting EXCEPT ![t] = Tail(@)]
  /\ step' = [step EXCEPT ![t] = "push"]
  /\ UNCHANGED <<connection, tasks, removing, round, posts>>

-----------------------------------------------------------------------------
(* The channels of a service.  An operation is a step of its thread.         *)

\* The thread of s is free to go on with what it was handed.
Free(s) == ~ended[s] /\ posting[s] = <<>>

\* Channel::DoClose(false) of c on the service s: its event is deleted, the
\* descriptor closed, and the removal is left to the loop.
CloseChannel(s, c) ==
  /\ events' = [events EXCEPT ![s] = [fd \in Fds |-> IF fd = m_fd[c] THEN NoChannel ELSE @[fd]]]
  /\ m_fd' = [m_fd EXCEPT ![c] = NoFd]
  /\ removing' = [removing EXCEPT ![s] = @ \cup {c}]
  /\ FireSoftSignal(s, "remove")

\* SocketChannel::OnAccepted of c, with the descriptor f, on s.
OnAccepted(s, c, f) ==
  IF f < SetSize
  THEN /\ events' = [events EXCEPT ![s][f] = c]
       /\ life' = [life EXCEPT ![c] = "open"]
       /\ m_fd' = [m_fd EXCEPT ![c] = f]
       /\ UNCHANGED <<removing, pipe, lost>>
  ELSE /\ life' = [life EXCEPT ![c] = "closed"]
       /\ m_fd' = [m_fd EXCEPT ![c] = NoFd]
       /\ removing' = [removing EXCEPT ![s] = @ \cup {c}]
       /\ FireSoftSignal(s, "remove")
       /\ UNCHANGED events

\* The kernel hands out the lowest free descriptor.
FreeFds == {fd \in Fds : \A c \in Chans : m_fd[c] # fd}
NewChannels == {c \in Chans : life[c] = "new"}
IsLowest(x, S) == x \in S /\ \A y \in S : x <= y

\* ServerSocketChannel::OnRead: a connection is accepted and goes to a service
\* of the pool (the sizes that choose it are read without a lock), through its
\* pending tasks.
Accept ==
  /\ Free(Main) /\ drain[Main] = "none" /\ inbox[Main] = <<>>
  /\ \E c \in Chans, f \in Fds :
       /\ IsLowest(c, NewChannels) /\ IsLowest(f, FreeFds)
       /\ life' = [life EXCEPT ![c] = "accepted"]
       /\ m_fd' = [m_fd EXCEPT ![c] = f]
       /\ \E s \in Subs : posting' = [posting EXCEPT ![Main] = <<Post(s, "pending", "accept", c)>>]
  /\ UNCHANGED <<m_service, owned, events, removing, pipe, lost, tasks, round, step, posts>>

\* aeApiPoll: some of the registered descriptors and the pipe are ready.
Poll(s) ==
  /\ Free(s) /\ ~stopped[s]
  /\ fired[s] = {} /\ drain[s] = "none" /\ inbox[s] = <<>>
  /\ \E ready \in SUBSET {fd \in Fds : events[s][fd] # NoChannel} :
       /\ ready # {} \/ pipe[s] # <<>>
       /\ fired' = [fired EXCEPT ![s] = ready \cup (IF pipe[s] # <<>> THEN {NoFd} ELSE {})]
  /\ UNCHANGED <<connection, pipe, tasks, removing, inbox, drain, stopped, ended, posting, step, posts, lost>>

\* The next fired descriptor of the round: an event that is not registered any
\* more is skipped, and a channel that took the descriptor over in the meantime
\* reads nothing.  The connection may be at its end (CloseChannel) or turn out to be
\* a replica's (Master::AddSlave): it leaves the table and is posted to the
\* replication service; if the flush before that fails it is closed first.
FileEvent(s, fd) ==
  /\ Free(s) /\ drain[s] = "none" /\ inbox[s] = <<>>
  /\ fd \in fired[s] /\ fd # NoFd
  /\ fired' = [fired EXCEPT ![s] = @ \ {fd}]
  /\ \/ UNCHANGED <<connection, removing, pipe, lost, posting>>
     \/ \E c \in Chans :
          /\ events[s][fd] = c
          /\ \/ /\ CloseChannel(s, c)
                /\ life' = [life EXCEPT ![c] = "closed"]
                /\ UNCHANGED <<owned, posting>>
             \/ /\ s # Repl
                /\ life' = [life EXCEPT ![c] = "moving"]
                /\ owned' = [owned EXCEPT ![s] = @ \ {c}]
                /\ posting' = [posting EXCEPT ![s] = <<Post(Repl, "async", "attach", c)>>]
                /\ \/ /\ events' = [events EXCEPT ![s][fd] = NoChannel]
                      /\ UNCHANGED <<m_fd, removing, pipe, lost>>
                   \/ CloseChannel(s, c)
          /\ UNCHANGED m_service
  /\ UNCHANGED <<tasks, inbox, drain, stopped, ended, step, posts>>

\* The soft-signal channel reads its pipe.
ReadPipe(s) ==
  /\ Free(s) /\ drain[s] = "none" /\ inbox[s] = <<>>
  /\ NoFd \in fired[s]
  /\ fired' = [fired EXCEPT ![s] = @ \ {NoFd}]
  /\ inbox' = [inbox EXCEPT ![s] = pipe[s]]
  /\ pipe' = [pipe EXCEPT ![s] = <<>>]
  /\ UNCHANGED <<connection, tasks, removing, drain, stopped, ended, posting, step, posts, lost>>

\* VerifyRemoveQueue: the channels still in the table are deleted.
VerifyRemoveQueue(s) ==
  /\ life' = [c \in Chans |-> IF c \in removing[s] \cap owned[s] THEN "deleted" ELSE life[c]]
  /\ owned' = [owned EXCEPT ![s] = @ \ removing[s]]
  /\ removing' = [removing EXCEPT ![s] = {}]

\* OnSoftSignal: the removals are done at once, the queues drained item by item.
OnSoftSignal(s) ==
  /\ Free(s) /\ drain[s] = "none" /\ inbox[s] # <<>>
  /\ inbox' = [inbox EXCEPT ![s] = Tail(@)]
  /\ \/ /\ Head(inbox[s]) = "remove"
        /\ VerifyRemoveQueue(s)
        /\ UNCHANGED drain
     \/ /\ Head(inbox[s]) # "remove"
        /\ drain' = [drain EXCEPT ![s] = Head(inbox[s])]
        /\ UNCHANGED <<life, owned, removing>>
  /\ UNCHANGED <<m_fd, m_service, events, pipe, tasks, fired, stopped, ended, posting, step, posts, lost>>

\* ChannelService::Run, once a second.
Run(s) ==
  /\ Free(s) /\ fired[s] = {} /\ drain[s] = "none" /\ inbox[s] = <<>>
  /\ removing[s] # {}
  /\ VerifyRemoveQueue(s)
  /\ UNCHANGED <<m_fd, m_service, events, pipe, tasks, round, posting, step, posts, lost>>

\* A task of an accepted channel: the service takes it over.
AcceptTask(s, c) ==
  /\ m_service' = [m_service EXCEPT ![c] = s]
  /\ owned' = [owned EXCEPT ![s] = @ \cup {c}]
  /\ OnAccepted(s, c, m_fd[c])
  /\ UNCHANGED <<stopped, posting>>

\* Master::AddSlave on the replication service: AttachChannel.
AttachChannel(s, c) ==
  /\ m_service' = [m_service EXCEPT ![c] = s]
  /\ owned' = [owned EXCEPT ![s] = @ \cup {c}]
  /\ life' = [life EXCEPT ![c] = IF m_fd[c] = NoFd THEN "orphan" ELSE "open"]
  /\ events' = [events EXCEPT ![s] = [fd \in Fds |-> IF fd = m_fd[c] THEN c ELSE @[fd]]]
  /\ UNCHANGED <<m_fd, removing, pipe, lost, stopped, posting>>

\* A callback that closes a client: it finds the channel by its id, or none.
CloseClient(s, c) ==
  /\ IF c \in owned[s] /\ m_fd[c] # NoFd
     THEN CloseChannel(s, c) /\ life' = [life EXCEPT ![c] = "closed"]
     ELSE UNCHANGED <<life, m_fd, events, removing, pipe, lost>>
  /\ UNCHANGED <<m_service, owned, stopped, posting>>

\* OnStopCB: the services of the pool are told, the loop ends with this round.
OnStopCB(s) ==
  /\ stopped' = [stopped EXCEPT ![s] = TRUE]
  /\ LET pool == IF s = Main THEN SubPool ELSE <<>> IN
     posting' = [posting EXCEPT ![s] = Append([i \in DOMAIN pool |-> Post(pool[i], "async", "stop", NoChannel)],
                                              Post(s, "pending", "wakeup", NoChannel))]
  /\ UNCHANGED <<connection, removing, pipe, lost>>

\* Mutant: an item is taken as soon as it is pushed, without being linked.
CanPopUnlinked(s, q) == tasks[s][q] # <<>>

\* MPSCQueue::Pop finds an item only when it is linked to the last one popped.
CanPop(s, q) == tasks[s][q] # <<>> /\ Head(tasks[s][q]).link = "set"

Pop(s) ==
  /\ Free(s) /\ drain[s] # "none" /\ CanPop(s, drain[s])
  /\ tasks' = [tasks EXCEPT ![s][drain[s]] = Tail(@)]
  /\ LET n == Head(tasks[s][drain[s]]) IN
     \/ n.what = "accept" /\ AcceptTask(s, n.chan)
     \/ n.what = "attach" /\ AttachChannel(s, n.chan)
     \/ n.what = "close" /\ CloseClient(s, n.chan)
     \/ n.what = "stop" /\ OnStopCB(s)
  /\ UNCHANGED <<fired, inbox, drain, ended, step, posts>>

DrainEnd(s) ==
  /\ Free(s) /\ drain[s] # "none" /\ ~CanPop(s, drain[s])
  /\ drain' = [drain EXCEPT ![s] = "none"]
  /\ UNCHANGED <<connection, pipe, tasks, removing, fired, inbox, stopped, ended, posting, step, posts, lost>>

\* aeMain leaves its loop.
EndLoop(s) ==
  /\ Free(s) /\ stopped[s]
  /\ fired[s] = {} /\ drain[s] = "none" /\ inbox[s] = <<>>
  /\ ended' = [ended EXCEPT ![s] = TRUE]
  /\ UNCHANGED <<connection, pipe, tasks, removing, fired, inbox, drain, stopped, posting, step, posts, lost>>

\* A thread closes a client it looked up (CLIENT KILL and the like), by the
\* channel's id and its service.
PostClose ==
  /\ posting[Other] = <<>> /\ posts < MaxPosts
  /\ posts' = posts + 1
  /\ \E c \in Chans :
       /\ life[c] = "open"
       /\ posting' = [posting EXCEPT ![Other] = <<Post(m_service[c], "async", "close", c)>>]
  /\ UNCHANGED <<connection, pipe, tasks, removing, round, step, lost>>

\* ChannelService::Stop of the main service, from another thread.
Stop ==
  /\ posting[Other] = <<>> /\ posts < MaxPosts
  /\ posts' = MaxPosts
  /\ posting' = [posting EXCEPT ![Other] = <<Post(Main, "async", "stop", NoChannel)>>]
  /\ UNCHANGED <<connection, pipe, tasks, removing, round, step, lost>>

LoopNext ==
  \/ Accept
  \/ \E s \in Services :
       \/ Poll(s) \/ ReadPipe(s) \/ OnSoftSignal(s) \/ Pop(s) \/ DrainEnd(s) \/ EndLoop(s) \/ Run(s)
       \/ \E fd \in Fds : FileEvent(s, fd)
  \/ \E t \in Posters : Push(t) \/ Link(t) \/ Signal(t)
  \/ PostClose \/ Stop

-----------------------------------------------------------------------------
\* Thread t has c to post and has not pushed it yet.
Carries(t, what, c) ==
  posting[t] # <<>> /\ step[t] = "push" /\ Head(posting[t]).what = what /\ Head(posting[t]).chan = c
Queued(s, q, what, c) ==
  \E i \in DOMAIN tasks[s][q] : tasks[s][q][i].what = what /\ tasks[s][q][i].chan = c
\* Thread t is yet to signal the queue q of s.
WillSignal(t, s, q) ==
  \E i \in DOMAIN posting[t] : posting[t][i].serv = s /\ posting[t][i].q = q

\* A registered event leads to a live, open channel of the loop's own table with
\* that very descriptor, whatever was closed, reused, handed over or moved
\* between the poll and the event: no event of a deleted channel is dispatched.
EventsLive ==
  \A s \in Services : \A fd \in Fds : events[s][fd] # NoChannel =>
    /\ events[s][fd] \in owned[s] /\ m_service[events[s][fd]] = s
    /\ m_fd[events[s][fd]] = fd /\ life[events[s][fd]] = "open"

\* A channel is in the table of one service at a time, and not while a thread is
\* still pushing it to a service or linking it: no two threads run the same channel.
OneOwner ==
  \A s \in Services : \A c \in owned[s] :
    /\ \A r \in Services \ {s} : c \notin owned[r]
    /\ \A t \in Posters : posting[t] # <<>> /\ step[t] \in {"push", "link"} /\ Head(posting[t]).chan = c
                            => Head(posting[t]).what = "close"

\* Channel c is accounted for in the stage of its life.
Remembered(c) ==
  /\ life[c] = "accepted" => Carries(Main, "accept", c)
  /\ life[c] = "pending" => \E s \in Subs : Queued(s, "pending", "accept", c)
  /\ life[c] = "moving" => \E s \in Services : Carries(s, "attach", c)
  /\ life[c] = "moved" => Queued(Repl, "async", "attach", c)
  /\ life[c] = "open" => events[m_service[c]][m_fd[c]] = c
  /\ life[c] = "closed" => c \in removing[m_service[c]] /\ c \in owned[m_service[c]]

\* No channel is forgotten: an accepted one, or a replica's, is on its way to its
\* new service, an open one is registered with its loop, and a closed one waits to be
\* deleted by the loop whose table it is in.  A replica's connection that broke on its
\* way is an orphan.
NoneForgotten == \A c \in Chans : Remembered(c)

\* The signal of the queue q of s is in the pipe, or read from it.
InPipe(s, q) == \E i \in DOMAIN pipe[s] : pipe[s][i] = q
InInbox(s, q) == \E i \in DOMAIN inbox[s] : inbox[s][i] = q

\* No wake-up is missed: while a queue holds items, its signal is under way, or
\* the loop is draining it, or a thread that pushed to it has yet to link the item
\* or to signal, unless a full pipe lost the signal.
Signalled ==
  \A s \in Services : \A q \in Queues : tasks[s][q] # <<>> =>
    \/ <<s, q>> \in lost \/ InPipe(s, q) \/ InInbox(s, q) \/ drain[s] = q
    \/ \E t \in Posters : WillSignal(t, s, q)

\* The event loops run every channel they are handed, one at a time and while it lives.
LoopsRight == EventsLive /\ OneOwner /\ NoneForgotten /\ Signalled
==============================================================================
