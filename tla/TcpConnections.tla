---------------------------- MODULE TcpConnections ----------------------------
(***************************************************************************)
(* The TCP server, ArtemisTcpNettyHandler: one handler object for all      *)
(* connections. The event loop of a connection runs channelActive,         *)
(* channelRead0 and channelInactive for it; the one delivery thread of     *)
(* rxSession runs process for the replies of all of them. They meet in     *)
(* contextList, consumerList and the broker without a lock.                *)
(***************************************************************************)
EXTENDS ReplyQueues

CONSTANT Nobody
ASSUME NobodyAssumption == Nobody \notin Clients

VARIABLES
    channel,   \* the connection: "none", "open", "closed" (channelInactive still to
               \* run), "closing" (channelInactive is waiting for the consumer), "gone"
    writable,  \* does the client read what it is sent?
    context,   \* contextList has an entry
    consumer,  \* consumerList has an entry
    delivery,  \* where process is
    killed     \* the client it cannot write to

tcpVars == <<channel, writable, context, consumer, delivery, killed>>
vars == <<queueVars, tcpVars>>

\* ctx != null && ctx.channel().isWritable(): a closed channel is not writable.
CanWrite(c) == context[c] /\ channel[c] = "open" /\ writable[c]

\* The message handler is in process for this client.
Delivering(c) == delivery # "idle" /\ killed = c

Init ==
    /\ InitQueues
    /\ channel = [c \in Clients |-> "none"]
    /\ writable = [c \in Clients |-> TRUE]
    /\ context = [c \in Clients |-> FALSE]
    /\ consumer = [c \in Clients |-> FALSE]
    /\ delivery = "idle"
    /\ killed = Nobody

-----------------------------------------------------------------------------
(* The event loop *)

\* The session id is new, so nobody else refers to it before channelActive is done.
ChannelActive(c) ==
    /\ channel[c] = "none"
    /\ channel' = [channel EXCEPT ![c] = "open"]
    /\ context' = [context EXCEPT ![c] = TRUE]
    /\ CreateQueue(c)
    /\ open' = [open EXCEPT ![c] = @ + 1]
    /\ consumer' = [consumer EXCEPT ![c] = TRUE]
    /\ UNCHANGED <<backlog, inbox, subVars, writable, delivery, killed>>

ChannelRead0(c, r) ==
    /\ channel[c] = "open"
    /\ Accept(c, r)
    /\ UNCHANGED <<brokerVars, subVars, tcpVars>>

\* consumerList.get(sessionId) throws away the rest of channelInactive when
\* process has removed the entry.
ChannelInactive(c) ==
    /\ channel[c] = "closed"
    /\ channel' = [channel EXCEPT ![c] = IF consumer[c] THEN "closing" ELSE "gone"]
    /\ UNCHANGED <<queueVars, writable, context, consumer, delivery, killed>>

\* Faulty variant: the consumer is not closed.
DeletesQueueOnly(c) ==
    /\ channel[c] = "closing"
    /\ ~Delivering(c)
    /\ DeleteQueue(c)
    /\ channel' = [channel EXCEPT ![c] = "gone"]
    /\ UNCHANGED <<open, inbox, subVars, writable, context, consumer, delivery, killed>>

\* Faulty variant: the queue stays in the broker.
KeepsQueue(c) ==
    /\ channel[c] = "closing"
    /\ ~Delivering(c)
    /\ open' = [open EXCEPT ![c] = 0]
    /\ channel' = [channel EXCEPT ![c] = "gone"]
    /\ UNCHANGED <<queue, backlog, inbox, subVars, writable, context, consumer, delivery,
                   killed>>

\* close() waits for the message handler; then the queue is deleted.
ClosesConsumer(c) ==
    /\ channel[c] = "closing"
    /\ ~Delivering(c)
    /\ open' = [open EXCEPT ![c] = 0]
    /\ DeleteQueue(c)
    /\ channel' = [channel EXCEPT ![c] = "gone"]
    /\ UNCHANGED <<inbox, subVars, writable, context, consumer, delivery, killed>>

-----------------------------------------------------------------------------
(* The delivery thread: process *)

\* Faulty variant: the test for an unwritable channel is gone.
WritesAnyway(c) ==
    /\ delivery = "idle"
    /\ open[c] > 0 /\ backlog[c] > 0
    /\ backlog' = [backlog EXCEPT ![c] = @ - 1]
    /\ UNCHANGED <<queue, open, inbox, subVars, tcpVars>>

\* A reply is acknowledged; it is written, or its client is to be killed.
Process(c) ==
    /\ delivery = "idle"
    /\ open[c] > 0 /\ backlog[c] > 0
    /\ backlog' = [backlog EXCEPT ![c] = @ - 1]
    /\ IF CanWrite(c) THEN UNCHANGED <<delivery, killed>>
                      ELSE delivery' = "close" /\ killed' = c
    /\ UNCHANGED <<queue, open, inbox, subVars, channel, writable, context, consumer>>

\* Faulty variant: the consumer is forgotten but not closed.
KillSkipsClose ==
    /\ delivery = "close"
    /\ delivery' = "sweep"
    /\ UNCHANGED <<queueVars, channel, writable, context, consumer, killed>>

KillCloses ==
    /\ delivery = "close"
    /\ delivery' = "sweep"
    /\ open' = [open EXCEPT ![killed] = 0]
    /\ UNCHANGED <<queue, backlog, inbox, subVars, channel, writable, context, consumer,
                   killed>>

\* Faulty variant: process returns when the subscriptions are removed.
KillReturns ==
    /\ delivery = "sweep"
    /\ delivery' = "idle"
    /\ Sweep(killed)
    /\ UNCHANGED <<brokerVars, inbox, channel, writable, context, consumer, killed>>

KillSweeps ==
    /\ delivery = "sweep"
    /\ delivery' = "forget"
    /\ Sweep(killed)
    /\ UNCHANGED <<brokerVars, inbox, channel, writable, context, consumer, killed>>

KillForgets ==
    /\ delivery = "forget"
    /\ delivery' = "idle"
    /\ consumer' = [consumer EXCEPT ![killed] = FALSE]
    /\ killed' = Nobody
    /\ UNCHANGED <<queueVars, channel, writable, context>>

KillStep == KillCloses \/ KillSweeps \/ KillForgets

-----------------------------------------------------------------------------
(* The client and the network *)

Disconnect(c) ==
    /\ channel[c] = "open"
    /\ channel' = [channel EXCEPT ![c] = "closed"]
    /\ UNCHANGED <<queueVars, writable, context, consumer, delivery, killed>>

SlowsDown(c) ==
    /\ channel[c] = "open"
    /\ writable' = [writable EXCEPT ![c] = ~@]
    /\ UNCHANGED <<queueVars, channel, context, consumer, delivery, killed>>

-----------------------------------------------------------------------------
EventLoopStep(c) == ChannelInactive(c) \/ ClosesConsumer(c)

Next ==
    \/ \E c \in Clients :
          \/ ChannelActive(c) \/ Disconnect(c) \/ SlowsDown(c)
          \/ \E r \in Requests : ChannelRead0(c, r)
          \/ EventLoopStep(c)
          \/ Process(c)
          \/ QueueStep(c) /\ UNCHANGED tcpVars
    \/ KillStep

\* The event loops, the delivery thread, the consumer of requests and the Timer go
\* on. A reply may expire, and its client be slow at times: the delivery thread
\* takes the next one.
Fairness ==
    /\ \A c \in Clients :
          /\ WF_vars(EventLoopStep(c))
          /\ SF_vars(Process(c))
          /\ WF_vars(Handle(c) /\ UNCHANGED tcpVars)
          /\ WF_vars(Feed(c) /\ UNCHANGED tcpVars)
    /\ WF_vars(KillStep)

Spec == Init /\ [][Next]_vars
FairSpec == Spec /\ Fairness

-----------------------------------------------------------------------------
(* Properties *)

\* Every variable holds values of its type, and the delivery thread is in the kill
\* branch of process for exactly the client it has noted.
TcpTypeOK ==
    /\ TypeOKQueues
    /\ channel \in [Clients -> {"none", "open", "closed", "closing", "gone"}]
    /\ writable \in [Clients -> BOOLEAN]
    /\ context \in [Clients -> BOOLEAN]
    /\ consumer \in [Clients -> BOOLEAN]
    /\ delivery \in {"idle", "close", "sweep", "forget"}
    /\ killed \in Clients \cup {Nobody}
    /\ delivery = "idle" <=> killed = Nobody

\* When channelInactive is done with a connection, by whichever way, no consumer
\* takes messages off its queue.
GoneIsNotConsumed == \A c \in Clients : channel[c] = "gone" => open[c] = 0

\* The entry in consumerList tells whether the consumer is open, but while
\* process is killing the client, or after the connection is gone: channelInactive
\* never waits for a consumer that is somebody else's.
EntryIsOpenConsumer ==
    \A c \in Clients :
        channel[c] # "gone" /\ ~Delivering(c) => open[c] = (IF consumer[c] THEN 1 ELSE 0)

\* A client that does not read is cut off in the end: its feed does not fill the
\* broker while the connection stays up.
Unread(c) == fed[c] /\ open[c] > 0 /\ ~CanWrite(c)
SlowClientIsCut == \A c \in Clients : Unread(c) ~> ~Unread(c)

\* A client that never asked for anything leaves no queue and no consumer behind.
QuietClientIsCleanedUp ==
    \A c \in Clients :
        channel[c] = "closed" /\ consumer[c] /\ ~Delivering(c) /\ backlog[c] = 0
            /\ inbox[c] = <<>> /\ ~fed[c]
        ~> ~queue[c] /\ open[c] = 0

=============================================================================
