------------------------------ MODULE UdpClients ------------------------------
(***************************************************************************)
(* The UDP server, ArtemisUdpNettyHandler. There are no connections: a     *)
(* client is registered by its first packet, and forgotten when a reply    *)
(* cannot be written. The event loop of the one UDP channel registers in   *)
(* channelRead0, the delivery thread of rxSession forgets in process, and  *)
(* they meet in socketList, consumerList and channelList without a lock.   *)
(***************************************************************************)
EXTENDS ReplyQueues

CONSTANT Nobody
ASSUME NobodyAssumption == Nobody \notin Clients \cup Requests

VARIABLES
    writable,   \* of the UDP channel, which all clients share
    socket,     \* socketList has an entry
    consumer,   \* consumerList has an entry
    context,    \* channelList has an entry
    reading,    \* where channelRead0 is
    sender,     \* whose packet it reads
    request,    \* and what is in it
    delivery,   \* where process is
    killed,     \* the client it cannot write to
    welcomed    \* history: the client got a welcome since it was registered

readVars     == <<reading, sender, request>>
deliveryVars == <<delivery, killed>>
udpVars == <<writable, socket, consumer, context, readVars, deliveryVars, welcomed>>
vars == <<queueVars, udpVars>>

Init ==
    /\ InitQueues
    /\ writable = TRUE
    /\ socket = [c \in Clients |-> FALSE]
    /\ consumer = [c \in Clients |-> FALSE]
    /\ context = [c \in Clients |-> FALSE]
    /\ reading = "idle"
    /\ sender = Nobody
    /\ request = Nobody
    /\ delivery = "idle"
    /\ killed = Nobody
    /\ welcomed = [c \in Clients |-> FALSE]

-----------------------------------------------------------------------------
(* The event loop: channelRead0 *)

\* Faulty variant: the welcome is left to the end of the registration.
PacketUnwelcomed(c, r) ==
    /\ reading = "idle"
    /\ sender' = c
    /\ request' = r
    /\ reading' = IF socket[c] THEN "send" ELSE "queue"
    /\ socket' = [socket EXCEPT ![c] = TRUE]
    /\ welcomed' = [welcomed EXCEPT ![c] = @ /\ socket[c]]
    /\ UNCHANGED <<queueVars, writable, consumer, context, deliveryVars>>

\* The sender of a packet is looked up in socketList, and put there.
Packet(c, r) ==
    /\ reading = "idle"
    /\ sender' = c
    /\ request' = r
    /\ reading' = IF socket[c] THEN "send" ELSE "welcome"
    /\ socket' = [socket EXCEPT ![c] = TRUE]
    /\ welcomed' = [welcomed EXCEPT ![c] = @ /\ socket[c]]
    /\ UNCHANGED <<queueVars, writable, consumer, context, deliveryVars>>

Welcome ==
    /\ reading = "welcome"
    /\ reading' = IF consumer[sender] THEN "context" ELSE "queue"
    /\ welcomed' = [welcomed EXCEPT ![sender] = TRUE]
    /\ UNCHANGED <<queueVars, writable, socket, consumer, context, sender, request,
                   deliveryVars>>

RegisterQueue ==
    /\ reading = "queue"
    /\ reading' = "consumer"
    /\ CreateQueue(sender)
    /\ UNCHANGED <<backlog, open, inbox, subVars, writable, socket, consumer, context,
                   sender, request, deliveryVars, welcomed>>

\* From setMessageHandler on replies are delivered.
OpenConsumer ==
    /\ reading = "consumer"
    /\ reading' = "list"
    /\ open' = [open EXCEPT ![sender] = @ + 1]
    /\ UNCHANGED <<queue, backlog, inbox, subVars, writable, socket, consumer, context,
                   sender, request, deliveryVars, welcomed>>

RegisterConsumer ==
    /\ reading = "list"
    /\ reading' = "context"
    /\ consumer' = [consumer EXCEPT ![sender] = TRUE]
    /\ UNCHANGED <<queueVars, writable, socket, context, sender, request, deliveryVars,
                   welcomed>>

RegisterContext ==
    /\ reading = "context"
    /\ reading' = "send"
    /\ context' = [context EXCEPT ![sender] = TRUE]
    /\ UNCHANGED <<queueVars, writable, socket, consumer, sender, request, deliveryVars,
                   welcomed>>

SendRequest ==
    /\ reading = "send"
    /\ reading' = "idle"
    /\ Accept(sender, request)
    /\ sender' = Nobody
    /\ request' = Nobody
    /\ UNCHANGED <<brokerVars, subVars, writable, socket, consumer, context, deliveryVars,
                   welcomed>>

ReadStep ==
    \/ Welcome \/ RegisterQueue \/ OpenConsumer \/ RegisterConsumer \/ RegisterContext
    \/ SendRequest

-----------------------------------------------------------------------------
(* The delivery thread: process *)

CanWrite(c) == context[c] /\ writable

\* Faulty variant: an unwritable channel is only skipped.
ProcessKeeps(c) ==
    /\ delivery = "idle"
    /\ open[c] > 0 /\ backlog[c] > 0
    /\ backlog' = [backlog EXCEPT ![c] = @ - 1]
    /\ UNCHANGED <<queue, open, inbox, subVars, udpVars>>

\* A reply is acknowledged; it is written, or its client is to be killed.
Process(c) ==
    /\ delivery = "idle"
    /\ open[c] > 0 /\ backlog[c] > 0
    /\ backlog' = [backlog EXCEPT ![c] = @ - 1]
    /\ IF CanWrite(c) THEN UNCHANGED deliveryVars
                      ELSE delivery' = "close" /\ killed' = c
    /\ UNCHANGED <<queue, open, inbox, subVars, writable, socket, consumer, context,
                   readVars, welcomed>>

\* A client that is being registered may have no entry yet: the null pointer ends
\* process, and the consumer stays open.
KillFails ==
    /\ delivery = "close"
    /\ ~consumer[killed]
    /\ delivery' = "idle"
    /\ killed' = Nobody
    /\ UNCHANGED <<queueVars, writable, socket, consumer, context, readVars, welcomed>>

\* Faulty variant: the consumer is not closed.
KillKeepsConsumer ==
    /\ delivery = "close"
    /\ consumer[killed]
    /\ delivery' = "sweep"
    /\ UNCHANGED <<queueVars, writable, socket, consumer, context, readVars, killed,
                   welcomed>>

KillCloses ==
    /\ delivery = "close"
    /\ consumer[killed]
    /\ delivery' = "sweep"
    /\ open' = [open EXCEPT ![killed] = @ - 1]
    /\ UNCHANGED <<queue, backlog, inbox, subVars, writable, socket, consumer, context,
                   readVars, killed, welcomed>>

KillSweeps ==
    /\ delivery = "sweep"
    /\ delivery' = "consumer"
    /\ Sweep(killed)
    /\ UNCHANGED <<brokerVars, inbox, writable, socket, consumer, context, readVars,
                   killed, welcomed>>

ForgetConsumer ==
    /\ delivery = "consumer"
    /\ delivery' = "context"
    /\ consumer' = [consumer EXCEPT ![killed] = FALSE]
    /\ UNCHANGED <<queueVars, writable, socket, context, readVars, killed, welcomed>>

ForgetContext ==
    /\ delivery = "context"
    /\ delivery' = "socket"
    /\ context' = [context EXCEPT ![killed] = FALSE]
    /\ UNCHANGED <<queueVars, writable, socket, consumer, readVars, killed, welcomed>>

\* Faulty variants: the entry in socketList is left; the client is still noted.
KeepSocket ==
    /\ delivery = "socket"
    /\ delivery' = "idle"
    /\ killed' = Nobody
    /\ UNCHANGED <<queueVars, writable, socket, consumer, context, readVars, welcomed>>
ForgetSocketOnly ==
    /\ delivery = "socket"
    /\ delivery' = "idle"
    /\ socket' = [socket EXCEPT ![killed] = FALSE]
    /\ UNCHANGED <<queueVars, writable, consumer, context, readVars, killed, welcomed>>

ForgetSocket ==
    /\ delivery = "socket"
    /\ delivery' = "idle"
    /\ socket' = [socket EXCEPT ![killed] = FALSE]
    /\ killed' = Nobody
    /\ UNCHANGED <<queueVars, writable, consumer, context, readVars, welcomed>>

KillStep ==
    KillFails \/ KillCloses \/ KillSweeps \/ ForgetConsumer \/ ForgetContext \/ ForgetSocket

-----------------------------------------------------------------------------
Congestion ==
    /\ writable' = ~writable
    /\ UNCHANGED <<queueVars, socket, consumer, context, readVars, deliveryVars, welcomed>>

Next ==
    \/ \E c \in Clients :
          \/ \E r \in Requests : Packet(c, r)
          \/ Process(c)
          \/ QueueStep(c) /\ UNCHANGED udpVars
    \/ ReadStep
    \/ KillStep
    \/ Congestion

Fairness ==
    /\ \A c \in Clients :
          /\ SF_vars(Process(c))
          /\ WF_vars(Handle(c) /\ UNCHANGED udpVars)
          /\ WF_vars(Feed(c) /\ UNCHANGED udpVars)
    /\ WF_vars(ReadStep)
    /\ WF_vars(KillStep)

Spec == Init /\ [][Next]_vars
FairSpec == Spec /\ Fairness

-----------------------------------------------------------------------------
(* Properties *)

\* Every variable holds values of its type, and each thread is busy for exactly the
\* client it has noted.
UdpTypeOK ==
    /\ TypeOKQueues
    /\ writable \in BOOLEAN
    /\ socket \in [Clients -> BOOLEAN]
    /\ consumer \in [Clients -> BOOLEAN]
    /\ context \in [Clients -> BOOLEAN]
    /\ welcomed \in [Clients -> BOOLEAN]
    /\ reading \in {"idle", "welcome", "queue", "consumer", "list", "context", "send"}
    /\ sender \in Clients \cup {Nobody}
    /\ request \in Requests \cup {Nobody}
    /\ reading = "idle" <=> sender = Nobody
    /\ reading = "idle" <=> request = Nobody
    /\ delivery \in {"idle", "close", "sweep", "consumer", "context", "socket"}
    /\ killed \in Clients \cup {Nobody}
    /\ delivery = "idle" <=> killed = Nobody

\* A client in socketList that neither thread is busy with gets its replies: it has
\* one consumer, which process can find and close, and a channel. Otherwise its
\* packets would be accepted for ever and never answered.
RegisteredIsReachable ==
    \A c \in Clients :
        socket[c] /\ sender # c /\ killed # c => consumer[c] /\ open[c] = 1 /\ context[c]

\* No reply is written before the welcome, and none without an address to send it to.
WelcomeComesFirst ==
    \A c \in Clients :
        open[c] > 0 /\ delivery = "idle" => welcomed[c] /\ socket[c]

\* Two consumers never take turns with the replies of one client.
OneConsumer == \A c \in Clients : open[c] =< 1

\* A client that cannot be written to is cut off in the end.
Unread(c) == fed[c] /\ open[c] > 0 /\ ~CanWrite(c)
UnwritableIsCut == \A c \in Clients : Unread(c) ~> ~Unread(c)
=============================================================================
