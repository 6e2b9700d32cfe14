----------------------------- MODULE ReplyQueues -----------------------------
(***************************************************************************)
(* What the TCP and the UDP server share: the reply queue the broker keeps *)
(* for a client, the requests of the client on their way to                *)
(* SubscribeMsgHandler, and its subscription, which feeds the queue.       *)
(*                                                                         *)
(* One subscription per client is enough here: module Subscriptions has    *)
(* the manager in detail, and its methods are one step each.               *)
(***************************************************************************)
EXTENDS Integers, Sequences

CONSTANTS
    Clients,     \* session id = name of the reply queue
    Requests,    \* what a client sends: "subscribe", "unsubscribe" or another message
    MaxBacklog,  \* most messages in a reply queue (bound)
    MaxInbox     \* most requests of a client under way (bound)

ASSUME QueuesAssumption ==
    /\ Requests \subseteq {"subscribe", "unsubscribe", "other"}
    /\ MaxBacklog \in Nat \ {0}
    /\ MaxInbox \in Nat \ {0}

VARIABLES
    queue,    \* does the broker have the client's reply queue?
    backlog,  \* the messages in it
    open,     \* its open consumers
    inbox,    \* the requests accepted on incoming.raw and not handled yet
    listed,   \* is the client's subscription in the manager's list?
    fed       \* does its task send data?

brokerVars == <<queue, backlog, open>>
subVars    == <<listed, fed>>
queueVars  == <<brokerVars, inbox, subVars>>

InitQueues ==
    /\ queue = [c \in Clients |-> FALSE]
    /\ backlog = [c \in Clients |-> 0]
    /\ open = [c \in Clients |-> 0]
    /\ inbox = [c \in Clients |-> <<>>]
    /\ listed = [c \in Clients |-> FALSE]
    /\ fed = [c \in Clients |-> FALSE]

TypeOKQueues ==
    /\ queue \in [Clients -> BOOLEAN]
    /\ backlog \in [Clients -> 0 .. MaxBacklog]
    /\ open \in [Clients -> Nat]
    /\ inbox \in [Clients -> Seq(Requests)]
    /\ listed \in [Clients -> BOOLEAN]
    /\ fed \in [Clients -> BOOLEAN]

-----------------------------------------------------------------------------
(* The broker *)

\* A message to a queue that is not there is dropped; the bound drops those that
\* do not fit.
More(c, there) == IF there /\ backlog[c] < MaxBacklog THEN backlog[c] + 1 ELSE backlog[c]

Send(c) ==
    /\ backlog' = [backlog EXCEPT ![c] = More(c, queue[c])]
    /\ UNCHANGED <<queue, open>>

\* createTemporaryQueue tolerates a queue that exists.
CreateQueue(c) == queue' = [queue EXCEPT ![c] = TRUE]

DeleteQueue(c) ==
    /\ queue' = [queue EXCEPT ![c] = FALSE]
    /\ backlog' = [backlog EXCEPT ![c] = 0]

\* Messages live for 5 s. That a delivery thread is as far behind with a queue it
\* consumes is left out.
Expire(c) ==
    /\ backlog[c] > 0
    /\ open[c] = 0
    /\ backlog' = [backlog EXCEPT ![c] = @ - 1]
    /\ UNCHANGED <<queue, open, inbox, subVars>>

-----------------------------------------------------------------------------
(* The requests and the subscription of a client *)

Accept(c, r) ==
    /\ Len(inbox[c]) < MaxInbox
    /\ inbox' = [inbox EXCEPT ![c] = Append(@, r)]

\* Both requests construct a Subscription, which makes sure that the queue
\* exists and says hello to it; the first is added unless it is listed.
Handle(c) ==
    /\ inbox[c] # <<>>
    /\ inbox' = [inbox EXCEPT ![c] = Tail(@)]
    /\ UNCHANGED open
    /\ LET r == Head(inbox[c]) IN
       /\ IF r = "other" THEN UNCHANGED <<queue, backlog>>
          ELSE /\ CreateQueue(c)
               /\ backlog' = [backlog EXCEPT ![c] = More(c, TRUE)]
       /\ CASE r = "subscribe" ->
                 /\ listed' = [listed EXCEPT ![c] = TRUE]
                 /\ fed' = [fed EXCEPT ![c] = @ \/ ~listed[c]]
            [] r = "unsubscribe" ->
                 /\ listed' = [listed EXCEPT ![c] = FALSE]
                 /\ fed' = [fed EXCEPT ![c] = FALSE]
            [] OTHER -> UNCHANGED subVars

\* The task sends what it loaded ...
Feed(c) ==
    /\ fed[c]
    /\ Send(c)
    /\ UNCHANGED <<inbox, subVars>>

\* ... or the send throws, which deactivates the subscription and keeps it listed.
FeedFails(c) ==
    /\ fed[c]
    /\ fed' = [fed EXCEPT ![c] = FALSE]
    /\ UNCHANGED <<brokerVars, inbox, listed>>

\* removeByTempQ
Sweep(c) ==
    /\ listed' = [listed EXCEPT ![c] = FALSE]
    /\ fed' = [fed EXCEPT ![c] = FALSE]

QueueStep(c) == Expire(c) \/ Handle(c) \/ Feed(c) \/ FeedFails(c)
=============================================================================
