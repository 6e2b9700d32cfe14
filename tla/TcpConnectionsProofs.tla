------------------------- MODULE TcpConnectionsProofs -------------------------
(***************************************************************************)
(* channelInactive and process, which both close consumers, never leave    *)
(* one open: for every set of clients and every bound.                     *)
(***************************************************************************)
EXTENDS TcpConnections, TLAPS

(* By how far process and channelInactive are with a connection: has consumerList
   an entry, and is a consumer open? *)
ConsumerInv ==
    \A c \in Clients :
        /\ Delivering(c) => /\ channel[c] \in {"open", "closed", "closing"}
                            /\ consumer[c]
                            /\ open[c] = IF delivery = "close" THEN 1 ELSE 0
        /\ channel[c] = "none" => ~consumer[c] /\ open[c] = 0
        /\ channel[c] = "gone" => open[c] = 0
        /\ channel[c] \in {"open", "closed", "closing"} /\ ~Delivering(c)
              => open[c] = IF consumer[c] THEN 1 ELSE 0

-----------------------------------------------------------------------------
(* The steps of the broker, the consumer of requests and the Timer keep the types. *)
LEMMA TypeQueueStep ==
  ASSUME TypeOKQueues, NEW c \in Clients, QueueStep(c) PROVE TypeOKQueues'
<1> USE QueuesAssumption DEF TypeOKQueues, brokerVars, subVars
<1>1. \A b \in BOOLEAN : More(c, b) \in 0 .. MaxBacklog
  BY DEF More
<1>2. CASE Expire(c)
  BY <1>2 DEF Expire
<1>3. CASE Handle(c)
  <2>1. inbox' \in [Clients -> Seq(Requests)] /\ open' = open
    BY <1>3 DEF Handle
  <2>2. queue' \in [Clients -> BOOLEAN] /\ backlog' \in [Clients -> 0 .. MaxBacklog]
    BY <1>3, <1>1 DEF Handle, CreateQueue
  <2>3. listed' \in [Clients -> BOOLEAN] /\ fed' \in [Clients -> BOOLEAN]
    BY <1>3 DEF Handle
  <2> QED
    BY <2>1, <2>2, <2>3
<1>4. CASE Feed(c)
  BY <1>4, <1>1 DEF Feed, Send
<1>5. CASE FeedFails(c)
  BY <1>5 DEF FeedFails
<1> QED
  BY <1>2, <1>3, <1>4, <1>5 DEF QueueStep

LEMMA QueueStepKeepsOpen ==
  ASSUME NEW c, QueueStep(c) PROVE UNCHANGED open
BY DEF QueueStep, Expire, Handle, Feed, FeedFails, Send, brokerVars

LEMMA InvInit == Init => TcpTypeOK /\ ConsumerInv
BY QueuesAssumption, NobodyAssumption
   DEF Init, InitQueues, TcpTypeOK, TypeOKQueues, ConsumerInv, Delivering

LEMMA TypeNext == TcpTypeOK /\ [Next]_vars => TcpTypeOK'
<1> SUFFICES ASSUME TcpTypeOK, [Next]_vars PROVE TcpTypeOK'
  OBVIOUS
<1> USE QueuesAssumption, NobodyAssumption
    DEF TcpTypeOK, TypeOKQueues, queueVars, brokerVars, subVars, tcpVars
<1>1. ASSUME NEW c \in Clients, ChannelActive(c) PROVE TcpTypeOK'
  BY <1>1 DEF ChannelActive, CreateQueue
<1>2. ASSUME NEW c \in Clients, NEW r \in Requests, ChannelRead0(c, r) PROVE TcpTypeOK'
  BY <1>2 DEF ChannelRead0, Accept
<1>3. ASSUME NEW c \in Clients, EventLoopStep(c) PROVE TcpTypeOK'
  <2>1. CASE ChannelInactive(c)
    <3>1. (IF consumer[c] THEN "closing" ELSE "gone") \in {"closing", "gone"}
      OBVIOUS
    <3> QED
      BY <2>1, <3>1 DEF ChannelInactive
  <2>2. CASE ClosesConsumer(c)
    BY <2>2 DEF ClosesConsumer, DeleteQueue
  <2> QED
    BY <1>3, <2>1, <2>2 DEF EventLoopStep
<1>4. ASSUME NEW c \in Clients, Process(c) PROVE TcpTypeOK'
  BY <1>4 DEF Process
<1>5. ASSUME NEW c \in Clients, QueueStep(c), UNCHANGED tcpVars PROVE TcpTypeOK'
  BY <1>5, TypeQueueStep
<1>6. ASSUME NEW c \in Clients, Disconnect(c) \/ SlowsDown(c) PROVE TcpTypeOK'
  BY <1>6 DEF Disconnect, SlowsDown
<1>7. CASE KillCloses
  BY <1>7 DEF KillCloses
<1>8. CASE KillSweeps
  BY <1>8 DEF KillSweeps, Sweep
<1>9. CASE KillForgets
  BY <1>9 DEF KillForgets
<1>10. CASE UNCHANGED vars
  BY <1>10 DEF vars
<1> QED
  BY <1>1, <1>2, <1>3, <1>4, <1>5, <1>6, <1>7, <1>8, <1>9, <1>10 DEF Next, KillStep

LEMMA ConsumerInvNext ==
  ASSUME TcpTypeOK, ConsumerInv, [Next]_vars PROVE ConsumerInv'
<1> USE NobodyAssumption
    DEF TcpTypeOK, TypeOKQueues, ConsumerInv, Delivering, queueVars, brokerVars, tcpVars
<1>1. ASSUME NEW c \in Clients, ChannelActive(c) PROVE ConsumerInv'
  BY <1>1 DEF ChannelActive
<1>2. ASSUME NEW c \in Clients, NEW r \in Requests, ChannelRead0(c, r) PROVE ConsumerInv'
  BY <1>2 DEF ChannelRead0
<1>3. ASSUME NEW c \in Clients, ChannelInactive(c) PROVE ConsumerInv'
  BY <1>3 DEF ChannelInactive
<1>4. ASSUME NEW c \in Clients, ClosesConsumer(c) PROVE ConsumerInv'
  BY <1>4 DEF ClosesConsumer
<1>5. ASSUME NEW c \in Clients, Process(c) PROVE ConsumerInv'
  BY <1>5 DEF Process
<1>6. ASSUME NEW c \in Clients, QueueStep(c), UNCHANGED tcpVars PROVE ConsumerInv'
  BY <1>6, QueueStepKeepsOpen
<1>7. ASSUME NEW c \in Clients, Disconnect(c) PROVE ConsumerInv'
  BY <1>7 DEF Disconnect
<1>8. ASSUME NEW c \in Clients, SlowsDown(c) PROVE ConsumerInv'
  BY <1>8 DEF SlowsDown
<1>9. CASE KillCloses
  BY <1>9 DEF KillCloses
<1>10. CASE KillSweeps
  BY <1>10 DEF KillSweeps
<1>11. CASE KillForgets
  BY <1>11 DEF KillForgets
<1>12. CASE UNCHANGED vars
  BY <1>12 DEF vars
<1> QED
  BY <1>1, <1>2, <1>3, <1>4, <1>5, <1>6, <1>7, <1>8, <1>9, <1>10, <1>11, <1>12
     DEF Next, EventLoopStep, KillStep

LEMMA InvCorrect == Spec => [](TcpTypeOK /\ ConsumerInv)
BY InvInit, TypeNext, ConsumerInvNext, PTL DEF Spec

(* The types hold, and process is busy for exactly the client it has noted. *)
THEOREM TcpTypeCorrect == Spec => []TcpTypeOK
BY InvCorrect, PTL

(* No consumer outlives its connection, whichever of process and channelInactive
   came first. *)
THEOREM GoneIsNotConsumedCorrect == Spec => []GoneIsNotConsumed
<1>1. ConsumerInv => GoneIsNotConsumed
  BY DEF ConsumerInv, GoneIsNotConsumed
<1> QED
  BY <1>1, InvCorrect, PTL

(* consumerList tells of every connection that is up whether its consumer is open. *)
THEOREM EntryIsOpenConsumerCorrect == Spec => []EntryIsOpenConsumer
<1>1. TcpTypeOK /\ ConsumerInv => EntryIsOpenConsumer
  BY DEF TcpTypeOK, ConsumerInv, EntryIsOpenConsumer
<1> QED
  BY <1>1, InvCorrect, PTL
=============================================================================
