--------------------------- MODULE UdpClientsProofs ---------------------------
(***************************************************************************)
(* The registration of UDP clients is consistent although channelRead0 and *)
(* process interleave: for every set of clients and every bound.           *)
(***************************************************************************)
EXTENDS UdpClients, TLAPS

(* channelRead0 is about to open the client's consumer, or has just done so. *)
Opening(c) == sender = c /\ reading \in {"welcome", "queue", "consumer"}
Listing(c) == sender = c /\ reading = "list"

(* What the lists hold of a client in socketList, by how far the two threads are. *)
Registered(c) ==
    /\ welcomed[c] \/ (sender = c /\ reading = "welcome")
    /\ Opening(c) => ~consumer[c] /\ open[c] = 0 /\ killed # c
    /\ Listing(c) => ~consumer[c] /\ open[c] = 1 /\ (killed = c => delivery = "close")
    /\ ~Opening(c) /\ ~Listing(c) =>
          /\ consumer[c] <=> ~(killed = c /\ delivery \in {"context", "socket"})
          /\ open[c] = IF killed = c /\ delivery # "close" THEN 0 ELSE 1
          /\ context[c] \/ killed = c \/ (sender = c /\ reading = "context")

Forgotten(c) == ~consumer[c] /\ open[c] = 0 /\ killed # c /\ ~Opening(c) /\ ~Listing(c)

RegistrationInv ==
    \A c \in Clients : IF socket[c] THEN Registered(c) ELSE Forgotten(c)

-----------------------------------------------------------------------------
(* The steps of the broker, the consumer of requests and the Timer keep the types. *)
LEMMA TypeQueueStep ==
  ASSUME TypeOKQueues, NEW c \in Clients, QueueStep(c) PROVE TypeOKQueues'
<1> USE QueuesAssumption DEF TypeOKQueues, brokerVars, subVars
<1>1. \A b \in BOOLEAN : More(c, b) \in 0 .. MaxBacklog
  BY DEF More
<1>2. CASE Expire(c)
  BY <1>2 DEF Expire
<1>3. CASE Handle(c)
  <2>1. inbox' \in [Clients -> Seq(Requests)] /\ open' = open
    BY <1>3 DEF Handle
  <2>2. queue' \in [Clients -> BOOLEAN] /\ backlog' \in [Clients -> 0 .. MaxBacklog]
    BY <1>3, <1>1 DEF Handle, CreateQueue
  <2>3. listed' \in [Clients -> BOOLEAN] /\ fed' \in [Clients -> BOOLEAN]
    BY <1>3 DEF Handle
  <2> QED
    BY <2>1, <2>2, <2>3
<1>4. CASE Feed(c)
  BY <1>4, <1>1 DEF Feed, Send
<1>5. CASE FeedFails(c)
  BY <1>5 DEF FeedFails
<1> QED
  BY <1>2, <1>3, <1>4, <1>5 DEF QueueStep

LEMMA QueueStepKeepsOpen ==
  ASSUME NEW c, QueueStep(c) PROVE UNCHANGED open
BY DEF QueueStep, Expire, Handle, Feed, FeedFails, Send, brokerVars

LEMMA TypeInit == Init => UdpTypeOK
BY QueuesAssumption, NobodyAssumption DEF Init, InitQueues, UdpTypeOK, TypeOKQueues

LEMMA TypeNext ==
  ASSUME UdpTypeOK, RegistrationInv, [Next]_vars PROVE UdpTypeOK'
<1> USE QueuesAssumption, NobodyAssumption
    DEF UdpTypeOK, TypeOKQueues, queueVars, brokerVars, subVars, readVars, deliveryVars
<1>1. ASSUME NEW c \in Clients, NEW r \in Requests, Packet(c, r) PROVE UdpTypeOK'
  BY <1>1 DEF Packet
<1>2. ASSUME NEW c \in Clients, Process(c) PROVE UdpTypeOK'
  BY <1>2 DEF Process
<1>3. ASSUME NEW c \in Clients, QueueStep(c), UNCHANGED udpVars PROVE UdpTypeOK'
  BY <1>3, TypeQueueStep DEF udpVars
<1>4. CASE Welcome
  BY <1>4 DEF Welcome
<1>5. CASE RegisterQueue
  BY <1>5 DEF RegisterQueue, CreateQueue
<1>6. CASE OpenConsumer
  BY <1>6 DEF OpenConsumer
<1>7. CASE RegisterConsumer
  BY <1>7 DEF RegisterConsumer
<1>8. CASE RegisterContext
  BY <1>8 DEF RegisterContext
<1>9. CASE SendRequest
  BY <1>9 DEF SendRequest, Accept
<1>10. CASE KillFails
  BY <1>10 DEF KillFails
<1>11. CASE KillCloses
  <2>1. killed \in Clients /\ open[killed] = 1
    BY <1>11 DEF KillCloses, RegistrationInv, Registered, Forgotten, Opening, Listing
  <2> QED
    BY <1>11, <2>1 DEF KillCloses
<1>12. CASE KillSweeps
  BY <1>12 DEF KillSweeps, Sweep
<1>13. CASE ForgetConsumer \/ ForgetContext \/ ForgetSocket
  BY <1>13 DEF ForgetConsumer, ForgetContext, ForgetSocket
<1>14. CASE Congestion
  BY <1>14 DEF Congestion
<1>15. CASE UNCHANGED vars
  BY <1>15 DEF vars, udpVars
<1> QED
  BY <1>1, <1>2, <1>3, <1>4, <1>5, <1>6, <1>7, <1>8, <1>9, <1>10, <1>11, <1>12, <1>13,
     <1>14, <1>15
     DEF Next, ReadStep, KillStep

-----------------------------------------------------------------------------
LEMMA RegistrationInit == Init => RegistrationInv
BY NobodyAssumption DEF Init, InitQueues, RegistrationInv, Forgotten, Opening, Listing

(* A step that changes the lists for one client only keeps the invariant for the
   others, unless it turns a thread to them. *)
LEMMA RegistrationNext ==
  ASSUME UdpTypeOK, RegistrationInv, [Next]_vars PROVE RegistrationInv'
<1> USE NobodyAssumption
    DEF RegistrationInv, Registered, Forgotten, Opening, Listing,
        queueVars, brokerVars, readVars, deliveryVars
<1> USE DEF UdpTypeOK, TypeOKQueues
<1>1. ASSUME NEW c \in Clients, NEW r \in Requests, Packet(c, r) PROVE RegistrationInv'
  BY <1>1 DEF Packet
<1>2. ASSUME NEW c \in Clients, Process(c) PROVE RegistrationInv'
  BY <1>2 DEF Process
<1>3. ASSUME NEW c \in Clients, QueueStep(c), UNCHANGED udpVars PROVE RegistrationInv'
  <2>1. open' = open
    BY <1>3, QueueStepKeepsOpen
  <2> QED
    BY <1>3, <2>1 DEF udpVars
<1>4. CASE Welcome
  BY <1>4 DEF Welcome
<1>5. CASE RegisterQueue
  BY <1>5 DEF RegisterQueue
<1>6. CASE OpenConsumer
  BY <1>6 DEF OpenConsumer
<1>7. CASE RegisterConsumer
  BY <1>7 DEF RegisterConsumer
<1>8. CASE RegisterContext
  BY <1>8 DEF RegisterContext
<1>9. CASE SendRequest
  BY <1>9 DEF SendRequest
<1>10. CASE KillFails
  BY <1>10 DEF KillFails
<1>11. CASE KillCloses
  BY <1>11 DEF KillCloses
<1>12. CASE KillSweeps
  BY <1>12 DEF KillSweeps
<1>13. CASE ForgetConsumer
  BY <1>13 DEF ForgetConsumer
<1>14. CASE ForgetContext
  BY <1>14 DEF ForgetContext
<1>15. CASE ForgetSocket
  BY <1>15 DEF ForgetSocket
<1>16. CASE Congestion
  BY <1>16 DEF Congestion
<1>17. CASE UNCHANGED vars
  BY <1>17 DEF vars, udpVars
<1> QED
  BY <1>1, <1>2, <1>3, <1>4, <1>5, <1>6, <1>7, <1>8, <1>9, <1>10, <1>11, <1>12, <1>13,
     <1>14, <1>15, <1>16, <1>17
     DEF Next, ReadStep, KillStep

LEMMA InvCorrect == Spec => [](UdpTypeOK /\ RegistrationInv)
BY TypeInit, TypeNext, RegistrationInit, RegistrationNext, PTL DEF Spec

(* The types hold, and either thread is busy for exactly the client it has noted. *)
THEOREM UdpTypeCorrect == Spec => []UdpTypeOK
BY InvCorrect, PTL

(* A client in socketList has its one consumer and its channel, whenever neither
   thread is busy with it. *)
THEOREM RegisteredIsReachableCorrect == Spec => []RegisteredIsReachable
<1>1. UdpTypeOK /\ RegistrationInv => RegisteredIsReachable
  BY DEF RegistrationInv, Registered, Opening, Listing, RegisteredIsReachable
<1> QED
  BY <1>1, InvCorrect, PTL

(* A reply can only be delivered to a client with an address that was welcomed. *)
THEOREM WelcomeComesFirstCorrect == Spec => []WelcomeComesFirst
<1>1. UdpTypeOK /\ RegistrationInv => WelcomeComesFirst
  BY DEF RegistrationInv, Registered, Forgotten, Opening, WelcomeComesFirst
<1> QED
  BY <1>1, InvCorrect, PTL

(* Two consumers never share a client's queue. *)
THEOREM OneConsumerCorrect == Spec => []OneConsumer
<1>1. ASSUME RegistrationInv, NEW c \in Clients PROVE open[c] \in {0, 1}
  BY <1>1 DEF RegistrationInv, Registered, Forgotten, Opening, Listing
<1>2. ASSUME NEW n \in {0, 1} PROVE n =< 1
  OBVIOUS
<1>3. RegistrationInv => OneConsumer
  BY <1>1, <1>2, Zenon DEF OneConsumer
<1> QED
  BY <1>3, InvCorrect, PTL
=============================================================================
