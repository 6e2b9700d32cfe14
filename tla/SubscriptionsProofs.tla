------------------------- MODULE SubscriptionsProofs -------------------------
(***************************************************************************)
(* Theorems about Subscriptions for every set of clients, paths, periods,  *)
(* subscriptions and sweeping threads; in the second part, what the        *)
(* manager guarantees as long as sweeps and messages do not overlap, and   *)
(* that it then implements the safety part of its contract.                *)
(***************************************************************************)
EXTENDS SubscriptionRefinement, SequenceTheorems, TLAPS

(* The arrays of a message are sequences of entries. *)
LEMMA ArraysAreSequences == ASSUME NEW a \in Arrays PROVE a \in Seq(Entry)
<1>1. PICK n \in 0 .. MaxArray : a \in [1 .. n -> Entry]
  BY DEF Arrays
<1>2. n \in Nat
  BY SubsAssumption
<1> QED
  BY <1>1, <1>2

(* The head of the array at hand is an entry, and both arrays stay sequences
   when it is taken off or its array is given up. *)
LEMMA EntryTypes ==
  ASSUME TypeOK, HasEntry
  PROVE  /\ HeadEntry \in Entry
         /\ NextEntry \/ AbortArray
              => toSubscribe' \in Seq(Entry) /\ toUnsubscribe' \in Seq(Entry)
<1>1. /\ toSubscribe \in Seq(Entry)
      /\ toUnsubscribe \in Seq(Entry)
  BY DEF TypeOK
<1>2. CASE Subscribing
  <2>1. Head(toSubscribe) \in Entry /\ Tail(toSubscribe) \in Seq(Entry)
    BY <1>1, <1>2, HeadTailProperties DEF Subscribing
  <2>2. HeadEntry \in Entry
    BY <1>2, <2>1 DEF HeadEntry
  <2>3. NextEntry => toSubscribe' \in Seq(Entry) /\ toUnsubscribe' \in Seq(Entry)
    BY <1>1, <1>2, <2>1 DEF NextEntry
  <2>4. AbortArray => toSubscribe' \in Seq(Entry) /\ toUnsubscribe' \in Seq(Entry)
    BY <1>1, <1>2, EmptySeq DEF AbortArray
  <2> QED
    BY <2>2, <2>3, <2>4
<1>3. CASE ~Subscribing
  <2>1. Head(toUnsubscribe) \in Entry /\ Tail(toUnsubscribe) \in Seq(Entry)
    BY <1>1, <1>3, HeadTailProperties DEF HasEntry
  <2>2. HeadEntry \in Entry
    BY <1>3, <2>1 DEF HeadEntry
  <2>3. NextEntry => toSubscribe' \in Seq(Entry) /\ toUnsubscribe' \in Seq(Entry)
    BY <1>1, <1>3, <2>1 DEF NextEntry
  <2>4. AbortArray => toSubscribe' \in Seq(Entry) /\ toUnsubscribe' \in Seq(Entry)
    BY <1>1, <1>3, EmptySeq DEF AbortArray
  <2> QED
    BY <2>2, <2>3, <2>4
<1> QED
  BY <1>2, <1>3

-----------------------------------------------------------------------------
(* Type correctness *)

LEMMA TypeInit == Init => TypeOK
BY DEF Init, TypeOK, Constructed

(* Constructing a subscription keeps the types, and everything that was
   constructed before. *)
LEMMA ConstructTypes ==
  ASSUME TypeOK, HasEntry, client # Nobody, NEW s \in Subs, NEW sent \in BOOLEAN,
         HeadEntry.path # UnsubscribeAllPath, Construct(s, HeadEntry, sent)
  PROVE  /\ desc' \in [Subs -> Descriptor \cup {Nobody}]
         /\ active' \in [Subs -> BOOLEAN]
         /\ Constructed' = Constructed \cup {s}
<1>1. HeadEntry \in Entry
  BY EntryTypes
<1>2. [client |-> client, path |-> HeadEntry.path, period |-> HeadEntry.period,
       rate |-> HeadEntry.rate] \in Descriptor
  BY <1>1 DEF TypeOK, Entry, Descriptor
<1>3. Nobody \notin Descriptor
  BY SubsAssumption
<1> QED
  BY <1>2, <1>3 DEF TypeOK, Construct, Constructed

LEMMA TypeNext == TypeOK /\ [Next]_vars => TypeOK'
<1> SUFFICES ASSUME TypeOK, [Next]_vars PROVE TypeOK'
  OBVIOUS
<1> USE DEF TypeOK, handlerVars, sweepVars
<1>1. ASSUME NEW c \in Clients, NEW subs \in Arrays, NEW unsubs \in Arrays,
             Receive(c, subs, unsubs)
      PROVE  TypeOK'
  <2>1. subs \in Seq(Entry) /\ unsubs \in Seq(Entry)
    BY ArraysAreSequences
  <2>2. c # Nobody
    BY SubsAssumption
  <2> QED
    BY <1>1, <2>1, <2>2 DEF Receive, Constructed
<1>2. ASSUME NEW s \in Subs, ParseSubscribe(s) PROVE TypeOK'
  <2>1. PICK sent \in BOOLEAN : Construct(s, HeadEntry, sent)
    BY <1>2 DEF ParseSubscribe, SendOutcomes
  <2>2. /\ desc' \in [Subs -> Descriptor \cup {Nobody}]
        /\ active' \in [Subs -> BOOLEAN]
        /\ Constructed' = Constructed \cup {s}
    BY <1>2, <2>1, ConstructTypes DEF ParseSubscribe
  <2>3. toSubscribe' \in Seq(Entry) /\ toUnsubscribe' \in Seq(Entry)
    BY <1>2, EntryTypes DEF ParseSubscribe
  <2>4. cur' = s /\ s # Nobody
    BY <2>1, SubsAssumption DEF Construct
  <2> QED
    BY <1>2, <2>2, <2>3, <2>4 DEF ParseSubscribe
<1>3. ASSUME ParseNone PROVE TypeOK'
  <2>1. toSubscribe' \in Seq(Entry) /\ toUnsubscribe' \in Seq(Entry)
    BY <1>3, EntryTypes DEF ParseNone
  <2> QED
    BY <1>3, <2>1 DEF ParseNone, Constructed, ByClient
<1>4. ASSUME ParseFails PROVE TypeOK'
  <2>1. toSubscribe' \in Seq(Entry) /\ toUnsubscribe' \in Seq(Entry)
    BY <1>4, EntryTypes DEF ParseFails
  <2> QED
    BY <1>4, <2>1 DEF ParseFails, Constructed
<1>5. CASE Consumed
  BY <1>5 DEF Consumed, Constructed
<1>6. CASE CheckContains
  BY <1>6 DEF CheckContains, Constructed
<1>7. CASE Add
  BY <1>7 DEF Add, Constructed
<1>8. CASE Activate
  <2>1. CASE HasExistingRoute(cur)
    BY <1>8, <2>1 DEF Activate, Constructed
  <2>2. CASE ~HasExistingRoute(cur)
    <3>1. /\ active' = [active EXCEPT ![cur] = TRUE]
          /\ late' = [late EXCEPT ![cur] = 0]
          /\ pc' = "schedule"
      BY <1>8, <2>2, Zenon DEF Activate
    <3> QED
      BY <1>8, <3>1 DEF Activate, Constructed
  <2> QED
    BY <2>1, <2>2
<1>9. CASE Schedule
  BY <1>9, EmptySeq DEF Schedule, Constructed
<1>10. ASSUME NEW s \in Subs, StartRemove(s) PROVE TypeOK'
  BY <1>10, SubsAssumption DEF StartRemove, Constructed
<1>11. CASE RemoveReturns
  BY <1>11 DEF RemoveReturns, Constructed
<1>12. CASE Unlink
  BY <1>12 DEF Unlink, Constructed
<1>13. ASSUME NEW s \in Subs, StopVictim(s) PROVE TypeOK'
  BY <1>13 DEF StopVictim, Constructed
<1>14. ASSUME NEW s \in Subs, TimerFires(s) PROVE TypeOK'
  <2>1. s \in Constructed
    BY <1>14 DEF TimerFires
  <2>2. CASE active[s]
    BY <1>14, <2>1, <2>2 DEF TimerFires, Constructed
  <2>3. CASE ~active[s]
    BY <1>14, <2>3 DEF TimerFires, Constructed
  <2> QED
    BY <2>2, <2>3
<1>15. CASE TimerReturns
  <2>1. CASE TimerSends /\ active[running]
    BY <1>15, <2>1 DEF TimerSends, Constructed
  <2>2. CASE TimerSends /\ ~active[running]
    <3>1. late' \in [Subs -> Nat]
      BY <2>2 DEF TimerSends, Constructed
    <3> QED
      BY <2>2, <3>1 DEF TimerSends, Constructed
  <2>3. CASE TimerSendFails \/ TimerSkips
    BY <2>3 DEF TimerSendFails, TimerSkips, Constructed
  <2> QED
    BY <1>15, <2>1, <2>2, <2>3 DEF TimerReturns
<1>16. ASSUME NEW w \in Sweepers, NEW c \in Clients \cup {Everyone}, SweepStart(w, c)
       PROVE  TypeOK'
  BY <1>16 DEF SweepStart, Constructed, ByClient
<1>17. ASSUME NEW w \in Sweepers, NEW s \in Subs, SweepDeactivates(w, s) PROVE TypeOK'
  BY <1>17 DEF SweepDeactivates, Constructed
<1>18. ASSUME NEW w \in Sweepers, SweepRemoves(w) PROVE TypeOK'
  BY <1>18 DEF SweepRemoves, Constructed
<1>19. CASE UNCHANGED vars
  BY <1>19 DEF vars, Constructed
<1> QED
  BY <1>1, <1>2, <1>3, <1>4, <1>5, <1>6, <1>7, <1>8, <1>9, <1>10, <1>11, <1>12, <1>13,
     <1>14, <1>15, <1>16, <1>17, <1>18, <1>19
     DEF Next, Message, HandlerStep, SweepStep

(* Every variable of the manager and of its threads always has its type. *)
THEOREM TypeCorrect == Spec => []TypeOK
BY TypeInit, TypeNext, PTL DEF Spec

-----------------------------------------------------------------------------
(* No two equal subscriptions in the list *)

(* The consumer alone adds: what it did not find in the list is still not there
   when it adds. *)
ListInv ==
    /\ NoDuplicates
    /\ pc = "add" => ~Contains(subscriptions, cur)

LEMMA ListInvNext == TypeOK /\ ListInv /\ [Next]_vars => ListInv'
<1> SUFFICES ASSUME TypeOK, ListInv, [Next]_vars PROVE ListInv'
  OBVIOUS
<1> USE DEF ListInv, NoDuplicates, Contains, Equal, Key
<1>1. ASSUME NEW c \in Clients, NEW subs \in Arrays, NEW unsubs \in Arrays,
             Receive(c, subs, unsubs)
      PROVE  ListInv'
  BY <1>1 DEF Receive
<1>2. ASSUME NEW s \in Subs, ParseSubscribe(s) PROVE ListInv'
  <2>1. \A t \in subscriptions : desc'[t] = desc[t]
    BY <1>2 DEF ParseSubscribe, Construct, TypeOK, Constructed
  <2> QED
    BY <1>2, <2>1 DEF ParseSubscribe
<1>3. CASE ParseNone \/ Consumed \/ RemoveReturns \/ Activate \/ Schedule
  BY <1>3 DEF ParseNone, Consumed, RemoveReturns, Activate, Schedule
<1>4. CASE ParseFails
  BY <1>4 DEF ParseFails
<1>5. CASE CheckContains
  BY <1>5 DEF CheckContains
<1>6. CASE Add
  BY <1>6 DEF Add
<1>7. ASSUME NEW s \in Subs, StartRemove(s) PROVE ListInv'
  BY <1>7 DEF StartRemove
<1>8. CASE Unlink
  BY <1>8 DEF Unlink
<1>9. ASSUME NEW s \in Subs, StopVictim(s) PROVE ListInv'
  BY <1>9 DEF StopVictim
<1>10. ASSUME NEW s \in Subs, TimerFires(s) PROVE ListInv'
  BY <1>10 DEF TimerFires, handlerVars
<1>11. CASE TimerReturns
  BY <1>11 DEF TimerReturns, TimerSends, TimerSendFails, TimerSkips, handlerVars
<1>12. ASSUME NEW w \in Sweepers, NEW c \in Clients \cup {Everyone}, SweepStart(w, c)
       PROVE  ListInv'
  BY <1>12 DEF SweepStart, handlerVars
<1>13. ASSUME NEW w \in Sweepers, NEW s \in Subs, SweepDeactivates(w, s) PROVE ListInv'
  BY <1>13 DEF SweepDeactivates, handlerVars
<1>14. ASSUME NEW w \in Sweepers, SweepRemoves(w) PROVE ListInv'
  BY <1>14 DEF SweepRemoves, handlerVars
<1>15. CASE UNCHANGED vars
  BY <1>15 DEF vars, handlerVars
<1> QED
  BY <1>1, <1>2, <1>3, <1>4, <1>5, <1>6, <1>7, <1>8, <1>9, <1>10, <1>11, <1>12, <1>13,
     <1>14, <1>15
     DEF Next, Message, HandlerStep, SweepStep

(* The list never holds two equal subscriptions, however many transport threads
   sweep it while the consumer adds and removes. *)
THEOREM NoDuplicatesCorrect == Spec => []NoDuplicates
<1>1. Init => ListInv
  BY DEF Init, ListInv, NoDuplicates
<1>2. ListInv => NoDuplicates
  BY DEF ListInv
<1> QED
  BY <1>1, <1>2, ListInvNext, TypeCorrect, PTL DEF Spec

-----------------------------------------------------------------------------
(* A task is scheduled at most once *)

(* The subscription that the consumer is adding is its own until it is
   scheduled: its task has never been touched. *)
TaskInv == pc \in {"contains", "add", "activate", "schedule"} => task[cur] = "virgin"

LEMMA TaskInvNext == TypeOK /\ TaskInv /\ [Next]_vars => TaskInv'
<1> SUFFICES ASSUME TypeOK, TaskInv, [Next]_vars PROVE TaskInv'
  OBVIOUS
<1> USE DEF TaskInv
<1>1. ASSUME NEW c \in Clients, NEW subs \in Arrays, NEW unsubs \in Arrays,
             Receive(c, subs, unsubs)
      PROVE  TaskInv'
  BY <1>1 DEF Receive
<1>2. ASSUME NEW s \in Subs, ParseSubscribe(s) PROVE TaskInv'
  <2>1. task[s] = "virgin"
    BY <1>2 DEF ParseSubscribe, Construct, TypeOK, Constructed
  <2> QED
    BY <1>2, <2>1 DEF ParseSubscribe, Construct
<1>3. CASE ParseNone \/ Consumed \/ RemoveReturns \/ CheckContains \/ Add \/ Unlink
  BY <1>3 DEF ParseNone, Consumed, RemoveReturns, CheckContains, Add, Unlink
<1>4. CASE ParseFails
  BY <1>4 DEF ParseFails
<1>5. CASE Activate
  BY <1>5 DEF Activate
<1>6. CASE Schedule
  BY <1>6 DEF Schedule
<1>7. ASSUME NEW s \in Subs, StartRemove(s) \/ StopVictim(s) PROVE TaskInv'
  BY <1>7 DEF StartRemove, StopVictim
<1>8. ASSUME NEW s \in Subs, TimerFires(s) PROVE TaskInv'
  BY <1>8 DEF TimerFires, handlerVars, TypeOK, Constructed
<1>9. CASE TimerReturns
  BY <1>9 DEF TimerReturns, TimerSends, TimerSendFails, TimerSkips, handlerVars
<1>10. ASSUME NEW w \in Sweepers, NEW c \in Clients \cup {Everyone}, SweepStart(w, c)
       PROVE  TaskInv'
  BY <1>10 DEF SweepStart, handlerVars
<1>11. ASSUME NEW w \in Sweepers, SweepStep(w) PROVE TaskInv'
  BY <1>11 DEF SweepStep, SweepDeactivates, SweepRemoves, handlerVars
<1>12. CASE UNCHANGED vars
  BY <1>12 DEF vars, handlerVars
<1> QED
  BY <1>1, <1>2, <1>3, <1>4, <1>5, <1>6, <1>7, <1>8, <1>9, <1>10, <1>11, <1>12
     DEF Next, Message, HandlerStep

(* Timer.schedule is only called with a task that was neither scheduled nor
   cancelled before. *)
THEOREM ScheduledAtMostOnceCorrect == Spec => []ScheduledAtMostOnce
<1>1. Init => TaskInv
  BY DEF Init, TaskInv
<1>2. TaskInv => ScheduledAtMostOnce
  BY DEF TaskInv, ScheduledAtMostOnce
<1> QED
  BY <1>1, <1>2, TaskInvNext, TypeCorrect, PTL DEF Spec

-----------------------------------------------------------------------------
(* At most one message after the deactivation *)

(* A late message is the last: its task is not running any more, and will find
   the subscription inactive when it is due again. *)
LateInv ==
    \A s \in Subs :
        late[s] # 0 => late[s] = 1 /\ ~active[s] /\ running # s /\ s \in Constructed

LEMMA LateInvNext == TypeOK /\ LateInv /\ [Next]_vars => LateInv'
<1> SUFFICES ASSUME TypeOK, LateInv, [Next]_vars PROVE LateInv'
  OBVIOUS
<1> USE DEF LateInv
<1>1. ASSUME NEW c \in Clients, NEW subs \in Arrays, NEW unsubs \in Arrays,
             Receive(c, subs, unsubs)
      PROVE  LateInv'
  BY <1>1 DEF Receive, Constructed
<1>2. ASSUME NEW s \in Subs, ParseSubscribe(s) PROVE LateInv'
  BY <1>2 DEF ParseSubscribe, Construct, TypeOK, Constructed
<1>3. CASE ParseNone \/ Consumed \/ RemoveReturns \/ CheckContains \/ Add \/ Unlink
  BY <1>3 DEF ParseNone, Consumed, RemoveReturns, CheckContains, Add, Unlink, Constructed
<1>4. CASE ParseFails
  BY <1>4 DEF ParseFails, Constructed
<1>5. CASE Activate
  <2>1. CASE HasExistingRoute(cur)
    BY <1>5, <2>1 DEF Activate, Constructed
  <2>2. CASE ~HasExistingRoute(cur)
    <3>1. /\ active' = [active EXCEPT ![cur] = TRUE]
          /\ late' = [late EXCEPT ![cur] = 0]
      BY <1>5, <2>2, Zenon DEF Activate
    <3>2. UNCHANGED <<desc, running>>
      BY <1>5 DEF Activate
    <3> QED
      BY <3>1, <3>2 DEF TypeOK, Constructed
  <2> QED
    BY <2>1, <2>2
<1>6. CASE Schedule
  BY <1>6 DEF Schedule, Constructed
<1>7. ASSUME NEW s \in Subs, StartRemove(s) PROVE LateInv'
  BY <1>7 DEF StartRemove, Constructed
<1>8. ASSUME NEW s \in Subs, StopVictim(s) PROVE LateInv'
  BY <1>8 DEF StopVictim, Constructed, TypeOK
<1>9. ASSUME NEW s \in Subs, TimerFires(s) PROVE LateInv'
  <2>1. CASE active[s]
    BY <1>9, <2>1 DEF TimerFires, Constructed, TypeOK
  <2>2. CASE ~active[s]
    BY <1>9, <2>2 DEF TimerFires, Constructed, TypeOK
  <2> QED
    BY <2>1, <2>2
<1>10. CASE TimerSends
  <2>1. running \in Subs /\ running # Nobody /\ running' = Nobody
    BY <1>10 DEF TimerSends, TypeOK, Constructed
  <2>2. late[running] = 0
    BY <2>1
  <2>3. CASE active[running]
    BY <1>10, <2>1, <2>3, SubsAssumption DEF TimerSends, Constructed
  <2>4. CASE ~active[running]
    <3>1. late' = [late EXCEPT ![running] = 1]
      BY <1>10, <2>2, <2>4 DEF TimerSends
    <3> QED
      BY <1>10, <2>1, <2>4, <3>1, SubsAssumption DEF TimerSends, Constructed, TypeOK
  <2> QED
    BY <2>3, <2>4
<1>11. CASE TimerSendFails \/ TimerSkips
  BY <1>11, SubsAssumption DEF TimerSendFails, TimerSkips, Constructed, TypeOK
<1>12. ASSUME NEW w \in Sweepers, NEW c \in Clients \cup {Everyone}, SweepStart(w, c)
       PROVE  LateInv'
  BY <1>12 DEF SweepStart, Constructed
<1>13. ASSUME NEW w \in Sweepers, NEW s \in Subs, SweepDeactivates(w, s) PROVE LateInv'
  BY <1>13 DEF SweepDeactivates, Constructed, TypeOK
<1>14. ASSUME NEW w \in Sweepers, SweepRemoves(w) PROVE LateInv'
  BY <1>14 DEF SweepRemoves, Constructed
<1>15. CASE UNCHANGED vars
  BY <1>15 DEF vars, Constructed
<1> QED
  BY <1>1, <1>2, <1>3, <1>4, <1>5, <1>6, <1>7, <1>8, <1>9, <1>10, <1>11, <1>12, <1>13,
     <1>14, <1>15
     DEF Next, Message, HandlerStep, TimerReturns, SweepStep

(* After a subscription was deactivated, its client gets at most one message of
   it, however the threads interleave. *)
THEOREM AtMostOneLateMessageCorrect == Spec => []AtMostOneLateMessage
<1>1. Init => LateInv
  BY DEF Init, LateInv
<1>2. TypeOK /\ LateInv => AtMostOneLateMessage
  BY DEF LateInv, AtMostOneLateMessage, TypeOK
<1> QED
  BY <1>1, <1>2, LateInvNext, TypeCorrect, PTL DEF Spec

-----------------------------------------------------------------------------
(* Sweeps and messages that do not overlap *)

(* While a transport sweeps, the consumer is idle and the list stands still:
   the snapshot stays part of it, and what was taken off `pending` is inactive. *)
SweepInv ==
    /\ pc # "idle" => \A w \in Sweepers : sweep[w] = Nobody
    /\ \A v, w \in Sweepers : sweep[v] # Nobody /\ sweep[w] # Nobody => v = w
    /\ \A w \in Sweepers :
          IF sweep[w] = Nobody THEN pending[w] = {}
          ELSE /\ doomed[w] \subseteq subscriptions
               /\ \A s \in doomed[w] \ pending[w] : ~active[s]
               /\ sweep[w] = Everyone => subscriptions \subseteq doomed[w]

(* What the consumer is adding is listed from the moment it is added, and what
   it is removing has exactly one listed equal. *)
ConsumerInv ==
    /\ pc \in {"activate", "schedule"} => cur \in subscriptions
    /\ pc \in {"unlink", "stop"} =>
          /\ \A s \in victims : Equal(s, cur)
          /\ \A s, t \in victims : s = t
    /\ pc = "unlink" => \A s \in subscriptions : Equal(s, cur) => s \in victims
    /\ pc = "stop" => ~Contains(subscriptions, cur)

SerialInv == SweepInv /\ ConsumerInv /\ NoZombie

(* Nobody is swept at a step of the consumer. *)
LEMMA SweepInvNext ==
  ASSUME Serial, TypeOK, SweepInv, [Next]_vars PROVE SweepInv'
<1> USE DEF SweepInv
<1>1. ASSUME NEW c \in Clients, NEW subs \in Arrays, NEW unsubs \in Arrays,
             Receive(c, subs, unsubs)
      PROVE  SweepInv'
  BY <1>1 DEF Receive, sweepVars
<1>2. ASSUME pc # "idle", UNCHANGED sweepVars PROVE SweepInv'
  BY <1>2 DEF sweepVars
<1>3. CASE HandlerStep \/ ParseFails
  <2>1. pc # "idle" /\ UNCHANGED sweepVars
    BY <1>3 DEF HandlerStep, ParseFails, ParseSubscribe, StartRemove, StopVictim, ParseNone,
                Consumed, CheckContains, Add, Activate, Schedule, RemoveReturns, Unlink
  <2> QED
    BY <2>1, <1>2
<1>4. ASSUME NEW s \in Subs, TimerFires(s) PROVE SweepInv'
  <2>1. UNCHANGED <<active, subscriptions, pc, sweep, doomed, pending>>
    BY <1>4 DEF TimerFires, handlerVars, sweepVars
  <2> QED
    BY <2>1
<1>5. CASE TimerReturns
  <2>1. UNCHANGED <<subscriptions, pc, sweep, doomed, pending>>
    BY <1>5 DEF TimerReturns, TimerSends, TimerSendFails, TimerSkips, handlerVars, sweepVars
  <2>2. \A s \in Subs : active'[s] => active[s]
    BY <1>5 DEF TimerReturns, TimerSends, TimerSendFails, TimerSkips, TypeOK, Constructed
  <2> QED
    BY <2>1, <2>2 DEF TypeOK, Constructed
<1>6. ASSUME NEW w \in Sweepers, NEW c \in Clients \cup {Everyone}, SweepStart(w, c)
      PROVE  SweepInv'
  <2> DEFINE snapshot == IF c = Everyone THEN subscriptions ELSE ByClient(subscriptions, c)
  <2>1. /\ pc = "idle"
        /\ \A v \in Sweepers : sweep[v] = Nobody
        /\ doomed' = [doomed EXCEPT ![w] = snapshot]
        /\ pending' = [pending EXCEPT ![w] = snapshot]
        /\ sweep' = [sweep EXCEPT ![w] = c]
        /\ UNCHANGED <<active, subscriptions, pc>>
    BY <1>6 DEF SweepStart, handlerVars
  <2>2. snapshot \subseteq subscriptions /\ (c = Everyone => snapshot = subscriptions)
    BY DEF ByClient
  <2> HIDE DEF snapshot
  <2>3. doomed'[w] = snapshot /\ pending'[w] = snapshot /\ sweep'[w] = c
    BY <2>1 DEF TypeOK
  <2>4. \A v \in Sweepers \ {w} : sweep'[v] = Nobody /\ pending'[v] = {}
    BY <2>1 DEF TypeOK
  <2>5. c # Nobody
    BY SubsAssumption
  <2> QED
    BY <2>1, <2>2, <2>3, <2>4, <2>5
<1>7. ASSUME NEW w \in Sweepers, NEW s \in Subs, SweepDeactivates(w, s) PROVE SweepInv'
  BY <1>7 DEF SweepDeactivates, TypeOK, handlerVars, Constructed
<1>8. ASSUME NEW w \in Sweepers, SweepRemoves(w) PROVE SweepInv'
  BY <1>8 DEF SweepRemoves, TypeOK, handlerVars
<1>9. CASE UNCHANGED vars
  BY <1>9 DEF vars, handlerVars, sweepVars
<1> QED
  BY <1>1, <1>3, <1>4, <1>5, <1>6, <1>7, <1>8, <1>9 DEF Next, Message, SweepStep

(* A sweep takes out of the list only what it has deactivated. *)
LEMMA SweptIsInactive ==
  ASSUME TypeOK, ListInv, SweepInv, NEW w \in Sweepers, SweepRemoves(w),
         NEW s \in subscriptions, s \notin subscriptions'
  PROVE  ~active[s]
<1>1. s \in doomed[w]
  <2>1. CASE sweep[w] = Everyone
    BY <2>1, SubsAssumption DEF SweepInv, SweepRemoves
  <2>2. CASE sweep[w] # Everyone
    <3>1. PICK t \in doomed[w] : Equal(t, s)
      BY <2>2 DEF SweepRemoves, Contains
    <3>2. t \in subscriptions
      BY <3>1 DEF SweepRemoves, SweepInv
    <3> QED
      BY <3>1, <3>2 DEF ListInv, NoDuplicates
  <2> QED
    BY <2>1, <2>2
<1> QED
  BY <1>1 DEF SweepRemoves, SweepInv

LEMMA ConsumerInvNext ==
  ASSUME Serial, TypeOK, ListInv, SweepInv, ConsumerInv, [Next]_vars PROVE ConsumerInv'
<1> USE DEF ConsumerInv
<1>1. ASSUME NEW c \in Clients, NEW subs \in Arrays, NEW unsubs \in Arrays,
             Receive(c, subs, unsubs)
      PROVE  ConsumerInv'
  BY <1>1 DEF Receive
<1>2. ASSUME pc' \notin {"activate", "schedule", "unlink", "stop"} PROVE ConsumerInv'
  BY <1>2
<1>3. ASSUME NEW s \in Subs, ParseSubscribe(s) PROVE ConsumerInv'
  BY <1>3, <1>2 DEF ParseSubscribe
<1>4. CASE ParseNone \/ Consumed \/ RemoveReturns \/ CheckContains \/ Schedule
  BY <1>4, <1>2 DEF ParseNone, Consumed, RemoveReturns, CheckContains, Schedule
<1>5. CASE ParseFails
  BY <1>5, <1>2 DEF ParseFails
<1>6. CASE Add
  BY <1>6 DEF Add
<1>7. CASE Activate
  BY <1>7 DEF Activate
<1>8. ASSUME NEW t \in Subs, StartRemove(t) PROVE ConsumerInv'
  BY <1>8 DEF StartRemove, ListInv, NoDuplicates, Equal, Key
<1>9. CASE Unlink
  BY <1>9 DEF Unlink, ListInv, NoDuplicates, Contains, Equal, Key
<1>10. ASSUME NEW s \in Subs, StopVictim(s) PROVE ConsumerInv'
  <2>1. victims' = {}
    BY <1>10 DEF StopVictim
  <2> QED
    BY <1>10, <2>1, <1>2 DEF StopVictim
<1>11. ASSUME UNCHANGED <<desc, pc, cur, victims, subscriptions>> PROVE ConsumerInv'
  BY <1>11 DEF Equal, Key, Contains
<1>12. ASSUME NEW s \in Subs, TimerFires(s) PROVE ConsumerInv'
  BY <1>11, <1>12 DEF TimerFires, handlerVars
<1>13. CASE TimerReturns
  BY <1>11, <1>13 DEF TimerReturns, TimerSends, TimerSendFails, TimerSkips, handlerVars
<1>14. ASSUME NEW w \in Sweepers, NEW c \in Clients \cup {Everyone}, SweepStart(w, c)
       PROVE  ConsumerInv'
  BY <1>11, <1>14 DEF SweepStart, handlerVars
<1>15. ASSUME NEW w \in Sweepers, NEW s \in Subs, SweepDeactivates(w, s) PROVE ConsumerInv'
  BY <1>11, <1>15 DEF SweepDeactivates, handlerVars
<1>16. ASSUME NEW w \in Sweepers, SweepRemoves(w) PROVE ConsumerInv'
  BY <1>16, <1>2 DEF SweepRemoves, SweepInv, handlerVars
<1>17. CASE UNCHANGED vars
  BY <1>11, <1>17 DEF vars, handlerVars
<1> QED
  BY <1>1, <1>3, <1>4, <1>5, <1>6, <1>7, <1>8, <1>9, <1>10, <1>12, <1>13, <1>14, <1>15,
     <1>16, <1>17
     DEF Next, Message, HandlerStep, SweepStep

LEMMA NoZombieNext ==
  ASSUME Serial, TypeOK, ListInv, SerialInv, [Next]_vars PROVE NoZombie'
<1> USE DEF NoZombie, Fed
<1>1. ASSUME UNCHANGED <<desc, subscriptions, pc, victims>>,
             \A s \in Constructed : Fed(s)' => Fed(s)
      PROVE  NoZombie'
  BY <1>1 DEF SerialInv, Constructed
<1>2. ASSUME NEW c \in Clients, NEW subs \in Arrays, NEW unsubs \in Arrays,
             Receive(c, subs, unsubs)
      PROVE  NoZombie'
  BY <1>2 DEF Receive, SerialInv, Constructed
<1>3. ASSUME NEW s \in Subs, ParseSubscribe(s) PROVE NoZombie'
  <2>1. /\ Constructed' \subseteq Constructed \cup {s}
        /\ s \notin Constructed
        /\ UNCHANGED <<task, subscriptions>>
        /\ pc # "stop"
    BY <1>3 DEF ParseSubscribe, Construct, Constructed, TypeOK
  <2>2. ~Fed(s)'
    BY <2>1 DEF TypeOK
  <2>3. \A t \in Constructed : active'[t] = active[t]
    BY <1>3, <2>1 DEF ParseSubscribe, Construct, TypeOK, Constructed
  <2> QED
    BY <2>1, <2>2, <2>3 DEF SerialInv
<1>4. CASE ParseNone \/ Consumed \/ RemoveReturns \/ CheckContains \/ ParseFails
  BY <1>4 DEF ParseNone, Consumed, RemoveReturns, CheckContains, ParseFails, SerialInv,
              Constructed
<1>5. CASE Add
  BY <1>5 DEF Add, SerialInv, Constructed
<1>6. CASE Activate
  <2>1. /\ UNCHANGED <<desc, task, subscriptions>>
        /\ \A s \in Constructed \ {cur} : active'[s] = active[s]
    BY <1>6 DEF Activate, TypeOK, Constructed
  <2>2. cur \in subscriptions
    BY <1>6 DEF Activate, SerialInv, ConsumerInv
  <2>3. pc # "stop" /\ Constructed' = Constructed
    BY <1>6 DEF Activate, Constructed
  <2> QED
    BY <2>1, <2>2, <2>3 DEF SerialInv
<1>7. CASE Schedule
  <2>1. /\ UNCHANGED <<desc, active, subscriptions>>
        /\ \A s \in Constructed \ {cur} : task'[s] = task[s]
    BY <1>7 DEF Schedule, TypeOK, Constructed
  <2>2. cur \in subscriptions /\ pc # "stop" /\ Constructed' = Constructed
    BY <1>7 DEF Schedule, SerialInv, ConsumerInv, Constructed
  <2> QED
    BY <2>1, <2>2 DEF SerialInv
<1>8. ASSUME NEW t \in Subs, StartRemove(t) PROVE NoZombie'
  BY <1>8 DEF StartRemove, SerialInv, Constructed
<1>9. CASE Unlink
  BY <1>9 DEF Unlink, SerialInv, ConsumerInv, Constructed
<1>10. ASSUME NEW s \in Subs, StopVictim(s) PROVE NoZombie'
  <2>1. /\ UNCHANGED <<desc, task, subscriptions>>
        /\ ~active'[s]
        /\ \A t \in Constructed : active'[t] => active[t]
        /\ pc = "stop" /\ s \in victims
    BY <1>10 DEF StopVictim, TypeOK, Constructed
  <2>2. \A t \in victims : t = s
    BY <2>1 DEF SerialInv, ConsumerInv
  <2> QED
    BY <2>1, <2>2 DEF SerialInv, Constructed
<1>11. ASSUME NEW s \in Subs, TimerFires(s) PROVE NoZombie'
  <2>1. UNCHANGED <<desc, active, subscriptions, pc, victims>>
    BY <1>11 DEF TimerFires, handlerVars
  <2>2. \A t \in Constructed : task'[t] = "scheduled" => task[t] = "scheduled"
    BY <1>11 DEF TimerFires, TypeOK, Constructed
  <2> QED
    BY <1>1, <2>1, <2>2
<1>12. CASE TimerReturns
  <2>1. UNCHANGED <<desc, task, subscriptions, pc, victims>>
    BY <1>12 DEF TimerReturns, TimerSends, TimerSendFails, TimerSkips, handlerVars
  <2>2. \A t \in Constructed : active'[t] => active[t]
    BY <1>12 DEF TimerReturns, TimerSends, TimerSendFails, TimerSkips, TypeOK, Constructed
  <2> QED
    BY <1>1, <2>1, <2>2
<1>13. ASSUME NEW w \in Sweepers, NEW c \in Clients \cup {Everyone}, SweepStart(w, c)
       PROVE  NoZombie'
  BY <1>1, <1>13 DEF SweepStart, handlerVars
<1>14. ASSUME NEW w \in Sweepers, NEW s \in Subs, SweepDeactivates(w, s) PROVE NoZombie'
  BY <1>1, <1>14 DEF SweepDeactivates, handlerVars, TypeOK, Constructed
<1>15. ASSUME NEW w \in Sweepers, SweepRemoves(w) PROVE NoZombie'
  <2>1. \A s \in subscriptions : active[s] => s \in subscriptions'
    BY <1>15, SweptIsInactive DEF SerialInv
  <2>2. UNCHANGED <<desc, active, task, pc, victims>>
    BY <1>15 DEF SweepRemoves, handlerVars
  <2> QED
    BY <2>1, <2>2 DEF SerialInv, Constructed
<1>16. CASE UNCHANGED vars
  BY <1>1, <1>16 DEF vars, handlerVars
<1> QED
  BY <1>2, <1>3, <1>4, <1>5, <1>6, <1>7, <1>8, <1>9, <1>10, <1>11, <1>12, <1>13, <1>14,
     <1>15, <1>16
     DEF Next, Message, HandlerStep, SweepStep

-----------------------------------------------------------------------------
LEMMA SerialInvInit == Init => ListInv /\ SerialInv
BY SubsAssumption
   DEF Init, ListInv, NoDuplicates, SerialInv, SweepInv, ConsumerInv, NoZombie, Constructed

LEMMA SerialInvCorrect == ASSUME Serial PROVE Spec => [](ListInv /\ SerialInv)
<1>1. TypeOK /\ (ListInv /\ SerialInv) /\ [Next]_vars => (ListInv /\ SerialInv)'
  BY ListInvNext, SweepInvNext, ConsumerInvNext, NoZombieNext DEF SerialInv
<1> QED
  BY <1>1, SerialInvInit, TypeCorrect, PTL DEF Spec

(* As long as sweeps and messages do not overlap, a subscription that still feeds
   its client is in the list, where it can be found and stopped. *)
THEOREM NoZombieCorrect == ASSUME Serial PROVE Spec => []NoZombie
<1>1. SerialInv => NoZombie
  BY DEF SerialInv
<1> QED
  BY <1>1, SerialInvCorrect, PTL

(* And a client is never fed the same subscription twice over. *)
THEOREM OneFeedPerKeyCorrect == ASSUME Serial PROVE Spec => []OneFeedPerKey
<1>1. ListInv /\ SerialInv => OneFeedPerKey
  BY DEF ListInv, SerialInv, NoDuplicates, NoZombie, ConsumerInv, OneFeedPerKey, Contains,
         Equal
<1> QED
  BY <1>1, SerialInvCorrect, PTL

(* When a removal returns, nothing equal to what was removed is fed any more. *)
THEOREM UnsubscribeStopsStreamCorrect ==
  ASSUME Serial PROVE Spec => UnsubscribeStopsStream
<1>1. TypeOK /\ (ListInv /\ SerialInv) /\ [Next]_vars
        => [(pc = "stop" /\ pc' = "remove") => ~AnyFeed(cur)']_vars
  <2> SUFFICES ASSUME TypeOK, ListInv, SerialInv, [Next]_vars, pc = "stop", pc' = "remove"
               PROVE  ~AnyFeed(cur)'
    OBVIOUS
  <2>1. PICK s \in Subs : StopVictim(s)
    BY DEF Next, Message, Receive, HandlerStep, ParseSubscribe, StartRemove, ParseNone,
           Consumed, CheckContains, Add, Activate, Schedule, RemoveReturns, Unlink,
           ParseFails, TimerFires, TimerReturns, TimerSends, TimerSendFails, TimerSkips,
           SweepStart, SweepStep, SweepDeactivates, SweepRemoves, handlerVars, vars
  <2>2. /\ UNCHANGED <<desc, task, subscriptions, cur>>
        /\ \A t \in Constructed : active'[t] => active[t] /\ t # s
        /\ s \in victims
    BY <2>1 DEF StopVictim, TypeOK, Constructed
  <2>3. \A t \in victims : t = s
    BY <2>2 DEF SerialInv, ConsumerInv
  <2>4. \A t \in Constructed : Fed(t)' => t \in subscriptions
    BY <2>2, <2>3 DEF SerialInv, NoZombie, Fed
  <2>5. ~Contains(subscriptions, cur)
    BY DEF SerialInv, ConsumerInv
  <2> QED
    BY <2>2, <2>4, <2>5 DEF AnyFeed, Contains, Equal, Key, Constructed
<1> QED
  BY <1>1, SerialInvCorrect, TypeCorrect, PTL DEF Spec, UnsubscribeStopsStream

-----------------------------------------------------------------------------
(* A subscribe gives a stream *)

(* A task is cancelled only when its subscription is inactive, and only a fresh
   one is activated; what is listed and active was scheduled, or its period
   cannot be, or the consumer is just about to schedule it. *)
StartedInv ==
    /\ \A t \in Constructed : task[t] = "cancelled" => ~active[t]
    /\ \A t \in subscriptions :
          active[t] /\ task[t] = "virgin" /\ Schedulable(t)
              => pc \in {"activate", "schedule"} /\ t = cur

LEMMA StartedNext ==
  ASSUME TypeOK, TaskInv, StartedInv, [Next]_vars PROVE StartedInv'
<1> USE DEF StartedInv
<1>1. ASSUME UNCHANGED <<desc, task>>, subscriptions' \subseteq subscriptions,
             \A t \in Constructed : active'[t] => active[t],
             pc \notin {"activate", "schedule"} \/ UNCHANGED <<pc, cur>>
      PROVE  StartedInv'
  <2>1. Constructed' = Constructed /\ \A t \in Constructed : Schedulable(t)' = Schedulable(t)
    BY <1>1 DEF Constructed, Schedulable
  <2>2. subscriptions' \subseteq Constructed
    BY <1>1 DEF TypeOK
  <2> QED
    BY <1>1, <2>1, <2>2
<1>2. ASSUME NEW c \in Clients, NEW subs \in Arrays, NEW unsubs \in Arrays,
             Receive(c, subs, unsubs)
      PROVE  StartedInv'
  BY <1>1, <1>2 DEF Receive
<1>3. ASSUME NEW s \in Subs, ParseSubscribe(s) PROVE StartedInv'
  <2>1. /\ s \notin Constructed /\ Constructed' \subseteq Constructed \cup {s}
        /\ UNCHANGED <<task, subscriptions>> /\ pc = "parse"
        /\ \A t \in Constructed : desc'[t] = desc[t] /\ active'[t] = active[t]
    BY <1>3 DEF ParseSubscribe, Construct, Constructed, TypeOK
  <2>2. task[s] = "virgin"
    BY <2>1 DEF TypeOK
  <2>3. \A t \in Constructed : Schedulable(t)' = Schedulable(t)
    BY <2>1 DEF Schedulable
  <2> QED
    BY <2>1, <2>2, <2>3 DEF TypeOK
<1>4. CASE ParseNone \/ Consumed \/ RemoveReturns \/ CheckContains \/ ParseFails
  BY <1>1, <1>4 DEF ParseNone, Consumed, RemoveReturns, CheckContains, ParseFails
<1>5. CASE Add
  <2>1. UNCHANGED <<desc, active, task, cur>> /\ subscriptions' = subscriptions \cup {cur}
        /\ pc = "add" /\ pc' = "activate"
    BY <1>5 DEF Add
  <2>2. Constructed' = Constructed /\ \A t \in Constructed : Schedulable(t)' = Schedulable(t)
    BY <2>1 DEF Constructed, Schedulable
  <2> QED
    BY <2>1, <2>2 DEF TypeOK
<1>6. CASE Activate
  <2>1. /\ UNCHANGED <<desc, task, subscriptions, cur>>
        /\ pc = "activate" /\ cur \in Constructed
        /\ task[cur] = "virgin"
        /\ \A t \in Constructed \ {cur} : active'[t] = active[t]
    BY <1>6 DEF Activate, TypeOK, TaskInv, Constructed
  <2>2. ~HasExistingRoute(cur)
    BY DEF HasExistingRoute, SameRoute
  <2>3. pc' = "schedule"
    BY <1>6, <2>2 DEF Activate
  <2>4. Constructed' = Constructed /\ \A t \in Constructed : Schedulable(t)' = Schedulable(t)
    BY <2>1 DEF Constructed, Schedulable
  <2> QED
    BY <2>1, <2>3, <2>4 DEF TypeOK
<1>7. CASE Schedule
  <2>1. /\ UNCHANGED <<desc, active, subscriptions, cur>>
        /\ pc = "schedule" /\ cur \in Constructed
        /\ task[cur] = "virgin"
        /\ \A t \in Constructed \ {cur} : task'[t] = task[t]
        /\ task'[cur] = IF Schedulable(cur) THEN "scheduled" ELSE "virgin"
    BY <1>7 DEF Schedule, TypeOK, TaskInv, Constructed
  <2>2. Constructed' = Constructed /\ \A t \in Constructed : Schedulable(t)' = Schedulable(t)
    BY <2>1 DEF Constructed, Schedulable
  <2> QED
    BY <2>1, <2>2 DEF TypeOK
<1>8. ASSUME NEW t \in Subs, StartRemove(t) PROVE StartedInv'
  BY <1>1, <1>8 DEF StartRemove
<1>9. CASE Unlink
  BY <1>1, <1>9 DEF Unlink
<1>10. ASSUME NEW s \in Subs, StopVictim(s) PROVE StartedInv'
  <2>1. \A t \in Constructed : active'[t] => active[t]
    BY <1>10 DEF StopVictim, TypeOK, Constructed
  <2> QED
    BY <1>1, <1>10, <2>1 DEF StopVictim
<1>11. ASSUME NEW s \in Subs, TimerFires(s) PROVE StartedInv'
  <2>1. UNCHANGED <<desc, active, subscriptions, pc, cur>>
    BY <1>11 DEF TimerFires, handlerVars
  <2>2. \A t \in Constructed : /\ task'[t] = "virgin" => task[t] = "virgin"
                               /\ task'[t] = "cancelled" => task[t] = "cancelled" \/ ~active[t]
    BY <1>11 DEF TimerFires, TypeOK, Constructed
  <2>3. Constructed' = Constructed /\ \A t \in Constructed : Schedulable(t)' = Schedulable(t)
    BY <2>1 DEF Constructed, Schedulable
  <2> QED
    BY <2>1, <2>2, <2>3 DEF TypeOK
<1>12. CASE TimerReturns
  <2>1. UNCHANGED <<desc, task, subscriptions, pc, cur>>
    BY <1>12 DEF TimerReturns, TimerSends, TimerSendFails, TimerSkips, handlerVars
  <2>2. \A t \in Constructed : active'[t] => active[t]
    BY <1>12 DEF TimerReturns, TimerSends, TimerSendFails, TimerSkips, TypeOK, Constructed
  <2> QED
    BY <1>1, <2>1, <2>2
<1>13. ASSUME NEW w \in Sweepers, NEW c \in Clients \cup {Everyone}, SweepStart(w, c)
       PROVE  StartedInv'
  BY <1>1, <1>13 DEF SweepStart, handlerVars
<1>14. ASSUME NEW w \in Sweepers, NEW s \in Subs, SweepDeactivates(w, s) PROVE StartedInv'
  BY <1>1, <1>14 DEF SweepDeactivates, handlerVars, TypeOK, Constructed
<1>15. ASSUME NEW w \in Sweepers, SweepRemoves(w) PROVE StartedInv'
  BY <1>1, <1>15 DEF SweepRemoves, handlerVars
<1>16. CASE UNCHANGED vars
  BY <1>1, <1>16 DEF vars, handlerVars
<1> QED
  BY <1>2, <1>3, <1>4, <1>5, <1>6, <1>7, <1>8, <1>9, <1>10, <1>11, <1>12, <1>13, <1>14,
     <1>15, <1>16
     DEF Next, Message, HandlerStep, SweepStep

LEMMA TaskInvCorrect == Spec => [](TaskInv /\ StartedInv)
<1>1. Init => TaskInv /\ StartedInv
  BY DEF Init, TaskInv, StartedInv, Constructed
<1>2. TypeOK /\ (TaskInv /\ StartedInv) /\ [Next]_vars => (TaskInv /\ StartedInv)'
  BY TaskInvNext, StartedNext
<1> QED
  BY <1>1, <1>2, TypeCorrect, PTL DEF Spec

(* When addSubscription returns, the client has a stream of what it asked for, or
   the period cannot be scheduled, or a send failed before. *)
THEOREM SubscribeGivesStreamCorrect ==
  ASSUME Serial PROVE Spec => SubscribeGivesStreamOrFailed
<1>1. TypeOK /\ SerialInv /\ (TaskInv /\ StartedInv) /\ (StartedInv)' /\ [Next]_vars
        => [Added => HasStreamOrFailed(cur)']_vars
  <2> SUFFICES ASSUME TypeOK, SerialInv, StartedInv, TaskInv, StartedInv', [Next]_vars, Added
               PROVE  HasStreamOrFailed(cur)'
    OBVIOUS
  <2>1. CheckContains \/ Schedule
    BY DEF Added, Next, Message, Receive, HandlerStep, ParseSubscribe, StartRemove, ParseNone,
           Consumed, CheckContains, Add, Activate, Schedule, RemoveReturns, Unlink, StopVictim,
           ParseFails, TimerFires, TimerReturns, TimerSends, TimerSendFails, TimerSkips,
           SweepStart, SweepStep, SweepDeactivates, SweepRemoves, handlerVars, vars
  <2>2. UNCHANGED <<desc, active, subscriptions, cur>> /\ pc' = "parse"
    BY <2>1 DEF Added, CheckContains, Schedule
  <2>3. \A t \in subscriptions' : Fed(t)' \/ ~Schedulable(t)' \/ ~active'[t]
    <3> SUFFICES ASSUME NEW t \in subscriptions', active'[t], Schedulable(t)'
                 PROVE  task'[t] = "scheduled"
      BY DEF Fed
    <3>1. t \in Constructed /\ t \in Constructed'
      BY <2>2 DEF TypeOK, Constructed
    <3>2. task'[t] # "cancelled" /\ task'[t] # "virgin"
      BY <2>2, <3>1 DEF StartedInv
    <3>3. task'[t] \in {"virgin", "scheduled", "cancelled"}
      BY <2>1, <3>1 DEF TypeOK, CheckContains, Schedule, Constructed
    <3> QED
      BY <3>2, <3>3
  <2>4. \E t \in subscriptions : Equal(t, cur)
    <3>1. CASE CheckContains
      BY <3>1 DEF CheckContains, Added, Contains
    <3>2. CASE Schedule
      BY <3>2 DEF Schedule, SerialInv, ConsumerInv, Equal
    <3> QED
      BY <2>1, <3>1, <3>2
  <2>5. \E t \in subscriptions' : Equal(t, cur)'
    BY <2>2, <2>4 DEF Equal, Key
  <2> QED
    BY <2>3, <2>5 DEF HasStreamOrFailed
<1> QED
  BY <1>1, SerialInvCorrect, TaskInvCorrect, TypeCorrect, PTL DEF Spec, SubscribeGivesStreamOrFailed

-----------------------------------------------------------------------------
(* The manager keeps the contract *)

Keeps == [Contract!Next]_<<Wanted, Feeding>>

(* Taking subscriptions out of the list gives up what they stood for. *)
LEMMA GivesUp ==
  ASSUME Wanted' \subseteq Wanted, Feeding' = Feeding PROVE Keeps
<1> DEFINE ks == Wanted \ Wanted'
<1>1. ks \subseteq Wanted /\ Wanted' = Wanted \ ks
  OBVIOUS
<1>2. CASE ks = {}
  BY <1>1, <1>2 DEF Keeps
<1>3. CASE ks # {}
  <2>1. Contract!Unsubscribe(ks)
    BY <1>1, <1>3 DEF Contract!Unsubscribe
  <2>2. ks \in SUBSET Wanted
    BY <1>1
  <2> QED
    BY <2>1, <2>2 DEF Keeps, Contract!Next
<1> QED
  BY <1>2, <1>3

LEMMA KeyTypes == ASSUME TypeOK, NEW s \in Constructed PROVE Key(s) \in Clients \X Paths \X Periods
<1>1. desc[s] \in Descriptor
  BY DEF TypeOK, Constructed
<1> QED
  BY <1>1 DEF Descriptor, Key

(* Deactivating one subscription stops its stream, or there was none: nothing
   equal to it is fed. *)
LEMMA StopsOne ==
  ASSUME TypeOK, OneFeedPerKey, NEW s \in Constructed,
         UNCHANGED <<desc, task, subscriptions>>, ~active'[s],
         \A t \in Constructed \ {s} : Fed(t)' = Fed(t)
  PROVE  Keeps
<1>1. /\ Constructed' = Constructed
      /\ \A t \in Constructed : Key(t)' = Key(t)
  BY DEF Constructed, Key
<1>2. Wanted' = Wanted
  BY <1>1 DEF Wanted, TypeOK
<1>3. ~Fed(s)'
  BY DEF Fed
<1>4. CASE ~Fed(s)
  <2>1. Feeding' = Feeding
    BY <1>1, <1>3, <1>4 DEF Feeding
  <2> QED
    BY <1>2, <2>1 DEF Keeps
<1>5. CASE Fed(s)
  <2>1. Key(s) \in Feeding
    BY <1>5 DEF Feeding
  <2>2. \A t \in Constructed : Fed(t) /\ Key(t) = Key(s) => t = s
    BY <1>5 DEF OneFeedPerKey, Equal
  <2>3. Feeding' = Feeding \ {Key(s)}
    BY <1>1, <1>3, <2>2 DEF Feeding
  <2>4. Contract!Stop(Key(s))
    BY <1>2, <2>1, <2>3 DEF Contract!Stop
  <2> QED
    BY <2>4, KeyTypes DEF Keeps, Contract!Next
<1> QED
  BY <1>4, <1>5

LEMMA StepKeeps ==
  ASSUME Serial, TypeOK, ListInv, SerialInv, TaskInv, OneFeedPerKey, [Next]_vars PROVE Keeps
<1>1. ASSUME UNCHANGED desc, subscriptions' \subseteq subscriptions,
             \A t \in Constructed : Fed(t)' = Fed(t)
      PROVE  Keeps
  <2>1. /\ Constructed' = Constructed
        /\ \A t \in Constructed : Key(t)' = Key(t)
    BY <1>1 DEF Constructed, Key
  <2>2. Wanted' \subseteq Wanted /\ Feeding' = Feeding
    BY <1>1, <2>1 DEF Wanted, Feeding, TypeOK
  <2> QED
    BY <2>2, GivesUp
<1>2. ASSUME UNCHANGED <<desc, active, task>>, subscriptions' \subseteq subscriptions
      PROVE  Keeps
  BY <1>1, <1>2 DEF Fed
<1>3. ASSUME NEW c \in Clients, NEW subs \in Arrays, NEW unsubs \in Arrays,
             Receive(c, subs, unsubs)
      PROVE  Keeps
  BY <1>2, <1>3 DEF Receive
<1>4. ASSUME NEW s \in Subs, ParseSubscribe(s) PROVE Keeps
  <2>1. /\ s \notin Constructed
        /\ UNCHANGED <<task, subscriptions>>
        /\ \A t \in Constructed : desc'[t] = desc[t] /\ active'[t] = active[t]
        /\ Constructed \subseteq Constructed' /\ Constructed' \subseteq Constructed \cup {s}
    BY <1>4, SubsAssumption DEF ParseSubscribe, Construct, Constructed, TypeOK
  <2>2. ~Fed(s)'
    BY <2>1 DEF Fed, TypeOK
  <2>3. \A t \in Constructed : Key(t)' = Key(t) /\ Fed(t)' = Fed(t)
    BY <2>1 DEF Key, Fed
  <2>4. Wanted' = Wanted
    BY <2>1, <2>3 DEF Wanted, TypeOK
  <2>5. Feeding' = Feeding
    BY <2>1, <2>2, <2>3 DEF Feeding
  <2> QED
    BY <2>4, <2>5 DEF Keeps
<1>5. CASE ParseNone \/ Consumed \/ RemoveReturns \/ CheckContains \/ ParseFails
  BY <1>2, <1>5 DEF ParseNone, Consumed, RemoveReturns, CheckContains, ParseFails
<1>6. CASE Add
  <2>1. /\ UNCHANGED <<desc, active, task>> /\ subscriptions' = subscriptions \cup {cur}
        /\ cur \in Constructed /\ ~Contains(subscriptions, cur)
    BY <1>6 DEF Add, TypeOK, ListInv
  <2>2. Constructed' = Constructed /\ \A t \in Constructed : Key(t)' = Key(t) /\ Fed(t)' = Fed(t)
    BY <2>1 DEF Constructed, Key, Fed
  <2>3. Wanted' = Wanted \cup {Key(cur)} /\ Key(cur) \notin Wanted /\ Feeding' = Feeding
    BY <2>1, <2>2 DEF Wanted, Feeding, TypeOK, Contains, Equal
  <2>4. Contract!Subscribe(Key(cur))
    BY <2>3 DEF Contract!Subscribe
  <2> QED
    BY <2>1, <2>4, KeyTypes DEF Keeps, Contract!Next
<1>7. CASE Activate
  <2>1. /\ UNCHANGED <<desc, task, subscriptions>>
        /\ task[cur] = "virgin"
        /\ \A t \in Constructed \ {cur} : active'[t] = active[t]
    BY <1>7 DEF Activate, TypeOK, TaskInv, Constructed
  <2>2. \A t \in Constructed : Fed(t)' = Fed(t)
    BY <2>1 DEF Fed
  <2> QED
    BY <1>1, <2>1, <2>2
<1>8. CASE Schedule
  <2>1. /\ UNCHANGED <<desc, active, subscriptions, cur>>
        /\ cur \in subscriptions /\ cur \in Constructed
        /\ \A t \in Constructed \ {cur} : task'[t] = task[t]
        /\ task[cur] = "virgin"
    BY <1>8 DEF Schedule, TypeOK, TaskInv, Constructed, SerialInv, ConsumerInv
  <2>2. /\ Constructed' = Constructed
        /\ \A t \in Constructed : Key(t)' = Key(t)
        /\ \A t \in Constructed \ {cur} : Fed(t)' = Fed(t)
        /\ ~Fed(cur)
    BY <2>1 DEF Constructed, Key, Fed
  <2>3. Wanted' = Wanted
    BY <2>1, <2>2 DEF Wanted, TypeOK
  <2>4. Key(cur) \in Wanted
    BY <2>1 DEF Wanted
  <2>5. CASE ~Fed(cur)'
    <3>1. Feeding' = Feeding
      BY <2>1, <2>2, <2>5 DEF Feeding
    <3> QED
      BY <2>3, <3>1 DEF Keeps
  <2>6. CASE Fed(cur)'
    <3>1. Feeding' = Feeding \cup {Key(cur)}
      BY <2>1, <2>2, <2>6 DEF Feeding
    <3>2. CASE Key(cur) \in Feeding
      BY <2>3, <3>1, <3>2 DEF Keeps
    <3>3. CASE Key(cur) \notin Feeding
      <4>1. Contract!Start(Key(cur))
        BY <2>3, <2>4, <3>1, <3>3 DEF Contract!Start
      <4> QED
        BY <2>1, <4>1, KeyTypes DEF Keeps, Contract!Next
    <3> QED
      BY <3>2, <3>3
  <2> QED
    BY <2>5, <2>6
<1>9. ASSUME NEW t \in Subs, StartRemove(t) PROVE Keeps
  BY <1>2, <1>9 DEF StartRemove
<1>10. CASE Unlink
  BY <1>2, <1>10 DEF Unlink
<1>11. ASSUME NEW s \in Subs, StopVictim(s) PROVE Keeps
  <2>1. /\ UNCHANGED <<desc, task, subscriptions>>
        /\ pc = "stop" /\ s \in victims /\ s \in Constructed /\ cur \in Constructed
        /\ ~active'[s] /\ ~active'[cur]
        /\ \A t \in Constructed \ {s, cur} : active'[t] = active[t]
    BY <1>11 DEF StopVictim, TypeOK, Constructed
  <2>2. cur # s => ~Fed(cur)
    <3>1. cur \notin subscriptions
      BY <2>1 DEF SerialInv, ConsumerInv, Contains, Equal
    <3>2. \A t \in victims : t = s
      BY <2>1 DEF SerialInv, ConsumerInv
    <3> QED
      BY <2>1, <3>1, <3>2 DEF SerialInv, NoZombie
  <2>3. \A t \in Constructed \ {s} : Fed(t)' = Fed(t)
    BY <2>1, <2>2 DEF Fed
  <2> QED
    BY <2>1, <2>3, StopsOne
<1>12. ASSUME NEW s \in Subs, TimerFires(s) PROVE Keeps
  <2>1. UNCHANGED <<desc, active, subscriptions>>
    BY <1>12 DEF TimerFires
  <2>2. \A t \in Constructed : Fed(t)' = Fed(t)
    BY <1>12 DEF TimerFires, Fed, TypeOK, Constructed
  <2> QED
    BY <1>1, <2>1, <2>2
<1>13. CASE TimerSends \/ TimerSkips
  BY <1>2, <1>13 DEF TimerSends, TimerSkips
<1>14. CASE TimerSendFails
  <2>1. /\ UNCHANGED <<desc, task, subscriptions>>
        /\ running \in Constructed /\ ~active'[running]
        /\ \A t \in Constructed \ {running} : active'[t] = active[t]
    BY <1>14 DEF TimerSendFails, TypeOK, Constructed
  <2> QED
    BY <2>1, StopsOne DEF Fed
<1>15. ASSUME NEW w \in Sweepers, NEW c \in Clients \cup {Everyone}, SweepStart(w, c)
       PROVE  Keeps
  BY <1>2, <1>15 DEF SweepStart
<1>16. ASSUME NEW w \in Sweepers, NEW s \in Subs, SweepDeactivates(w, s) PROVE Keeps
  <2>1. /\ UNCHANGED <<desc, task, subscriptions>>
        /\ s \in Constructed /\ ~active'[s]
        /\ \A t \in Constructed \ {s} : active'[t] = active[t]
    BY <1>16 DEF SweepDeactivates, TypeOK, Constructed
  <2> QED
    BY <2>1, StopsOne DEF Fed
<1>17. ASSUME NEW w \in Sweepers, SweepRemoves(w) PROVE Keeps
  BY <1>2, <1>17 DEF SweepRemoves
<1>18. CASE UNCHANGED vars
  BY <1>2, <1>18 DEF vars
<1> QED
  BY <1>3, <1>4, <1>5, <1>6, <1>7, <1>8, <1>9, <1>10, <1>11, <1>12, <1>13, <1>14, <1>15,
     <1>16, <1>17, <1>18
     DEF Next, Message, HandlerStep, TimerReturns, SweepStep

(* As long as sweeps and messages do not overlap, every step of the manager, of its
   Timer and of its sweepers is one the contract allows, or none. *)
THEOREM ManagerKeepsContract == ASSUME Serial PROVE Spec => Contract!Safe
<1>1. Init => Contract!Init
  BY DEF Init, Contract!Init, Wanted, Feeding, Constructed
<1>2. TypeOK /\ (ListInv /\ SerialInv) /\ (TaskInv /\ StartedInv) /\ OneFeedPerKey /\ [Next]_vars
        => [Contract!Next]_Contract!contractVars
  BY StepKeeps DEF Keeps, Contract!contractVars
<1> QED
  BY <1>1, <1>2, TypeCorrect, SerialInvCorrect, TaskInvCorrect, OneFeedPerKeyCorrect, PTL
     DEF Spec, Contract!Safe
=============================================================================
