---------------------------- MODULE Subscriptions ----------------------------
(***************************************************************************)
(* The subscription manager of the Signal K server and the threads that    *)
(* meet in it:                                                             *)
(*                                                                         *)
(*   - the consumer thread of SubscribeMsgHandler, which turns the entries *)
(*     of a SUBSCRIBE/UNSUBSCRIBE message into Subscription objects and    *)
(*     adds them to, or removes them from, the manager's list;             *)
(*   - the one java.util.Timer thread, which runs the task of every        *)
(*     scheduled subscription and sends the client its data;               *)
(*   - the transport threads (TCP, UDP, websocket), which sweep away the   *)
(*     subscriptions of a client they lost, and the stopping server.       *)
(*                                                                         *)
(* The manager takes no lock: `subscriptions` is a ConcurrentLinkedQueue   *)
(* and `active` a plain field, so every method is split below at the       *)
(* points where another thread can come in.                                *)
(***************************************************************************)
EXTENDS Integers, FiniteSets, Sequences

CONSTANTS
    Subs,         \* the Subscription objects that may ever be constructed (bound)
    Clients,      \* session id = name of the reply queue (see ByClient)
    Paths,        \* what a client may subscribe to
    Periods,      \* the periods a client may ask for, any integers
    Rates,        \* the playback rates a client may ask for, any integers
    Live,         \* no startTime: a live stream, not a playback
    UnsubscribeAllPath,   \* the path "none"
    Sweepers,     \* the threads that call removeByTempQ or stopAll
    Everyone,     \* what stopAll sweeps
    MaxArray,     \* longest subscribe or unsubscribe array (bound)
    SendMayFail,  \* can a send to the reply queue throw ActiveMQException?
    Serial,       \* TRUE: sweeps and messages happen not to overlap
    Nobody        \* none of the objects above

Entry == [path: Paths \cup {UnsubscribeAllPath}, period: Periods, rate: Rates \cup {Live}]
Descriptor == [client: Clients, path: Paths, period: Periods, rate: Rates \cup {Live}]
Arrays == UNION {[1 .. n -> Entry] : n \in 0 .. MaxArray}

ASSUME SubsAssumption ==
    /\ Nobody \notin Subs \cup Clients \cup Descriptor
    /\ Everyone \notin Clients /\ Everyone # Nobody
    /\ UnsubscribeAllPath \notin Paths
    /\ Periods \subseteq Int
    /\ Rates \subseteq Int \ {0}
    /\ Live \notin Rates
    /\ MaxArray \in Nat
    /\ SendMayFail \in BOOLEAN
    /\ Serial \in BOOLEAN

VARIABLES
    desc,          \* the fields a Subscription is constructed with
    active,        \* Subscription.active
    task,          \* the state of its TimerTask
    subscriptions, \* SubscriptionManagerService.subscriptions
    running,       \* the subscription whose task the Timer thread is running
    pc,            \* where the consumer thread is
    client,        \* who sent the message it handles
    toSubscribe,   \* entries of the subscribe array still to handle
    toUnsubscribe, \* entries of the unsubscribe array still to handle
    cur,           \* its local `sub`
    targets,       \* what it has still to pass to removeSubscription
    victims,       \* removeSubscription's snapshot, not yet handled
    sweep,         \* whom each transport thread is sweeping away
    doomed,        \* removeByTempQ's snapshot
    pending,       \* the part of it that is still to be deactivated
    late           \* history: messages sent since the deactivation

handlerVars == <<pc, client, toSubscribe, toUnsubscribe, cur, targets, victims>>
sweepVars   == <<sweep, doomed, pending>>
vars == <<desc, active, task, subscriptions, running, handlerVars, sweepVars, late>>

-----------------------------------------------------------------------------
(* Subscription objects *)

Constructed == {s \in Subs : desc[s] # Nobody}

\* Subscription.equals: path, period and session, not rate, format or policy.
Key(s) == <<desc[s].client, desc[s].path, desc[s].period>>
Equal(s, t) == Key(s) = Key(t)

\* isSameRoute compares the paths by reference, and every constructor call
\* makes a path string of its own.
SameRoute(s, t) == Equal(s, t) /\ s = t

\* ConcurrentLinkedQueue.contains
Contains(list, s) == \E t \in list : Equal(t, s)

\* getSubscriptions(session) and getSubscriptionsByTempQ(queue): every
\* transport names the reply queue after the session, so one filter does.
ByClient(list, c) == {s \in list : desc[s].client = c}

\* Faulty variant: any active subscription of the session counts as the same route.
AnyActiveRoute(s) == \E t \in ByClient(subscriptions, desc[s].client) : active[t]

HasExistingRoute(s) ==
    \E t \in ByClient(subscriptions, desc[s].client) :
        ~Equal(s, t) /\ SameRoute(s, t) /\ active[t]

\* Timer.schedule wants a positive period: the subscription's own, or, for a
\* playback, (long)(period / rate), which is positive iff |period| >= |rate|
\* and both have the same sign.
Schedulable(s) ==
    LET d == desc[s] IN
    IF d.rate = Live THEN d.period > 0
    ELSE \/ d.rate > 0 /\ d.period >= d.rate
         \/ d.rate < 0 /\ d.period =< d.rate

SendOutcomes == IF SendMayFail THEN BOOLEAN ELSE {TRUE}

-----------------------------------------------------------------------------
Init ==
    /\ desc = [s \in Subs |-> Nobody]
    /\ active = [s \in Subs |-> FALSE]
    /\ task = [s \in Subs |-> "virgin"]
    /\ subscriptions = {}
    /\ running = Nobody
    /\ pc = "idle"
    /\ client = Nobody
    /\ toSubscribe = <<>>
    /\ toUnsubscribe = <<>>
    /\ cur = Nobody
    /\ targets = {}
    /\ victims = {}
    /\ sweep = [w \in Sweepers |-> Nobody]
    /\ doomed = [w \in Sweepers |-> {}]
    /\ pending = [w \in Sweepers |-> {}]
    /\ late = [s \in Subs |-> 0]

-----------------------------------------------------------------------------
(* The consumer thread: SubscribeMsgHandler.consume *)

\* A message is acknowledged and handed to consume. The bound on Subs: there
\* is an object left for each of its entries.
Receive(c, subs, unsubs) ==
    /\ pc = "idle"
    /\ Serial => \A w \in Sweepers : sweep[w] = Nobody
    /\ Len(subs) + Len(unsubs) \in 1 .. Cardinality(Subs \ Constructed)
    /\ pc' = "parse"
    /\ client' = c
    /\ toSubscribe' = subs
    /\ toUnsubscribe' = unsubs
    /\ UNCHANGED <<desc, active, task, subscriptions, running, cur, targets, victims,
                   sweepVars, late>>

\* The entry at hand: subscribe entries come before unsubscribe entries.
Subscribing == toSubscribe # <<>>
HasEntry == Subscribing \/ toUnsubscribe # <<>>
HeadEntry == IF Subscribing THEN Head(toSubscribe) ELSE Head(toUnsubscribe)

NextEntry ==
    IF Subscribing
    THEN toSubscribe' = Tail(toSubscribe) /\ UNCHANGED toUnsubscribe
    ELSE toUnsubscribe' = Tail(toUnsubscribe) /\ UNCHANGED toSubscribe

\* Faulty variant: the handler keeps its previous `sub`.
ConstructUnassigned(s, e, sent) ==
    /\ desc[s] = Nobody
    /\ desc' = [desc EXCEPT ![s] = [client |-> client, path |-> e.path,
                                    period |-> e.period, rate |-> e.rate]]
    /\ active' = [active EXCEPT ![s] = sent]
    /\ UNCHANGED cur

\* new Subscription(...): reply queue, timer task, hello message. A hello that
\* cannot be sent deactivates the new object.
Construct(s, e, sent) ==
    /\ desc[s] = Nobody
    /\ desc' = [desc EXCEPT ![s] = [client |-> client, path |-> e.path,
                                    period |-> e.period, rate |-> e.rate]]
    /\ active' = [active EXCEPT ![s] = sent]
    /\ cur' = s

\* An entry with a path becomes an object, then goes to addSubscription or
\* removeSubscription. The object made to unsubscribe says hello as well.
ParseSubscribe(s) ==
    /\ pc = "parse"
    /\ HasEntry
    /\ HeadEntry.path # UnsubscribeAllPath
    /\ \E sent \in SendOutcomes : Construct(s, HeadEntry, sent)
    /\ NextEntry
    /\ pc' = IF Subscribing THEN "contains" ELSE "remove"
    /\ targets' = IF Subscribing THEN {} ELSE {s}
    /\ UNCHANGED <<task, subscriptions, running, client, victims, sweepVars, late>>

\* The path "none", in either array, removes every subscription of the session.
ParseNone ==
    /\ pc = "parse"
    /\ HasEntry
    /\ HeadEntry.path = UnsubscribeAllPath
    /\ NextEntry
    /\ targets' = ByClient(subscriptions, client)
    /\ pc' = "remove"
    /\ UNCHANGED <<desc, active, task, subscriptions, running, client, cur, victims,
                   sweepVars, late>>

\* An exception on one entry ends its array: the try is around the whole loop.
AbortArray ==
    IF Subscribing THEN toSubscribe' = <<>> /\ UNCHANGED toUnsubscribe
                   ELSE toUnsubscribe' = <<>> /\ UNCHANGED toSubscribe

\* A malformed entry: no path, or a field of the wrong type.
ParseFails ==
    /\ pc = "parse"
    /\ HasEntry
    /\ AbortArray
    /\ UNCHANGED <<desc, active, task, subscriptions, running, pc, client, cur, targets,
                   victims, sweepVars, late>>

Consumed ==
    /\ pc = "parse"
    /\ ~HasEntry
    /\ pc' = "idle"
    /\ client' = Nobody
    /\ cur' = Nobody
    /\ UNCHANGED <<desc, active, task, subscriptions, running, toSubscribe, toUnsubscribe,
                   targets, victims, sweepVars, late>>

-----------------------------------------------------------------------------
(* addSubscription, on the consumer thread *)

\* Faulty variants: the list is not searched; an equal subscription that is
\* listed already is started again.
AddUnchecked ==
    /\ pc = "contains"
    /\ pc' = "add"
    /\ UNCHANGED <<desc, active, task, subscriptions, running, client, toSubscribe,
                   toUnsubscribe, cur, targets, victims, sweepVars, late>>
RestartListed ==
    /\ pc = "contains"
    /\ \/ ~Contains(subscriptions, cur) /\ pc' = "add" /\ UNCHANGED cur
       \/ pc' = "activate" /\ \E s \in subscriptions : Equal(s, cur) /\ cur' = s
    /\ UNCHANGED <<desc, active, task, subscriptions, running, client, toSubscribe,
                   toUnsubscribe, targets, victims, sweepVars, late>>

CheckContains ==
    /\ pc = "contains"
    /\ pc' = IF Contains(subscriptions, cur) THEN "parse" ELSE "add"
    /\ UNCHANGED <<desc, active, task, subscriptions, running, client, toSubscribe,
                   toUnsubscribe, cur, targets, victims, sweepVars, late>>

Add ==
    /\ pc = "add"
    /\ subscriptions' = subscriptions \cup {cur}
    /\ pc' = "activate"
    /\ UNCHANGED <<desc, active, task, running, client, toSubscribe, toUnsubscribe, cur,
                   targets, victims, sweepVars, late>>

\* setActive(true) sets the flag ...
Activate ==
    /\ pc = "activate"
    /\ IF HasExistingRoute(cur)
       THEN pc' = "parse" /\ UNCHANGED <<active, late>>
       ELSE /\ pc' = "schedule"
            /\ active' = [active EXCEPT ![cur] = TRUE]
            /\ late' = [late EXCEPT ![cur] = 0]
    /\ UNCHANGED <<desc, task, subscriptions, running, client, toSubscribe, toUnsubscribe,
                   cur, targets, victims, sweepVars>>

\* ... and then schedules the task, which throws when the period is not
\* positive or the task was scheduled before: the subscription stays listed and
\* active, and the rest of the subscribe array is lost.
Schedule ==
    /\ pc = "schedule"
    /\ pc' = "parse"
    /\ IF Schedulable(cur) /\ task[cur] = "virgin"
       THEN task' = [task EXCEPT ![cur] = "scheduled"] /\ UNCHANGED toSubscribe
       ELSE toSubscribe' = <<>> /\ UNCHANGED task
    /\ UNCHANGED <<desc, active, subscriptions, running, client, toUnsubscribe, cur,
                   targets, victims, sweepVars, late>>

-----------------------------------------------------------------------------
(* removeSubscription, on the consumer thread *)

\* Faulty variant: the call is repeated until the list holds an equal one.
RemoveUntilFound(t) ==
    /\ pc = "remove"
    /\ t \in targets
    /\ cur' = t
    /\ victims' = {s \in subscriptions : Equal(s, t)}
    /\ targets' = IF victims' = {} THEN targets ELSE targets \ {t}
    /\ pc' = IF victims' = {} THEN "remove" ELSE "unlink"
    /\ UNCHANGED <<desc, active, task, subscriptions, running, client, toSubscribe,
                   toUnsubscribe, sweepVars, late>>

\* One call for each target; the snapshot of those equal to it, if any is listed.
StartRemove(t) ==
    /\ pc = "remove"
    /\ t \in targets
    /\ cur' = t
    /\ victims' = {s \in subscriptions : Equal(s, t)}
    /\ targets' = targets \ {t}
    /\ pc' = IF victims' = {} THEN "remove" ELSE "unlink"
    /\ UNCHANGED <<desc, active, task, subscriptions, running, client, toSubscribe,
                   toUnsubscribe, sweepVars, late>>

RemoveReturns ==
    /\ pc = "remove"
    /\ targets = {}
    /\ pc' = "parse"
    /\ UNCHANGED <<desc, active, task, subscriptions, running, client, toSubscribe,
                   toUnsubscribe, cur, targets, victims, sweepVars, late>>

\* subscriptions.remove(s) takes out one element equal to s, if there still is one.
Unlink ==
    /\ pc = "unlink"
    /\ pc' = "stop"
    /\ \/ \E s \in subscriptions : Equal(s, cur) /\ subscriptions' = subscriptions \ {s}
       \/ ~Contains(subscriptions, cur) /\ UNCHANGED subscriptions
    /\ UNCHANGED <<desc, active, task, running, client, toSubscribe, toUnsubscribe, cur,
                   targets, victims, sweepVars, late>>

\* Faulty variant: only the object made for the request is deactivated.
StopRequestOnly(s) ==
    /\ pc = "stop"
    /\ s \in victims
    /\ active' = [active EXCEPT ![cur] = FALSE]
    /\ victims' = victims \ {s}
    /\ pc' = IF victims' = {} THEN "remove" ELSE "unlink"
    /\ UNCHANGED <<desc, task, subscriptions, running, client, toSubscribe, toUnsubscribe,
                   cur, targets, sweepVars, late>>

\* sub.setActive(false); s.setActive(false)
StopVictim(s) ==
    /\ pc = "stop"
    /\ s \in victims
    /\ active' = [active EXCEPT ![s] = FALSE, ![cur] = FALSE]
    /\ victims' = victims \ {s}
    /\ pc' = IF victims' = {} THEN "remove" ELSE "unlink"
    /\ UNCHANGED <<desc, task, subscriptions, running, client, toSubscribe, toUnsubscribe,
                   cur, targets, sweepVars, late>>

-----------------------------------------------------------------------------
(* The Timer thread: TimerTask.run *)

\* Faulty variants: the task does not look at `active`; it returns without
\* cancelling itself.
FireRegardless(s) ==
    /\ running = Nobody
    /\ task[s] = "scheduled"
    /\ running' = s
    /\ UNCHANGED <<desc, active, task, subscriptions, handlerVars, sweepVars, late>>
FireUncancelled(s) ==
    /\ running = Nobody
    /\ task[s] = "scheduled"
    /\ active[s]
    /\ running' = s
    /\ UNCHANGED <<desc, active, task, subscriptions, handlerVars, sweepVars, late>>

\* A due task is run. It sees `active` once, before it loads the data: an
\* inactive one cancels itself instead.
TimerFires(s) ==
    /\ running = Nobody
    /\ task[s] = "scheduled"
    /\ IF active[s]
       THEN running' = s /\ UNCHANGED task
       ELSE task' = [task EXCEPT ![s] = "cancelled"] /\ UNCHANGED running
    /\ UNCHANGED <<desc, active, subscriptions, handlerVars, sweepVars, late>>

\* The data is loaded, trimmed, formatted and sent. Since a task that is running
\* or cancelled does not start again, `late` stays finite.
TimerSends ==
    /\ running # Nobody
    /\ running' = Nobody
    /\ late' = IF active[running] THEN late ELSE [late EXCEPT ![running] = @ + 1]
    /\ UNCHANGED <<desc, active, task, subscriptions, handlerVars, sweepVars>>

\* The send throws: the subscription is deactivated, and stays in the list.
TimerSendFails ==
    /\ running # Nobody
    /\ SendMayFail
    /\ running' = Nobody
    /\ active' = [active EXCEPT ![running] = FALSE]
    /\ UNCHANGED <<desc, task, subscriptions, handlerVars, sweepVars, late>>

\* Loading or formatting throws: logged, and the task stays scheduled.
TimerSkips ==
    /\ running # Nobody
    /\ running' = Nobody
    /\ UNCHANGED <<desc, active, task, subscriptions, handlerVars, sweepVars, late>>

-----------------------------------------------------------------------------
(* removeByTempQ and stopAll, on other threads *)

SweepStart(w, c) ==
    /\ sweep[w] = Nobody
    /\ Serial => pc = "idle" /\ \A v \in Sweepers : sweep[v] = Nobody
    /\ LET snapshot == IF c = Everyone THEN subscriptions ELSE ByClient(subscriptions, c)
       IN /\ doomed' = [doomed EXCEPT ![w] = snapshot]
          /\ pending' = [pending EXCEPT ![w] = snapshot]
    /\ sweep' = [sweep EXCEPT ![w] = c]
    /\ UNCHANGED <<desc, active, task, subscriptions, running, handlerVars, late>>

\* Faulty variant: the subscriptions are only taken out of the list.
SweepForgets(w, s) ==
    /\ s \in pending[w]
    /\ pending' = [pending EXCEPT ![w] = @ \ {s}]
    /\ UNCHANGED <<desc, active, task, subscriptions, running, handlerVars, sweep, doomed, late>>

SweepDeactivates(w, s) ==
    /\ s \in pending[w]
    /\ active' = [active EXCEPT ![s] = FALSE]
    /\ pending' = [pending EXCEPT ![w] = @ \ {s}]
    /\ UNCHANGED <<desc, task, subscriptions, running, handlerVars, sweep, doomed, late>>

\* removeAll takes out whatever is equal to a member of the snapshot, clear all.
SweepRemoves(w) ==
    /\ sweep[w] # Nobody
    /\ pending[w] = {}
    /\ subscriptions' = IF sweep[w] = Everyone THEN {}
                        ELSE {s \in subscriptions : ~Contains(doomed[w], s)}
    /\ sweep' = [sweep EXCEPT ![w] = Nobody]
    /\ doomed' = [doomed EXCEPT ![w] = {}]
    /\ UNCHANGED <<desc, active, task, running, handlerVars, pending, late>>

-----------------------------------------------------------------------------
Message == \E c \in Clients, subs, unsubs \in Arrays : Receive(c, subs, unsubs)

HandlerStep ==
    \/ \E s \in Subs : ParseSubscribe(s) \/ StartRemove(s) \/ StopVictim(s)
    \/ ParseNone \/ Consumed
    \/ CheckContains \/ Add \/ Activate \/ Schedule
    \/ RemoveReturns \/ Unlink

TimerReturns == TimerSends \/ TimerSendFails \/ TimerSkips

SweepStep(w) ==
    \/ \E s \in Subs : SweepDeactivates(w, s)
    \/ SweepRemoves(w)

Next ==
    \/ Message
    \/ HandlerStep
    \/ ParseFails
    \/ \E s \in Subs : TimerFires(s)
    \/ TimerReturns
    \/ \E w \in Sweepers :
          \/ \E c \in Clients \cup {Everyone} : SweepStart(w, c)
          \/ SweepStep(w)

\* The consumer, the Timer thread and the sweeps that have begun go on; clients
\* need not send, and nobody need be swept. The Timer serves the task that is due
\* first and reschedules a fixed delay ahead, so no due task is passed over for ever.
Fairness ==
    /\ WF_vars(HandlerStep)
    /\ WF_vars(TimerReturns)
    /\ \A s \in Subs : SF_vars(TimerFires(s))
    /\ \A w \in Sweepers : WF_vars(SweepStep(w))

Spec == Init /\ [][Next]_vars
FairSpec == Spec /\ Fairness

-----------------------------------------------------------------------------
(* Properties *)

\* Every variable holds values of its type, and a snapshot or a local variable
\* refers to objects that were constructed.
TypeOK ==
    /\ desc \in [Subs -> Descriptor \cup {Nobody}]
    /\ active \in [Subs -> BOOLEAN]
    /\ task \in [Subs -> {"virgin", "scheduled", "cancelled"}]
    /\ \A s \in Subs \ Constructed : task[s] = "virgin"
    /\ subscriptions \subseteq Constructed
    /\ running \in Constructed \cup {Nobody}
    /\ pc \in {"idle", "parse", "contains", "add", "activate", "schedule",
               "remove", "unlink", "stop"}
    /\ client \in Clients \cup {Nobody}
    /\ pc # "idle" => client # Nobody
    /\ toSubscribe \in Seq(Entry)
    /\ toUnsubscribe \in Seq(Entry)
    /\ cur \in Constructed \cup {Nobody}
    /\ pc \in {"contains", "add", "activate", "schedule", "unlink", "stop"} => cur # Nobody
    /\ targets \subseteq Constructed
    /\ victims \subseteq Constructed
    /\ sweep \in [Sweepers -> Clients \cup {Everyone, Nobody}]
    /\ doomed \in [Sweepers -> SUBSET Constructed]
    /\ pending \in [Sweepers -> SUBSET Constructed]
    /\ late \in [Subs -> Nat]

\* The list never holds two equal subscriptions, although addSubscription tests
\* `contains` and adds in two steps while other threads take elements out.
NoDuplicates ==
    \A s, t \in subscriptions : Equal(s, t) => s = t

\* A client gets at most one message of a subscription after it was deactivated:
\* the one whose task had tested `active` just before.
AtMostOneLateMessage ==
    \A s \in Subs : late[s] =< 1

\* Timer.schedule never meets a task it has scheduled or cancelled before, so a
\* subscription with a valid period never loses the rest of its message's array.
ScheduledAtMostOnce ==
    pc = "schedule" => task[cur] = "virgin"

\* A subscription whose task sends data is in the list, where an unsubscribe, the
\* client's disconnection or the stop of the server can find it; or it is one the
\* consumer is about to stop.
Fed(s) == active[s] /\ task[s] = "scheduled"
NoZombie ==
    \A s \in Constructed :
        Fed(s) => s \in subscriptions \/ (pc = "stop" /\ s \in victims)

\* A client never gets the same subscription twice over: of equal subscriptions,
\* old and new, at most one is fed.
OneFeedPerKey ==
    \A s, t \in Constructed : Fed(s) /\ Fed(t) /\ Equal(s, t) => s = t

\* When addSubscription returns, the client has a stream: the new subscription or
\* the equal one that was listed already is active and scheduled.  The stream is
\* missing for two reasons only: the period cannot be scheduled, or a send to the
\* client failed before, which left a listed subscription that blocks its own.
Added == pc \in {"contains", "schedule"} /\ pc' = "parse"
HasStreamOrFailed(s) ==
    \E t \in subscriptions : Equal(t, s) /\ (Fed(t) \/ ~Schedulable(t) \/ ~active[t])
SubscribeGivesStreamOrFailed == [][Added => HasStreamOrFailed(cur)' ]_vars

\* When removeSubscription(t) returns, no subscription equal to t is fed any more.
AnyFeed(s) == \E t \in Constructed : Equal(t, s) /\ Fed(t)
UnsubscribeStopsStream ==
    [][(pc = "stop" /\ pc' = "remove") => ~AnyFeed(cur)' ]_vars

\* A scheduled task whose subscription was deactivated is cancelled in the end,
\* or its subscription is activated again: no dead task stays in the Timer.
DeadTaskIsCancelled ==
    \A s \in Subs :
        task[s] = "scheduled" /\ ~active[s] ~> task[s] = "cancelled" \/ active[s]

\* The consumer is never stuck in a message: it comes back for the next one.
MessageIsConsumed == pc # "idle" ~> pc = "idle"
=============================================================================
