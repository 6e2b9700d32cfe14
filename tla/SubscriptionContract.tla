------------------------- MODULE SubscriptionContract -------------------------
(***************************************************************************)
(* What the subscription manager promises a client, whatever its threads   *)
(* do: a stream begins only for something the client has subscribed to,    *)
(* may break off, and stops for good soon after the client unsubscribed or *)
(* is gone.                                                                *)
(***************************************************************************)
CONSTANT Keys   \* what can be subscribed to: a session, a path and a period

VARIABLES wanted,   \* subscribed to, and not unsubscribed since
          feeding   \* the streams that are running

contractVars == <<wanted, feeding>>

Init == wanted = {} /\ feeding = {}

Subscribe(k) ==
    /\ k \notin wanted
    /\ wanted' = wanted \cup {k}
    /\ UNCHANGED feeding

Start(k) ==
    /\ k \in wanted \ feeding
    /\ feeding' = feeding \cup {k}
    /\ UNCHANGED wanted

\* A stream may stop while it is wanted: its reply queue was lost.
Stop(k) ==
    /\ k \in feeding
    /\ feeding' = feeding \ {k}
    /\ UNCHANGED wanted

\* One subscription is given up, or all those of a client or of the server.
Unsubscribe(ks) ==
    /\ ks # {}
    /\ wanted' = wanted \ ks
    /\ UNCHANGED feeding

Next ==
    \/ \E k \in Keys : Subscribe(k) \/ Start(k) \/ Stop(k)
    \/ \E ks \in SUBSET wanted : Unsubscribe(ks)

\* A stream nobody wants is stopped.
StopUnwanted(k) == k \notin wanted /\ Stop(k)

Safe == Init /\ [][Next]_contractVars
Spec == Safe /\ \A k \in Keys : WF_contractVars(StopUnwanted(k))
=============================================================================
