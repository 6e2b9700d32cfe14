------------------------ MODULE SubscriptionRefinement ------------------------
(* The manager, as long as sweeps and messages do not overlap, implements    *)
(* SubscriptionContract.                                                     *)
EXTENDS Subscriptions

Wanted  == {Key(s) : s \in subscriptions}
Feeding == {Key(s) : s \in {t \in Constructed : Fed(t)}}

Contract == INSTANCE SubscriptionContract
                WITH Keys <- Clients \X Paths \X Periods,
                     wanted <- Wanted, feeding <- Feeding

\* Every step of the manager, its Timer and its sweepers is a step of the
\* contract, and a stream the client gave up is stopped in the end.
KeepsContract == Contract!Spec
=============================================================================
