--------------------------- MODULE MCSubscriptions ---------------------------
(* Instances of Subscriptions for TLC: three Subscription objects, one client *)
(* and one path are enough for an object to be added, swept, unsubscribed and *)
(* added again while a second one is in flight.                               *)
EXTENDS SubscriptionRefinement

CONSTANTS s1, s2, s3, c1, c2, p1, p2, w1

\* A playback rate for which Timer.schedule throws with the period 1.
AnyRates == {-1}
=============================================================================
