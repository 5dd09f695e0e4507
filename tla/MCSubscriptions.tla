--------------------------- MODULE MCSubscriptions ---------------------------
(* Instances of Subscriptions for TLC: two objects, two providers that     *)
(* serve subscriptions and one that does not.                              *)
EXTENDS Subscriptions, TLC
CONSTANTS s1, s2, p1, p2, http

(* Bound: two subscriptions at the node of the first provider.             *)
TwoAtFirst == (p1 :> 2) @@ (p2 :> 1) @@ (http :> 0)
=============================================================================
