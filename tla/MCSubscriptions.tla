-------------------------- MODULE MCSubscriptions --------------------------
(* Subscriptions of one person, who may ask more than once.                 *)
EXTENDS Subscriptions
=============================================================================
