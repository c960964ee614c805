--------------------------- MODULE SubscriptionMC ---------------------------
(* The two products that are on sale, and how long each is paid for.       *)
EXTENDS Subscription, TLC

CONSTANTS advancedWeek, advancedYear

AllProducts == <<advancedWeek, advancedYear>>
Periods == (advancedWeek :> 1) @@ (advancedYear :> 2)
=============================================================================
