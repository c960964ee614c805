------------------------------- MODULE QuotaMC -------------------------------
(* Quota with a month so short that a day of the month comes back.         *)
EXTENDS Quota
=============================================================================
