--------------------------- MODULE BillingAccountsMC --------------------------
(***************************************************************************)
(* Instances of BillingAccounts for TLC: the three plans with small limits *)
(* in their order, so that a run costs a large part of an allowance.       *)
(***************************************************************************)
EXTENDS BillingAccounts, TLC

PlansDef == {"FREE", "PLUS", "PRO"}
LimitDef == [FREE |-> 1, PLUS |-> 2, PRO |-> 3]

Interchangeable == Permutations(Runs)
=============================================================================
