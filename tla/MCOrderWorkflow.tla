-------------------------- MODULE MCOrderWorkflow --------------------------
(***************************************************************************)
(* Small instances of OrderWorkflow.                                       *)
(***************************************************************************)
EXTENDS OrderWorkflow, TLC

CONSTANTS o1, r1, r2, cashier, boss

OneOrder == {o1}
MCRequests == {r1, r2}
\* boss is an administrator: both a cashier and a cook.
MCCashiers == {cashier, boss}
MCKitchen  == {boss}
OneBoss    == {boss}

RequestSymmetry == Permutations(MCRequests)
=============================================================================
