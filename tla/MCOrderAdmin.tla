---------------------------- MODULE MCOrderAdmin ----------------------------
(***************************************************************************)
(* A small instance of OrderAdmin: one order, one manager, one form.       *)
(***************************************************************************)
EXTENDS OrderAdmin, TLC

CONSTANTS o1, r1, r2, boss, admin

MCOrders   == {o1}
MCRequests == {r1, r2}
MCStaff    == {boss}
MCAdmins   == {admin}

RequestSymmetry == Permutations(MCRequests)
=============================================================================
