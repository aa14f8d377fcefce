---------------------------- MODULE MCGuestVisit ----------------------------
(***************************************************************************)
(* A small instance of GuestVisit.  Together the clock and the changes of  *)
(* the table make too many states for liveness, so a behaviour has one of  *)
(* them: either the clock stands, or the table is left alone.  A clock     *)
(* that stands is not fair: ChipGoes speaks of the others.                 *)
(***************************************************************************)
EXTENDS GuestVisit

CONSTANTS t1, k1, o1, o2

MCTables == {t1}
MCTabs   == {k1}
MCOrders == {o1, o2}

VARIABLE focus

MCInit == Init /\ focus \in {"table", "clock"}

ClockStands == now' = now
TableLeft   == table' = table /\ \A r \in Slots : req'[r].kind # "scan"

MCNext ==
  /\ Next
  /\ IF focus = "table" THEN ClockStands ELSE TableLeft
  /\ focus' = focus

MCSpec == MCInit /\ [][MCNext]_<<vars, focus>> /\ Fairness
=============================================================================
