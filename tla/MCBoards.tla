------------------------------ MODULE MCBoards ------------------------------
(***************************************************************************)
(* Small instances of Boards.                                              *)
(***************************************************************************)
EXTENDS Boards, TLC

CONSTANTS o1, o2, p1

TwoOrders == {o1, o2}
OnePage   == {p1}

\* One order is ready; the other is not placed yet, or waits for the kitchen.
MCOpening == {o1 :> 0 @@ o2 :> 4, o1 :> 2 @@ o2 :> 4}
=============================================================================
