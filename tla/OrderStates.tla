----------------------------- MODULE OrderStates -----------------------------
(***************************************************************************)
(* The order status machine: apps/orders/states.py.                        *)
(***************************************************************************)

New == "new"
Confirmed == "confirmed"
InPreparation == "in_preparation"
Ready == "ready"
Served == "served"
Cancelled == "cancelled"
Rejected == "rejected"

OrderStatus ==
  {New, Confirmed, InPreparation, Ready, Served, Cancelled, Rejected}

\* The blank previous_status of an order's first history entry; also the
\* status of an order that has not been created yet.
NoStatus == ""

\* (mutant) a cancelled order can still be confirmed
ALLOWED_TRANSITIONS_UndoCancel ==
  [new            |-> {Confirmed, Rejected, Cancelled},
   confirmed      |-> {InPreparation, Cancelled},
   in_preparation |-> {Ready, Cancelled},
   ready          |-> {Served, InPreparation, Cancelled},
   served         |-> {},
   cancelled      |-> {Confirmed},
   rejected       |-> {}]

\* Any change not listed here is rejected.
ALLOWED_TRANSITIONS ==
  [new            |-> {Confirmed, Rejected, Cancelled},
   confirmed      |-> {InPreparation, Cancelled},
   in_preparation |-> {Ready, Cancelled},
   ready          |-> {Served, InPreparation, Cancelled},
   served         |-> {},
   cancelled      |-> {},
   rejected       |-> {}]

CLOSED_STATUSES == {Served, Cancelled, Rejected}

can_transition(current, target) == target \in ALLOWED_TRANSITIONS[current]

=============================================================================
