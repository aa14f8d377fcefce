--------------------------- MODULE OrderLifecycle ---------------------------
(***************************************************************************)
(* What the order component promises, without sessions, locks or versions: *)
(* an order is created new, every later change of its status is one the    *)
(* state machine allows, each change is entered in the order's trail in    *)
(* the same step, and the trail is never rewritten.                        *)
(***************************************************************************)
EXTENDS OrderStates, Sequences

CONSTANT Orders

VARIABLES status,   \* the status anyone reading the order sees
          trail     \* the statuses the order's history reports, oldest first

Init == /\ status = [o \in Orders |-> NoStatus]
        /\ trail = [o \in Orders |-> << >>]

\* Enter s in o's trail and make it o's status.
Enter(o, s) == /\ status' = [status EXCEPT ![o] = s]
               /\ trail' = [trail EXCEPT ![o] = Append(@, s)]

Create(o) == status[o] = NoStatus /\ Enter(o, New)

Advance(o) == \E target \in OrderStatus :
                /\ status[o] # NoStatus
                /\ can_transition(status[o], target)
                /\ Enter(o, target)

Next == \E o \in Orders : Create(o) \/ Advance(o)

Spec == Init /\ [][Next]_<<status, trail>>

=============================================================================
