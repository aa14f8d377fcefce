-------------------------- MODULE MCOrderCheckout --------------------------
(***************************************************************************)
(* Small instances of OrderCheckout.                                       *)
(***************************************************************************)
EXTENDS OrderCheckout, TLC

CONSTANTS s1, s2, l1, l2, k1, k2, r1, r2, i1, i2

OneGuest  == {s1}
TwoGuests == {s1, s2}
MCItems   == {i1, i2}
MCLines   == {l1, l2}
MCItemOf  == l1 :> i1 @@ l2 :> i2
MCKeys    == {k1, k2}
MCRequests == {r1, r2}

CheckoutSymmetry == Permutations(MCRequests) \cup Permutations(MCKeys)
\* Two guests are alike, and so are two lines when their items go with them.
GuestSymmetry == CheckoutSymmetry \cup Permutations(TwoGuests) \cup
                 {l1 :> l2 @@ l2 :> l1 @@ i1 :> i2 @@ i2 :> i1}
=============================================================================
