----------------------------- MODULE MCCheckout -----------------------------
(* Checkout on a small instance. *)
EXTENDS Checkout, TLC

\* A coupon worth less than the items, and good for one use.
One == [k \in Coupons |-> 1]
Minimum == [k \in Coupons |-> 2]

Symmetry == Permutations(Workers) \cup Permutations(Customers)
=============================================================================
