--------------------------- MODULE CouponContract ---------------------------
(***************************************************************************)
(* What coupons promise the store, with no carts, sessions, transactions   *)
(* or row locks: an order redeems a coupon at most once, a coupon is never *)
(* redeemed more often than its limits allow, over all customers and per   *)
(* customer, and its counter moves with its usage log.  Checkout is shown  *)
(* to implement this module.                                               *)
(***************************************************************************)
EXTENDS Integers, FiniteSets

CONSTANTS Coupons,         \* rows of coupons_coupon
          Customers,       \* rows of customers_customer
          OrderIds,        \* ids an order can have
          UsageLimit,      \* per coupon: uses allowed, 0 for no limit
          CustomerLimit    \* per coupon: uses allowed to one customer

VARIABLES usageLog,   \* rows of coupons_usage_log
          timesUsed   \* per coupon: the counter times_used

contractVars == <<usageLog, timesUsed>>

Uses == [coupon : Coupons, customer : Customers, order : OrderIds]

UsesOf(k) == {u \in usageLog : u.coupon = k}
UsesBy(k, c) == {u \in usageLog : u.coupon = k /\ u.customer = c}

Init == usageLog = {} /\ timesUsed = [k \in Coupons |-> 0]

Redeem(use) ==
  /\ \A u \in usageLog : u.order # use.order
  /\ UsageLimit[use.coupon] # 0 =>
       Cardinality(UsesOf(use.coupon)) < UsageLimit[use.coupon]
  /\ Cardinality(UsesBy(use.coupon, use.customer)) < CustomerLimit[use.coupon]
  /\ usageLog' = usageLog \cup {use}
  /\ timesUsed' = [timesUsed EXCEPT ![use.coupon] = @ + 1]

Next == \E use \in Uses : Redeem(use)

Spec == Init /\ [][Next]_contractVars
=============================================================================
