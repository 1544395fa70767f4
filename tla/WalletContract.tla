--------------------------- MODULE WalletContract ---------------------------
(***************************************************************************)
(* What the merchant wallet promises its callers, with no transactions, no *)
(* row locks and no amounts of its own: every order credits the wallet at  *)
(* most once, money becomes available only by leaving the pending bucket,  *)
(* a refund empties the pending bucket before it touches the available one *)
(* and a withdrawal leaves the wallet at most once, out of funds that are  *)
(* there.  WalletService is shown to implement this module.                *)
(***************************************************************************)
EXTENDS Integers

CONSTANTS Refs,         \* references callers pass: "order:17", "refund:4"
          Withdrawals   \* identities of withdrawal requests

VARIABLES pending,      \* money paid by customers, order not delivered yet
          available,    \* money the merchant may withdraw
          credited,     \* references whose payment has been credited
          released,     \* references whose delivery has released funds
          refunded,     \* references whose refund has been deducted
          approved,     \* withdrawals approved and not yet paid
          paidOut       \* withdrawals that have left the wallet

contractVars == <<pending, available, credited, released, refunded, approved, paidOut>>

Init ==
  /\ pending = 0 /\ available = 0
  /\ credited = {} /\ released = {} /\ refunded = {}
  /\ approved = {} /\ paidOut = {}

\* A payment is credited to the pending bucket, once per reference.
Credit(r) ==
  /\ r \notin credited
  /\ credited' = credited \cup {r}
  /\ pending' \in Int /\ pending' > pending
  /\ UNCHANGED <<available, released, refunded, approved, paidOut>>

\* A delivery moves funds between the buckets: none is made, none is lost.
Release(r) ==
  /\ r \notin released
  /\ released' = released \cup {r}
  /\ pending' \in 0 .. (pending - 1)
  /\ available' = available + (pending - pending')
  /\ UNCHANGED <<credited, refunded, approved, paidOut>>

\* A refund lowers the balances, the available one only when pending is spent.
Deduct(r) ==
  /\ r \notin refunded
  /\ refunded' = refunded \cup {r}
  /\ pending' \in 0 .. pending
  /\ available' \in 0 .. available
  /\ pending' + available' < pending + available
  /\ available' < available => pending' = 0
  /\ UNCHANGED <<credited, released, approved, paidOut>>

Approve(w) ==
  /\ w \notin approved \cup paidOut
  /\ approved' = approved \cup {w}
  /\ UNCHANGED <<pending, available, credited, released, refunded, paidOut>>

\* A payout leaves the available bucket, once, and only after an approval.
PayOut(w) ==
  /\ w \in approved
  /\ approved' = approved \ {w}
  /\ paidOut' = paidOut \cup {w}
  /\ available' \in 0 .. (available - 1)
  /\ UNCHANGED <<pending, credited, released, refunded>>

Next ==
  \/ \E r \in Refs : Credit(r) \/ Release(r) \/ Deduct(r)
  \/ \E w \in Withdrawals : Approve(w) \/ PayOut(w)

Spec == Init /\ [][Next]_contractVars
=============================================================================
