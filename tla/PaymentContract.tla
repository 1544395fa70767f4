--------------------------- MODULE PaymentContract ---------------------------
(***************************************************************************)
(* What the payments of an order promise the merchant, with no threads,    *)
(* events, intents or row locks: money is recorded only for a charge whose *)
(* success the provider reported, or once for a key of the test gateway;   *)
(* recording it and crediting the order are one step, which nothing takes  *)
(* back; an attempt is shown confirmed only in such a step, and not while  *)
(* it is held for review.  Payments is shown to implement this module.     *)
(***************************************************************************)
CONSTANTS Keys,   \* idempotency keys of the order's payments
          Refs    \* charges of the providers

VARIABLES reported,    \* charges whose success was reported
          recorded,    \* charges with a Payment row
          credited,    \* the merchant's ledger has the order
          shipped,     \* the order was shipped
          confirmed,   \* attempts shown confirmed
          held,        \* attempts that wait for review
          tests        \* attempts made with the test gateway

contractVars == <<reported, recorded, credited, shipped, confirmed, held, tests>>

Init ==
  /\ reported = {} /\ recorded = {}
  /\ credited = FALSE /\ shipped = FALSE
  /\ confirmed = {} /\ held = {} /\ tests = {}

Report(r) ==
  /\ reported' = reported \cup {r}
  /\ UNCHANGED <<recorded, credited, shipped, confirmed, held, tests>>

Hold(k) ==
  /\ k \notin confirmed
  /\ held' = held \cup {k}
  /\ tests' \in {tests, tests \cup {k}}
  /\ UNCHANGED <<reported, recorded, credited, shipped, confirmed>>

Succeed(r) ==
  /\ recorded' = recorded \cup {r}
  /\ credited' = TRUE
  /\ shipped' \in {shipped, TRUE}

\* The success of a charge is applied, again when it is reported again.
Apply(r) ==
  /\ r \in reported
  /\ Succeed(r)
  /\ \/ UNCHANGED confirmed
     \/ \E k \in Keys \ held : confirmed' = confirmed \cup {k}
  /\ UNCHANGED <<reported, held, tests>>

\* The test gateway's payment succeeds as it is made.
PayTest(k, r) ==
  /\ k \notin tests
  /\ tests' = tests \cup {k}
  /\ Succeed(r)
  /\ UNCHANGED <<reported, confirmed, held>>

\* A reviewer decides about an attempt, and releases it: what was recorded stays.
Review(k) ==
  /\ confirmed' = confirmed \ {k}
  /\ held' = held \ {k}
  /\ UNCHANGED <<reported, recorded, credited, shipped, tests>>

Next ==
  \/ \E r \in Refs : Report(r) \/ Apply(r)
  \/ \E k \in Keys : Hold(k) \/ Review(k) \/ \E r \in Refs : PayTest(k, r)

Spec == Init /\ [][Next]_contractVars
=============================================================================
