--------------------------- MODULE LedgerContract ---------------------------
(***************************************************************************)
(* What the settlement ledger promises a merchant, with no account rows,   *)
(* row locks or transactions: an order is credited at most once, and is    *)
(* settled in at most one batch, whose orders and net never change; a      *)
(* batch is cleared once and then paid out once, never for more than its   *)
(* orders cost, and each of these steps writes its entries in the journal  *)
(* once.  SettlementLedger is shown to implement this module.              *)
(***************************************************************************)
EXTENDS Integers, Functions

CONSTANTS Orders,
          Amount,    \* Amount[o]: the order's total
          FeeTotals  \* what a batch may be charged in all

VARIABLES earned,    \* orders that count as paid
          payable,   \* of these, the orders that may be settled
          credited,  \* orders with a ledger entry
          batches,   \* what was gathered to be settled
          cleared,   \* batches moved to the available balance
          paidOut,   \* batches that left it
          journal    \* number of ledger entries

contractVars == <<earned, payable, credited, batches, cleared, paidOut, journal>>

Init ==
  /\ earned = {} /\ payable = {} /\ credited = {}
  /\ batches = {} /\ cleared = {} /\ paidOut = {}
  /\ journal = 0

Earn(o) ==
  /\ earned' = earned \cup {o}
  /\ payable' \in {payable, payable \cup {o}}
  /\ UNCHANGED <<credited, batches, cleared, paidOut, journal>>

Credit(o) ==
  /\ o \in earned \ credited
  /\ credited' = credited \cup {o}
  /\ journal' = journal + 1
  /\ UNCHANGED <<earned, payable, batches, cleared, paidOut>>

\* The net of a batch is what its orders cost less its fees, which may exceed it.
Gather(os, fees) ==
  /\ os # {} /\ os \subseteq payable
  /\ \A b \in batches : b.orders \cap os = {}
  /\ batches' = batches \cup {[orders |-> os, net |-> SumFunctionOnSet(Amount, os) - fees]}
  /\ UNCHANGED <<earned, payable, credited, cleared, paidOut, journal>>

Clear(b) ==
  /\ b \in batches \ cleared
  /\ b.net >= 0
  /\ cleared' = cleared \cup {b}
  /\ journal' = journal + 2
  /\ UNCHANGED <<earned, payable, credited, batches, paidOut>>

PayOut(b) ==
  /\ b \in cleared \ paidOut
  /\ paidOut' = paidOut \cup {b}
  /\ journal' = journal + 1
  /\ UNCHANGED <<earned, payable, credited, batches, cleared>>

Next ==
  \/ \E o \in Orders : Earn(o) \/ Credit(o)
  \/ \E os \in SUBSET Orders, fees \in FeeTotals : Gather(os, fees)
  \/ \E b \in batches : Clear(b) \/ PayOut(b)

Spec == Init /\ [][Next]_contractVars
=============================================================================
