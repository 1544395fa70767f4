---------------------------- MODULE MCSettlement ----------------------------
(* SettlementLedger and FeeAllocation on small instances: two orders in      *)
(* overlapping periods, and three, one of them free, without concurrency.    *)
EXTENDS FeeAllocation, TLC

CONSTANTS o1, o2, o3

MCAmount == (o1 :> 2) @@ (o2 :> 3)
MCPeriods == {{o1, o2}, {o2}}

\* Two equal shares of a flat fee may round up, and leave less than nothing to the third.
SerialAmount == (o1 :> 3) @@ (o2 :> 3) @@ (o3 :> 0)
SerialPeriods == {{o1, o2, o3}, {o2, o3}}

\* Workers and settlements are interchangeable; the orders, of different totals, are not.
Symmetry == Permutations(Workers) \cup Permutations(Settlements)
=============================================================================
