--------------------------- MODULE FeeAllocation ---------------------------
(***************************************************************************)
(* How the fees of a settlement are divided among its orders: a percentage *)
(* of each, and a flat fee in proportion, of which the last order takes    *)
(* what rounding has left.  Amounts are whole hundredths, rates whole      *)
(* hundredths of a percent, and decimals have a fixed number of digits.    *)
(* SettlementLedger takes a settlement's fees from a set; here is what     *)
(* they can be.                                                            *)
(***************************************************************************)
EXTENDS SettlementLedger, SequencesExt

CONSTANTS Rates,      \* settlement_fee_percent
          Flats,      \* settlement_fee_flat
          Precision   \* 10 to the number of decimals, 28 in the program

ASSUME PolicyAssumption == Rates \subseteq Int /\ Flats \subseteq Int
\* Fees, totals and orders have far fewer digits than decimals, even multiplied.
ASSUME PrecisionAssumption ==
  /\ Precision \in Nat \ {0}
  /\ \A flat \in Flats : Cardinality(Orders) * flat < Precision
  /\ Cardinality(Orders) * Gross(Orders) < Precision

\* ROUND_HALF_UP: the nearest whole number, away from zero when two are.
RoundHalfUp(n, d) == IF n >= 0 THEN (2 * n + d) \div (2 * d) ELSE -((d - 2 * n) \div (2 * d))

SumTo(f, n) == SumFunctionOnSet(f, 1 .. n)

\* (amount / total) * flat, to the hundredth
Proportional(amount, total, flat) ==
  RoundHalfUp(RoundHalfUp(amount * Precision, total) * flat, Precision)

\* Fault: the last order's share is rounded like the others.
FlatSharesRounded(amounts, flat) ==
  LET total == SumTo(amounts, Len(amounts)) IN
  [i \in DOMAIN amounts |-> Proportional(amounts[i], total, flat)]

FlatShares(amounts, flat) ==
  LET n == Len(amounts)
      total == SumTo(amounts, n)
      share == [i \in 1 .. n - 1 |-> Proportional(amounts[i], total, flat)] IN
  [i \in DOMAIN amounts |-> IF i = n THEN flat - SumTo(share, n - 1) ELSE share[i]]

\* A negative percentage or flat fee counts as none.
AtLeastZero(n) == IF n < 0 THEN 0 ELSE n

AllocateFees(amounts, rate, flat) ==
  LET shares == IF SumTo(amounts, Len(amounts)) > 0 /\ flat > 0
                THEN FlatShares(amounts, flat) ELSE [i \in DOMAIN amounts |-> 0] IN
  [i \in DOMAIN amounts |->
     RoundHalfUp(AtLeastZero(rate) * amounts[i] + 10000 * shares[i], 10000)]

-----------------------------------------------------------------------------
(* Reference *)

\* The percentage of one order.
PercentOf(amount, rate) == RoundHalfUp(AtLeastZero(rate) * amount, 10000)

\* The totals of a settlement's orders, in any order the database may return them.
OrderAmounts(s) ==
  {[i \in DOMAIN row |-> Amount[row[i]]] : row \in SetToSeqs(settlement[s].orders)}

\* Whatever rounding does to the shares, the fees of a settlement are the percentages of
\* its orders and the flat fee, to the hundredth (one less where a tie of the last fee is
\* below zero), and never less than nothing in all; no order pays less than its percentage
\* but the last, which gets back at most half a hundredth for each of the others, and half
\* for the tie.
FeesAddUp ==
  \A s \in Settlements, rate \in Rates, flat \in Flats : \A amounts \in OrderAmounts(s) :
    LET n == Len(amounts)
        fees == AllocateFees(amounts, rate, flat)
        percents == [i \in 1 .. n |-> PercentOf(amounts[i], rate)]
        total == SumTo(fees, n)
        owed == SumTo(percents, n) + AtLeastZero(flat) IN
    n > 0 =>
      /\ total \in {owed - 1, owed} /\ total >= 0
      /\ fees[n] >= 0 => total = owed
      /\ \A i \in 1 .. n - 1 : fees[i] >= percents[i]
      /\ 2 * (percents[n] - fees[n]) <= n
=============================================================================
