CONSTANTS
  Workers = {w1, w2}
  Rmas = {m1}
  MaxRefunds = 3
  Amounts = {1, 2}
  Total = 2
  InitialFunds = {1, 4}
  NoRma = NoRma
SPECIFICATION Spec
INVARIANTS DebitedWithinTotal
CHECK_DEADLOCK FALSE
