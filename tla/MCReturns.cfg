CONSTANTS
  Workers = {w1, w2}
  Rmas = {m1}
  MaxRefunds = 3
  Amounts = {1, 2}
  Total = 2
  InitialFunds = {1, 4}
  NoRma = NoRma
SPECIFICATION Spec
SYMMETRY Symmetry
INVARIANTS TypeOK RefundedIsCounted CompletedIsDebited
PROPERTIES RequestsAreCovered
CHECK_DEADLOCK FALSE
