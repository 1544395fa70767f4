SPECIFICATION Spec
CONSTANTS
  o1 = o1
  o2 = o2
  o3 = o3
  Workers = {w1}
  Orders = {o1, o2, o3}
  Amount <- SerialAmount
  Periods <- SerialPeriods
  Settlements = {s1, s2}
  FeeTotals = {1, 7}
  TenantIsStore = FALSE
  NoWorker = NoWorker
  Rates = {0, 250, 5000}
  Flats = {0, 1, 2, 5}
  Precision = 10000
SYMMETRY Symmetry
INVARIANTS BalanceIsSumOfEntries FeesAddUp
