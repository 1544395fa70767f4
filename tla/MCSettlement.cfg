SPECIFICATION Spec
CONSTANTS
  o1 = o1
  o2 = o2
  o3 = o3
  Workers = {w1, w2}
  Orders = {o1, o2}
  Amount <- MCAmount
  Periods <- MCPeriods
  Settlements = {s1, s2}
  FeeTotals = {1, 6}
  TenantIsStore = TRUE
  NoWorker = NoWorker
  Rates = {0, 250, 5000}
  Flats = {0, 1, 2, 5}
  Precision = 10000
SYMMETRY Symmetry
INVARIANTS TypeOK SettledOnce EntriesMatchStatus NoNegativeBalance CreditIsIdempotent
PROPERTIES KeepsContract
