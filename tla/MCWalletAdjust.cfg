CONSTANTS
  Workers = {w1, w2}
  Refs = {r1}
  Withdrawals = {d1}
  Amounts = {1}
  NoWorker = NoWorker
  MaxAdjustments = 2
  LegacyBalances = {0, 2}
SPECIFICATION AdjustSpec
SYMMETRY Symmetry
INVARIANTS NoOverdraft PendingIsExact
