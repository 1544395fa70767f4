CONSTANTS
  Workers = {w1, w2}
  Refs = {r1}
  Withdrawals = {d1}
  Amounts = {1}
  NoWorker = NoWorker
  MaxAdjustments = 1
  LegacyBalances = {1}
SPECIFICATION AdjustFairSpec
PROPERTIES CallsReturn
