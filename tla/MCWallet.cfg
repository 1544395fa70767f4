CONSTANTS
  Workers = {w1, w2}
  Refs = {r1}
  Withdrawals = {d1, d2}
  Amounts = {1, 2}
  NoWorker = NoWorker
SPECIFICATION Spec
SYMMETRY Symmetry
INVARIANTS TypeOK LedgerIntegrity PayoutsDebitOnce
PROPERTIES RecordedOnce RequestLifecycle KeepsContract
