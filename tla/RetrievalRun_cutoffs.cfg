SPECIFICATION Spec
CONSTANTS
  Workers = {w1, w2}
  r1 = r1
  r2 = r2
  Runs = {r1, r2}
  Items = {i1}
  Tokens = {t1, t2, t3, t4}
  NoToken = NoToken
  Cutoff <- EarlyAndLate
  Calls = 1
  LeaseSeconds = 1
  Retention = 1
  Horizon = 2
SYMMETRY Symmetry
CHECK_DEADLOCK FALSE
INVARIANTS SealedOnce NoLookahead LinksMatchReceipts NoLeakedLease
PROPERTIES ContentNeverRestored ImplementsLedger NoStolenLease StaleWorkerWritesNothing
