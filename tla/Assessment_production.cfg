CONSTANTS
  c1 = c1 t1 = t1 p1 = p1 p2 = p2 d1 = d1
  Contents = {c1}
  Targets = {t1}
  ContentOf <- AllOf
  MaxAttempts = 2
  RunLimit = 1
  Delay <- Delays
  Predicted = 1
  Eligible <- AtOnce
  Deadline <- Deadlines
  Lag = 0
  Skew = 1
  Horizon = 2
  Producers = {p1, p2}
  Deltas = {d1}
  Poison = {d1}
  Limit = 2
  MaxMishaps = 1
SPECIFICATION FairProduction
INVARIANTS OneActiveAttempt GatedByContent SealedInTime TerminalAnnounced DeliveredOnce
PROPERTIES ImplementsOutcome EveryCascadeProduced
CHECK_DEADLOCK FALSE
