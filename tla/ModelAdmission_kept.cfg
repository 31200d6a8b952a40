CONSTANTS
  chat = chat stock = stock vision = vision shadow = shadow upkeep = upkeep
  Tasks = {stock, chat, vision, shadow, upkeep}
  Priority <- PriorityOf
  Deadline <- SpreadDeadlines
  Never = 9
  Predicted <- AllPredicted
  Preemptible = {shadow}
  QueueMax = 3
  Grace = 1
  YieldTime = 1
  Nobody = Nobody
  Punctual = TRUE
  Horizon = 6
SPECIFICATION Spec
INVARIANTS AdmissionKept
CHECK_DEADLOCK FALSE
