CONSTANTS
  chat = chat stock = stock vision = vision shadow = shadow upkeep = upkeep
  Tasks = {stock, chat, shadow, upkeep}
  Priority <- PriorityOf
  Deadline <- CloseDeadlines
  Never = 9
  Predicted <- SomePredicted
  Preemptible = {shadow}
  QueueMax = 2
  Grace = 1
  YieldTime = 1
  Nobody = Nobody
  Punctual = FALSE
  Horizon = 3
SPECIFICATION FairSpec
INVARIANTS NothingLost BackgroundToldToYield
PROPERTIES EverySubmissionAnswered
CHECK_DEADLOCK FALSE
