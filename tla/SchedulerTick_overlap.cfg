CONSTANTS
  r1 = r1 r2 = r2 s1 = s1 s2 = s2 p1 = p1 p2 = p2
  Revisions = {r1, r2}
  Rank <- Ranks
  Sessions = {s1, s2}
  Listed <- Lists
  DayStart <- Days
  OpensAt <- Opens
  FixedSlots = {"evening", "preopen"}
  Offset <- Offsets
  Due <- Dues
  Quarter = 2
  FixedAudit = 4
  CatchUp = 2
  SentinelAudit = 3
  Ticks = {p1, p2}
  Horizon = 4
  SealDelay = 1
  MaxWorked = 1
SPECIFICATION Spec
INVARIANTS ReceiptsMaterialized PointInTime NoGap RefusedOnlyOvertaken
SYMMETRY Both
CHECK_DEADLOCK FALSE
