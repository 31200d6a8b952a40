CONSTANTS
  e1 = e1 e2 = e2 a = a c = c tsmc = tsmc
  Events = {e1, e2}
  Stamp <- StampOf
  Topic <- TopicOf
  Topics = {tsmc}
  General = General
  Followed = {e1, e2}
  Users <- OnlyUnsending
  Handlers = {a}
  Process <- OneThreadEach
  NoOwner = NoOwner
  NoEvent = NoEvent
  StaleAfter = 1
  LeaseTime = 2
  Trigger = 1
  BatchMax = 2
  Recent = 1
  MaxRows = 2
  Horizon = 0
SPECIFICATION Spec
INVARIANTS UnsentNotInSession
CHECK_DEADLOCK FALSE
