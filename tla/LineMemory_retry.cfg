CONSTANTS
  e1 = e1 e2 = e2 a = a c = c tsmc = tsmc
  Events = {e1, e2}
  Stamp <- StampOf
  Topic <- TopicOf
  Topics = {tsmc}
  General = General
  Followed = {}
  Users <- AnyUser
  Handlers = {a, c}
  Process <- OneThreadEach
  NoOwner = NoOwner
  NoEvent = NoEvent
  StaleAfter = 1
  LeaseTime = 1
  Trigger = 1
  BatchMax = 2
  Recent = 1
  MaxRows = 2
  Horizon = 1
SPECIFICATION Spec
INVARIANTS OneRowPerEvent NoSummaryOfForgotten SessionAnswerLive OneAttempt OneCompactor
PROPERTIES HistoryNotSkipped DeliveredStaysDelivered
SYMMETRY Symmetry
CHECK_DEADLOCK FALSE
