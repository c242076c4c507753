SPECIFICATION Spec
CONSTANTS
  w1 = w1
  w2 = w2
  visitor = visitor
  waiter = waiter
  NoWriter = NoWriter
  Writers <- WritersVal
  Visitors <- VisitorsVal
  Waiters <- WaitersVal
  Page = 2
  MaxEvents = 3
  MaxBreaks = 3
INVARIANTS
  WaiterGetsOneRun
PROPERTIES
  EveryEventArrives
  ReadersFollowTheLog
CHECK_DEADLOCK FALSE
