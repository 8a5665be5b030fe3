SPECIFICATION FairSpec
CONSTANTS
  Orders = {o1, o2}
  TimeoutJobs = {t1}
  PollJobs = {p1}
  Requests = {}
  InvalidGoods = {o2}
  SlowCalls = FALSE
  MaxFaults = 0
  MaxAge = 2
  None = None
  o1 = o1
  o2 = o2
  t1 = t1
  t2 = t2
  p1 = p1
  p2 = p2
CHECK_DEADLOCK FALSE
PROPERTIES ImplementsContract WaitingSettles PollEnds
