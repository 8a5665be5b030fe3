SPECIFICATION FairSpec
CONSTANTS
  Orders = {o1}
  TimeoutJobs = {t1}
  PollJobs = {p1, p2}
  Requests = {r1}
  InvalidGoods = {}
  SlowCalls = FALSE
  MaxFaults = 2
  MaxAge = 2
  None = None
  o1 = o1
  r1 = r1
  t1 = t1
  t2 = t2
  p1 = p1
  p2 = p2
CHECK_DEADLOCK FALSE
INVARIANTS LockExclusive DuplicateNeedsFault CancelledUndelivered
PROPERTIES StatusSettlesOnce WaitingSettles PollEnds
