SPECIFICATION FairSpec
CONSTANTS
  Order = o1
  o1 = o1
  Items = {a, b}
  Price <- MCPrice
  Requests <- MCRequests
  PollJobs = {p1, p2}
  Results = {"Done", "Exception"}
  SlowCalls = FALSE
  MaxRequests = 2
  MaxFaults = 1
  None = None
  a = a
  b = b
  p1 = p1
  p2 = p2
CHECK_DEADLOCK FALSE
INVARIANTS RefundAmountIsDone LoneRefundIsQueued UnrecordedNeedsFault DoneRestsOnPayment RevokedNeedsAnswer RefundedNeedsDone
PROPERTIES RefundSettles RefundKeepsContract
