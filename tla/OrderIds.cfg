SPECIFICATION Spec
CONSTANTS
  Nodes = {n1, n2}
  Calls = {c1, c2}
  WorkerIDMax = 2
  sequenceMask = 1
  TTL = 4
  RenewTick = 2
  Pause = 1
  MaxRetry = 2
  Skew = 1
  Delay = 1
  ClockSetAsleep = FALSE
  MaxTime = 6
  MaxIds = 3
  MaxFaults = 2
  None = None
  n1 = n1
  n2 = n2
  c1 = c1
  c2 = c2
CHECK_DEADLOCK FALSE
SYMMETRY IdSymmetry
INVARIANTS Unique LeaseKept
PROPERTIES IdsIncrease
