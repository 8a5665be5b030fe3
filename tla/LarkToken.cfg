SPECIFICATION FairSpec
CONSTANTS
  Callers = {c1, c2}
  Tokens = {t1, t2, t3}
  Life = 6
  Renew = 5
  Margin = 3
  LockTime = 3
  Wait = 1
  CallTime = 1
  MaxFaults = 2
  None = None
INVARIANTS OneFetches MessageOutcome
PROPERTIES SendEnds
