SPECIFICATION Spec
CONSTANTS
  Requests = {r1, r2, r3}
  Keys = {k1}
  OldTickets = {x1}
  OldCodes <- MCCodes
  OldTokens <- MCTokens
  Mobiles = {m1}
  Users = {1, 2}
  Passwords = {p1, p2}
  Ip = Ip
  MaxErr = 1
  MaxFaults = 1
  None = None
  c1 = c1
  c2 = c2
  m1 = m1
  o1 = o1
  o2 = o2
CHECK_DEADLOCK FALSE
SYMMETRY Symmetry
INVARIANTS  LockoutHolds ResetEndsNewest
