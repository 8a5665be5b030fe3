SPECIFICATION Spec
CONSTANTS
  Customers = {u1, u2}
  Courses = {c1, c2}
  Prices = {100, 150}
  Terms = {1, 2}
  First <- MCFirst
  Quotes = {q1}
  Orders = {o1, o2}
  Amounts = {100}
  QuoteTime = 1
  CalcTime = 1
  MaxTime = 2
  MaxUpdates = 1
  MaxFaults = 1
  None = None
  c1 = c1
  c2 = c2
  u1 = u1
  u2 = u2
CHECK_DEADLOCK FALSE
SYMMETRY Symmetry
INVARIANTS SoldAsQuoted AccessIsBought
PROPERTY PurchaseKeepsContract
