SPECIFICATION Spec
CONSTANTS
  Requests = {r1, r2, r3}
  Users = {1, 2}
  Roles = {1, 2}
  Perms = {a, b}
  First = {1}
  OldTokens <- MCTokens
  OldRows <- MCRows
  LastId = 1
  RoleLists <- MCLists
  PermSets <- MCSets
  MaxFaults = 1
  None = None
  a = a
  b = b
  o1 = o1
CHECK_DEADLOCK FALSE
SYMMETRY Symmetry
INVARIANTS TokensEnd PermissionsAreWanted
