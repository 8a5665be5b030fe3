SPECIFICATION CatalogSpec
CONSTANTS
  Requests = {r1, r2, r3, r4}
  Entries = {1, 2, 3, 4}
  Rows = {11, 12, 13}
  LessonIds = {l1, l2}
  Picks <- MCPicks
  Layouts <- MCLayouts
  FirstEntries = {1, 2}
  Root = 0
  MaxFailures = 1
  NoLesson = NoLesson
  l1 = l1
  l2 = l2
CHECK_DEADLOCK FALSE
SYMMETRY RequestSymmetry
INVARIANTS PositionsHold
