SPECIFICATION Spec
CONSTANTS
  Requests = {r1, r2, r3}
  Categories = {1, 2, 3, 4, 5}
  LessonIds = {1, 2}
  Videos = {v1, v2, v3}
  Lists <- MCLists
  Sorts = {1}
  Tree <- MCTree
  Films <- MCFilms
  Root = 0
  MaxFaults = 1
  None = None
  v1 = v1
CHECK_DEADLOCK FALSE
SYMMETRY RequestSymmetry
INVARIANTS TreeIsWhole VideosMatch
