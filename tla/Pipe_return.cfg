CONSTANTS
  p1 = p1  p2 = p2
  Paths = {p1, p2}
  Nested = {}
  Contents = {a, b}
  Absent = Absent  Empty = Empty
  NoHash = NoHash
  Commits = {c1, c2}
  NoCommit = NoCommit
  MaxRuns = 3  MaxEdits = 2  MaxFaults = 0
SPECIFICATION Spec
CHECK_DEADLOCK FALSE
SYMMETRY PathSymmetry
INVARIANT UpToDateIsTrue
