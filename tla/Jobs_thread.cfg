CONSTANTS
  j1 = j1  j2 = j2  j3 = j3  c1 = c1  c2 = c2
  Jobs = {j1, j2, j3}
  Webhooks = {j2}
  Commits = {c1, c2}
  CommitOf <- OwnCommit
  ApiProcs = {api}
  Workers = {}
  Threaded = TRUE
  Production = FALSE
  MaxRetries = 0
  CrashProne = {api}
  MaxCrashes = 1
  MaxDbFailures = 1
  MaxFlips = 1
  Free = Free
  NoProc = NoProc
SPECIFICATION Spec
PROPERTIES LifecycleSpec
SYMMETRY Symmetry
