CONSTANTS
  j1 = j1  j2 = j2  j3 = j3  c1 = c1  c2 = c2
  Jobs = {j1, j2}
  Webhooks = {j2}
  Commits = {c1, c2}
  CommitOf <- SameCommit
  ApiProcs = {api}
  Workers = {w1}
  Threaded = FALSE
  Production = FALSE
  MaxRetries = 1
  CrashProne = {w1}
  MaxCrashes = 1
  MaxDbFailures = 0
  MaxFlips = 1
  Free = Free
  NoProc = NoProc
SPECIFICATION FairSpec
PROPERTIES JobsSettle
