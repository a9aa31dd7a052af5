CONSTANTS
  j1 = j1  j2 = j2  j3 = j3  c1 = c1  c2 = c2
  Jobs = {j1, j2}
  Webhooks = {j2}
  Commits = {c1, c2}
  CommitOf <- SameCommit
  ApiProcs = {api}
  Workers = {w1, w2}
  Threaded = FALSE
  Production = TRUE
  MaxRetries = 1
  CrashProne = {w1, w2}
  MaxCrashes = 1
  MaxDbFailures = 1
  MaxFlips = 1
  Free = Free
  NoProc = NoProc
SPECIFICATION Spec
INVARIANTS TypeOK PipelineMutex LockBacksPipeline OneActiveJobUnlessRaced RowTellsTruth
SYMMETRY Symmetry
