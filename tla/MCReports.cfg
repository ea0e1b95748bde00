SPECIFICATION MCSpec
CONSTANTS
  fa = fa
  fb = fb
  Nil = Nil
  Failures <- MCFailures
  MaxRevision = 2
  MaxReports = 4
  Keep = 0
  da = da
  db = db
  Empty = Empty
  MaxChanges = 3
  MaxKeys = 5
  MaxCrashes = 1
CHECK_DEADLOCK FALSE
INVARIANTS
  SettledOnce QueueContinuesLog
  OneKeyOneSnapshot QuietMeansKnown
PROPERTIES Delivered
