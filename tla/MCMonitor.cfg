\* A whole call: startup, interruption anywhere, cleanup, stream and close; two
\* chunks in parallel, one of two items, a sliding and a dropping buffer.
CONSTANTS
  NumItems = 3
  Compat <- CompatInterleaved
  MaxItemsPerRequest = 2
  MaxConcurrentRequests = 2
  Startups = {"strict", "bestEffort"}
  Validations = {"none", "access"}
  Policies <- BothPolicies
  InterruptPoints = {"validating", "creating", "cleaning"}
  MaxNotifications = 3
SPECIFICATION FairSpec
INVARIANTS
  OneHolder
  ReportIsTrue
  LeakNeedsInterruptedCleanup
  EveryLossIsAnnounced
  NewestIsKept
PROPERTIES
  CallEnds
  KeepsContract
  RuntimeFailureReachesReader
CHECK_DEADLOCK FALSE
