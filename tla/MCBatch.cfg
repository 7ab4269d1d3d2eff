\* Up to five entries in chunks of two, two requests at a time.
CONSTANTS
  n1 = n1
  n2 = n2
  n3 = n3
  n4 = n4
  n5 = n5
  Records <- SomeRecords
  Nodes = {n1, n2, n3, n4, n5}
  MaxItemsPerRequest = 2
  MaxConcurrentRequests = 2
SPECIFICATION FairSpec
INVARIANTS
  LocalFailureSendsNothing
  ResultsMatchKeys
PROPERTIES
  NothingSentAfterFailure
CHECK_DEADLOCK FALSE
