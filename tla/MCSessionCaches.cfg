\* Two concurrent operations across two restores, every hierarchy of two types.
CONSTANTS
  Requests = {r1, r2}
  d1 = d1
  d2 = d2
  Types = {d1, d2}
  Targets <- VariableAndMethod
  Reads <- ReadsOf
  TypesOf <- TypesUsed
  Ensures <- EnsuresOf
  MaxRestores = 2
SPECIFICATION FairSpec
INVARIANTS
  CurrentUnlessOverlapped
  OneExtractionPerGeneration
PROPERTIES
  EveryOperationEnds
CHECK_DEADLOCK FALSE
