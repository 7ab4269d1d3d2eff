\* A discovery that a restore overtakes, for every hierarchy of two types.
CONSTANTS
  Requests = {r1, r2}
  d1 = d1
  d2 = d2
  Types = {d1, d2}
  Targets <- VariableAndMethod
  Reads <- ReadsOf
  TypesOf <- TypesUsed
  Ensures <- EnsuresOf
  MaxRestores = 1
SPECIFICATION Spec
INVARIANTS
  RestoredMetadataIsCurrent
CHECK_DEADLOCK FALSE
