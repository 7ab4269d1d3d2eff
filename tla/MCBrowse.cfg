\* Three callers with page sizes of their own, interrupted anywhere.
CONSTANTS
  Callers = {c1, c2, c3}
  c1 = c1
  c2 = c2
  c3 = c3
  Limit <- OwnLimits
  Original = 7
  NumChildren = 5
SPECIFICATION FairSpec
INVARIANTS
  OnlyInterruptionLosesField
  OwnPageSize
  PagesAddUp
PROPERTIES
  EveryBrowseEnds
CHECK_DEADLOCK FALSE
