\* The same calls against the promise of monitoring.md 91.
CONSTANTS
  NumItems = 3
  Compat <- CompatAll
  MaxItemsPerRequest = 1
  MaxConcurrentRequests = 2
  Startups = {"strict"}
  Validations = {"none"}
  Policies <- OnlyDropping
  InterruptPoints = {"creating", "cleaning"}
  MaxNotifications = 0
SPECIFICATION Spec
INVARIANTS
  NoGroupOutlivesScope
CHECK_DEADLOCK FALSE
