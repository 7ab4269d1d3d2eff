\* Connects, disconnects and browse requests of two tabs that leave or cancel.
CONSTANTS
  Clients = {a, b}
  Handlers = {h1, h2}
  TabsCancel = TRUE
  Requests = {r1, r2}
  Nodes = {n1}
SPECIFICATION PagesSpec
INVARIANTS
  LostSessionsWereDisturbed
  PointsHaveOneHolder
PROPERTIES
  LeaversAreForgotten
CHECK_DEADLOCK FALSE
