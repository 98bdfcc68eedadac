\* One user route: two requests at a time, two revisions over two lists of
\* two places, two sessions.
SPECIFICATION Spec
CONSTANTS
  Clients = {c1, c2}
  Plans = {p1, p2}
  Lists = {p1, p2}
  MaxRevision = 2
  PointCount = 2
  MaxSessions = 2
  None = None

SYMMETRY Symmetry
CHECK_DEADLOCK FALSE
INVARIANTS
  RequestsSeeCurrent
  IndexesMatchPoints
  OpenWalksHaveWork
  OneOpenSession
PROPERTIES
  ImplementsChain
  EndedWalksStayEnded
  SessionsAreFromCurrent
