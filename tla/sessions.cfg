SPECIFICATION FairSpec
CONSTANTS
  Conns = {c1}
  Gos = {g1, g2}
  Handlers = {h1}
  Inputs = {"stop", "logout", "drop", "evict", "message", "shutdown"}
  None = None
CHECK_DEADLOCK FALSE
INVARIANTS TypeOK WaitGroupExact EventsOnce CleanShutdown
PROPERTIES KilledSessionsEnd
