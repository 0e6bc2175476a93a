SPECIFICATION Spec
CONSTANTS
  p1 = p1
  p2 = p2
  m1 = m1
  m2 = m2
  m3 = m3
  People = {p1, p2}
  Inbox = {m1, m2, m3}
  FromMe = {m2}
  Sent = {}
  Person <- MCPerson
  Forms = {"phone", "both", "lid"}
  Acks = {3}
  ContactIds = {c1, c2, c3}
  TicketIds = {t1, t2}
  Workers = {w1, w2}
  Agents = {"delete"}
  MaxFaults = 1
  None = None
CHECK_DEADLOCK FALSE
SYMMETRY Symmetry
INVARIANTS TypeOK NothingLost RightChat
PROPERTY HistoryImplemented
