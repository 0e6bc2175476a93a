SPECIFICATION FairSpec
CONSTANTS
  p1 = p1
  p2 = p2
  m1 = m1
  m2 = m2
  m3 = m3
  People = {p1}
  Inbox = {m1, m2}
  FromMe = {m2}
  Sent = {m3}
  Person <- MCPerson
  Forms = {"both"}
  Acks = {3}
  ContactIds = {c1}
  TicketIds = {t1}
  Workers = {w1, w2}
  Agents = {"close"}
  MaxFaults = 1
  None = None
CHECK_DEADLOCK FALSE
PROPERTIES UpsertKeepsAck EveryMessageStored
