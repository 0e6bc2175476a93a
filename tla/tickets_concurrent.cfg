SPECIFICATION FairSpec
CONSTANTS
  TicketIds = {t1, t2}
  Convs = {c1}
  u1 = u1
  a1 = a1
  q1 = q1
  Users = {u1}
  Admins = {}
  Queues = {}
  UserQueues <- NoUserQueues
  Procs = {p1, p2}
  Requests = {"foc", "store", "update", "delete", "purge", "crash"}
  FromMe = {TRUE}
  ReopenWindow = 0
  MaxNow = 0
  Null = Null
  Keep = Keep
INVARIANTS TypeOK InboundUnique
PROPERTIES SlotsImplemented FindOrCreateReturns
