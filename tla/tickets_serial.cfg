SPECIFICATION Spec
CONSTANTS
  TicketIds = {t1, t2}
  Convs = {c1}
  u1 = u1
  a1 = a1
  q1 = q1
  Users = {u1, a1}
  Admins = {a1}
  Queues = {q1}
  UserQueues <- MCUserQueues
  Procs = {p1}
  Requests = {"foc", "store", "update", "touch", "delete", "purge"}
  FromMe = {FALSE}
  ReopenWindow = 0
  MaxNow = 1
  Null = Null
  Keep = Keep
INVARIANTS OpenIsOwned
PROPERTY OwnerIsRespected
SYMMETRY Symmetry
