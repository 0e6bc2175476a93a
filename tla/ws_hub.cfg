SPECIFICATION FairSpec
CONSTANTS
  Clients = {c1}
  Admins = {}
  Tickets = {t1}
  Pubs = {p1, p2}
  Buffer = 1
  MaxFrames = 2
INVARIANT TypeOK
INVARIANT MapsAgree
INVARIANT NothingMissed
INVARIANT SubscribersWereAllowed
PROPERTY ClosedClientLeaves
CHECK_DEADLOCK FALSE
