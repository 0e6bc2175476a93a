SPECIFICATION FairSpec
CONSTANTS
  c1 = c1
  c2 = c2
  r1 = r1
  r2 = r2
  s1 = s1
  Conns = {c1}
  Reqs = {r1}
  Settings = {blank, s1}
  Blank = blank
  Workloads <- MCOrphans
  None = none
PROPERTIES OrphanIsEnded
CHECK_DEADLOCK FALSE
