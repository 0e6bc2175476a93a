SPECIFICATION Spec
CONSTANTS
  c1 = c1
  c2 = c2
  r1 = r1
  r2 = r2
  s1 = s1
  Conns = {c1, c2}
  Reqs = {r1, r2}
  Settings = {blank, s1}
  Blank = blank
  Workloads <- MCWorkloads
  None = none
INVARIANTS TypeOK StatusIsTold
PROPERTIES DefaultKept
CHECK_DEADLOCK FALSE
