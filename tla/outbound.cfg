SPECIFICATION Spec
CONSTANTS
  txt = txt
  f1 = f1
  f2 = f2
  m1 = m1
  m2 = m2
  m3 = m3
  pick = pick
  api = api
  Picks = {pick}
  Loads <- MCLoads
  Rows = {txt, f1, f2}
  Files <- MCFiles
  Menus <- MCMenus
  Handlers = {h1, h2}
  MaxFaults = 2
  Budget <- MCBudget
  None = none
INVARIANTS TypeOK RecordedWasSent RefusedIsUnsent RepeatNeedsFault FilesInOrder OthersAreOrphans MenuNotLost
SYMMETRY Symmetry
CHECK_DEADLOCK FALSE
