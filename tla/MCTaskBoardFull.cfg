SPECIFICATION Spec
CONSTANTS
  d1 = d1
  d2 = d2
  t1 = t1
  Dids <- MCDids
  TaskIds <- MCTaskIds
  Leases = {1, 2}
  Expiries <- MCExpiries
  MaxEvents <- MaxDecided
  MaxReposts = 1
  RowLimit = 3
  MaxTime = 2
SYMMETRY DidSymmetry
INVARIANTS
  EveryEventCounts
CHECK_DEADLOCK FALSE
