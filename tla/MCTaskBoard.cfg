SPECIFICATION MCSpec
CONSTANTS
  d1 = d1
  d2 = d2
  t1 = t1
  Dids <- MCDids
  TaskIds <- MCTaskIds
  Leases = {1}
  Expiries <- MCExpiries
  MaxEvents <- MaxEach
  MaxReposts = 1
  RowLimit = 5
  MaxTime = 2
SYMMETRY DidSymmetry
INVARIANTS
  ArchiveInv
  OneHolderAtATime
  ActiveHolderCanSubmit
  DecidedTaskHasItsChain

  
  
CHECK_DEADLOCK FALSE
