SPECIFICATION MCSpec
CONSTANTS
  a1 = a1
  o1 = o1
  Dids = {a1, o1}
  Hosted = {a1}
  MaxTime = 3
  MaxMessages = 3
  MaxNonce = 6
  MaxSetBacks = 2
INVARIANTS
  NoncesIncrease
  RefusedWasOvertaken
CHECK_DEADLOCK FALSE
