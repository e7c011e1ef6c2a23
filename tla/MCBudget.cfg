SPECIFICATION Spec
CONSTANTS
  a1 = a1
  x1 = x1
  x2 = x2
  h1 = h1
  Agents = {a1}
  Works = {x1, x2, h1}
  AgentOf <- AllHis
  External = {x1, x2}
  Limits = {2, 3}
  MaxDay = 3
  MaxChanges = 1
  MaxCrashes = 1
INVARIANTS
  OneExternalADay
  NoHalfPaidJob

  
CHECK_DEADLOCK FALSE
