SPECIFICATION MCSpec
CONSTANTS
  a1 = a1
  a2 = a2
  m1 = m1
  m2 = m2
  stranger = stranger
  None = None
  Agents = {a1, a2}
  Msgs = {m1, m2}
  Room <- OneOut
  Sender <- OneSender
  Jobs = {m1}
  Cooldown = 2
  MaxAge = 2
  InviteGap = 2
  Silence = 2
  MaxTime = 3
  MaxChanges = 1
  MaxCrashes = 1
  MaxSetBacks = 1
  MaxEvents = 2
  MaxFaults = 1
INVARIANTS
  Spacing
  
  ChecksApart

  
SYMMETRY ScanSymmetry
CHECK_DEADLOCK FALSE
