SPECIFICATION UpdaterSpec
CONSTANTS
  u1 = u1
  u2 = u2
  Runs = {u1, u2}
  Open = {u2}
  MaxKills = 2
INVARIANTS
  UpdaterTypeOK
  OldKept
  AllOrNothing
  RunsWhole
CHECK_DEADLOCK FALSE
