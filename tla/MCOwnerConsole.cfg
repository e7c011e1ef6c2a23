SPECIFICATION FairSpec
CONSTANTS
  None = None
  p1 = p1
  d1 = d1
  d2 = d2
  Tabs = {p1}
  Dids = {d1, d2}
  Polls = {1}
  MaxTokens = 2
  MaxAgents = 2
  OwnerLimit = 2
  MaxPresses = 4
INVARIANTS
  TypeOK
  ShownAreMine
  RunsWithRecovery
PROPERTIES
  ViewSettles
CHECK_DEADLOCK FALSE
