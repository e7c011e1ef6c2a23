SPECIFICATION WorkerSpec
CONSTANTS
  a1 = a1
  a2 = a2
  r = r
  t1 = t1
  t2 = t2
  Dids <- TwoAgentsDids
  TaskIds <- OneTask
  Leases <- OneLease
  Expiries <- NoExpiry
  MaxEvents <- Contested
  MaxReposts = 0
  RowLimit = 10
  MaxTime = 2
  Agents <- TwoAgents
  CreatedAt <- FirstA1
  Suits <- SuitsAll
  WorkerLease = 1
  TasksPerDay = 2
  DayLength = 5
  Requesters <- OnlyR
  Rivals <- OnlyR
  MaxPauses = 0
  MaxCrashes = 1
INVARIANTS
  ExclusiveExecutions
  NoDoubleWork
  
CHECK_DEADLOCK FALSE
