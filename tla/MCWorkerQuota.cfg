SPECIFICATION WorkerSpec
CONSTANTS
  a1 = a1
  a2 = a2
  r = r
  t1 = t1
  t2 = t2
  Dids <- TwoAgentsDids
  TaskIds <- TwoTasks
  Leases <- OneLease
  Expiries <- NoExpiry
  MaxEvents <- TwoJobs
  MaxReposts = 0
  RowLimit = 10
  MaxTime = 2
  Agents <- TwoAgents
  CreatedAt <- FirstA1
  Suits <- SuitsFewer
  WorkerLease = 1
  TasksPerDay = 1
  DayLength = 1
  Requesters <- OnlyR
  Rivals = {}
  MaxPauses = 1
  MaxCrashes = 0
INVARIANTS
  DailyQuota
  
CHECK_DEADLOCK FALSE
