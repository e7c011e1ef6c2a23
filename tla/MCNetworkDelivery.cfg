SPECIFICATION MCSpec
CONSTANTS
  None = None
  a1 = a1
  w1 = w1
  w2 = w2
  Agents <- MCAgents
  Works <- MCWorks
  AgentOf <- SameAgent
  Origin <- AwayAndHome
  HomeChoices = {TRUE, FALSE}
  PendingLimit = 5
  MaxChanges = 1
  MaxCrashes = 1
INVARIANTS
  JournalIsTrue
PROPERTIES
  
  PublishesAsPromised
  
CHECK_DEADLOCK FALSE
