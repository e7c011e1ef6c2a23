SPECIFICATION FairSpec
CONSTANTS
  Loop = Loop
  Worker = Worker
  Chatter <- SecondIsChatter
  PageLimit = 2
  MaxSeq = 4
  MaxCrashes = 1
INVARIANTS
  NoSilentLoss
PROPERTIES
  BackfillIsAnnounced
  EventuallyArchived
CHECK_DEADLOCK FALSE
