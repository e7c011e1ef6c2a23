SPECIFICATION MCSpec
CONSTANTS
  o1 = o1
  o2 = o2
  i1 = i1
  i2 = i2
  i3 = i3
  c1 = c1
  q1 = q1
  q2 = q2
  Keep = Keep
  Gone = Gone
  Owners = {o1, o2}
  AgentIds = {i1, i2, i3}
  Configs = {c1}
  Slots = {q1, q2}
  OwnerLimit = 2
  HostLimit = 2
  ChallengeLife = 2
  SessionLife = 1
  MaxChallenges = 2
  MaxRestarts = 1
  MaxTime = 1
SYMMETRY Alike
INVARIANTS
  CapacityKept
  RemovedForGood
  OneSessionPerChallenge
PROPERTIES
  EnabledWithTrust
  AdmittedOnly
CHECK_DEADLOCK FALSE
