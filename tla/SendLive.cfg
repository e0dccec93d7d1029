CONSTANTS
  m1 = m1
  m2 = m2
  Messages = {m1, m2}
  Workers = {w1}
  NoWorker = NoWorker
  NoKey = NoKey
  MaxAttempts = 1
  MaxRounds = 1
  BatchSize = 2
  Threshold = 6
  Limit = 1
  Outcomes = {"ok", "limited"}
  FaultSites = {"guard", "after", "catch", "crash", "stall", "scan"}
  MaxFaults = 1
  MaxBlocks = 1
SPECIFICATION FairSpec
INVARIANTS TypeOK LoggedAsItEnded
PROPERTIES EverySendSettles
CHECK_DEADLOCK FALSE
