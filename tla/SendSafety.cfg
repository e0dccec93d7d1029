CONSTANTS
  m1 = m1
  m2 = m2
  Messages = {m1}
  Workers = {w1, w2}
  NoWorker = NoWorker
  NoKey = NoKey
  MaxAttempts = 2
  MaxRounds = 1
  BatchSize = 2
  Threshold = 2
  Limit = 1
  Outcomes = {"ok", "limited", "refused", "ambiguous", "unreachable", "lost"}
  FaultSites = {"guard", "after", "catch", "crash", "stall", "scan"}
  MaxFaults = 2
  MaxBlocks = 0
SPECIFICATION Spec
INVARIANTS PostedAtMostOnce OneJobPerMessage
SYMMETRY Interchangeable
CHECK_DEADLOCK FALSE
