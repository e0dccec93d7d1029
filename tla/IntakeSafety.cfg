CONSTANTS
  c = c
  o = o
  b = b
  ref = ref
  dm = dm
  bodyA = bodyA
  bodyB = bodyB
  MaxAttempts = 2
  Workers = {w1, w2}
  NoWorker = NoWorker
  Payloads = {bodyA}
  Content <- TwoEntries
  Events = {c}
  Postbacks = {b}
  Own = {}
  Refused = {}
  Orphans = {}
  Handlers = {h1, h2}
  NoPayload = NoPayload
  NoId = NoId
  FaultSites = {"set", "add", "del", "create", "hand", "apiCrash", "crash", "stall"}
  MaxFaults = 2
  MaxDuplicates = 1
  MaxExpiries = 1
  MaxPurges = 1
  MaxDisconnects = 1
  MaxMishaps = 4
SPECIFICATION Spec
INVARIANTS TypeOK HandoverInv HandedAtMostOnce AckMeansTaken OnlyCutsLoseRows
CHECK_DEADLOCK FALSE
SYMMETRY Interchangeable
