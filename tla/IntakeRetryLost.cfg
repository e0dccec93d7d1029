CONSTANTS
  c = c
  o = o
  b = b
  ref = ref
  dm = dm
  bodyA = bodyA
  bodyB = bodyB
  MaxAttempts = 2
  Workers = {w1}
  NoWorker = NoWorker
  Payloads = {bodyA}
  Content <- PairContent
  Events = {c}
  Postbacks = {b}
  Own = {}
  Refused = {}
  Orphans = {}
  Handlers = {h1}
  NoPayload = NoPayload
  NoId = NoId
  FaultSites = {"hand"}
  MaxFaults = 1
  MaxDuplicates = 0
  MaxExpiries = 0
  MaxPurges = 0
  MaxDisconnects = 0
  MaxMishaps = 1
SPECIFICATION Spec
INVARIANTS NoEventVanishes
CHECK_DEADLOCK FALSE
