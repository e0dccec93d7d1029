CONSTANTS
  c = c
  o = o
  b = b
  ref = ref
  dm = dm
  bodyA = bodyA
  bodyB = bodyB
  MaxAttempts = 2
  Workers = {w1}
  NoWorker = NoWorker
  Payloads = {bodyA, bodyB}
  Content <- RefusedLast
  Events = {c, dm, ref, o}
  Postbacks = {}
  Own = {o}
  Refused = {ref}
  Orphans = {dm}
  Handlers = {h1}
  NoPayload = NoPayload
  NoId = NoId
  FaultSites = {"set", "add", "del", "create", "hand", "apiCrash", "crash", "stall"}
  MaxFaults = 1
  MaxDuplicates = 0
  MaxExpiries = 1
  MaxPurges = 0
  MaxDisconnects = 1
  MaxMishaps = 3
SPECIFICATION FairSpec
PROPERTIES EveryEventIsMatched
CHECK_DEADLOCK FALSE
