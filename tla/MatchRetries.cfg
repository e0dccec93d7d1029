CONSTANTS
  e1 = e1
  e2 = e2
  hi = hi
  lo = lo
  t1 = t1
  t2 = t2
  t3 = t3
  x1 = x1
  x2 = x2
  x3 = x3
  x4 = x4
  customer = customer
  MaxAttempts = 3
  Workers = {w1, w2}
  NoWorker = NoWorker
  Events = {e1, e2}
  Dms = {}
  Sender <- OneCustomer
  Automations = {hi, lo}
  Ranked <- TwoRanked
  Triggered <- CommentTriggers
  ActionIds = {x1, x2, x3, x4}
  Trees = {t1, t2, t3}
  TreeOf <- FirstTrees
  Variants <- EditableTrees
  Plan <- Plans
  Skipped <- NoSkips
  NoEvent = NoEvent
  NoAutomation = NoAutomation
  FaultSites = {"add", "mark", "crash", "stall"}
  MaxFaults = 3
  MaxEdits = 0
  MaxAgeings = 0
  MaxForgets = 0
SPECIFICATION Spec
INVARIANTS TypeOK
PROPERTIES KeepsPromise
SYMMETRY InterchangeableWorkers
CHECK_DEADLOCK FALSE
