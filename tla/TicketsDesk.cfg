CONSTANTS
  c1 = c1
  c2 = c2
  d1 = d1
  t1 = t1
  ann = ann
  bob = bob
  p1 = p1
  m1 = m1
  m2 = m2
  Workers = {w1}
  Agents = {a1, a2}
  Events = {c1, d1}
  People = {ann, bob}
  Posts = {p1}
  Kind <- KindOf
  From <- FromOf
  Post <- PostOf
  Complaint = {c1, d1}
  Reachable = {ann}
  Members <- TeamOf
  Settings <- AllOn
  MaxNumberTries = 5
  Outcomes = {"sent", "failed"}
  StatusEdits = {"WAITING", "RESOLVED"}
  FaultSites = {"assign", "number", "create", "participant", "message", "touch"}
  MaxFaults = 1
  MaxEdits = 2
  MaxReplies = 2
  MaxSyncs = 1
  MaxRemovals = 1
  MaxHours = 1
  MaxSpent = 3
  NoPost = NoPost
  NoEvent = NoEvent
  NoKey = NoKey
  Nobody = Nobody
SPECIFICATION Spec
INVARIANTS DatedWhenResolved TabsCountWhatTheyList
CHECK_DEADLOCK FALSE
