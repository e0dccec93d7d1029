CONSTANTS
  a1 = a1
  a2 = a2
  s1 = s1
  s2 = s2
  Accounts = {a1, a2}
  Workspaces = {w1}
  Users = {u1}
  Links = {l1}
  Flows = {f1}
  Senders = {s1, s2}
  OnAccount <- SendersOn
  Lively = {a1}
  Unreadable = {a2}
  Threshold = 2
  MaxRevocations = 1
  MaxOutages = 1
  MaxRequests = 1
  MaxMishaps = 1
  MaxSpent = 1
  Nowhere = Nowhere
  NoAccount = NoAccount
SPECIFICATION FairSpec
INVARIANTS TypeOK StreaksExpire
PROPERTIES RevivedOnlyInFlight RateLimitedHeals HearsInTheEnd
CHECK_DEADLOCK FALSE
