CONSTANTS
  own = own
  ann = ann
  bob = bob
  People = {own, ann, bob}
  Founder = own
  Surfer = ann
  Invited = {bob}
  Workspaces = {w0, w1}
  Home = w0
  Requests = {q1, q2}
  Deeds = {d1, d2}
  Tabs = {a, b}
  Calls = {fetch, stream}
  Stream = stream
  MaxRows = 4
  MaxInvites = 3
  MaxSpent = 3
  Nobody = Nobody
  Nowhere = Nowhere
  NoRow = NoRow
  NoInvite = NoInvite
SPECIFICATION FairSpec
INVARIANTS TypeOK OneOwner
PROPERTIES JoinsByPendingInvite SignedOutForACause CallsEnd
CHECK_DEADLOCK FALSE
