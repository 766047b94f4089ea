CONSTANTS
  c1 = c1
  h1 = h1
  k1 = k1
  Ids = {c1, h1, h2}
  Calls = {c1}
  Requests = {h1, h2}
  Commands = {h2}
  Names = {f1, f2}
  Watched = f1
  f1 = f1
  MaxVersions = 3
  Adapters <- TwoAdapters
  Copies = FALSE
  Clients = {k1, k2}
  Follows <- FollowsOne
  MaxConnections = 1
  MaxInputs = 3
SPECIFICATION Spec
CHECK_DEADLOCK FALSE
INVARIANTS
  Faithful
PROPERTIES
  CallsEnd
