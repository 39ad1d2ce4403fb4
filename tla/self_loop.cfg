SPECIFICATION Spec
CONSTANTS
  hub = hub
  leaf = leaf
  o1 = o1
  Nodes = {hub, leaf}
  Src <- From
  Dst <- To
  Big <- NoSides
  Dense <- NoSides
  Veiled <- NoSides
  Hubs = {leaf, hub}
  Rows <- OneRow
  Slots = {o1}
  Cap = 2
  Limit = 2
  PageSize = 1
  ConnectBudget = 1
  MaxRequests = 2
  MaxAsks = 2
INVARIANT PagesSkipNothing
CHECK_DEADLOCK FALSE
