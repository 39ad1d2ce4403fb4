SPECIFICATION Spec
CONSTANTS
  hub = hub
  leaf = leaf
  o1 = o1
  Nodes = {hub, leaf}
  Src <- From
  Dst <- To
  Big <- ManyNeighbors
  Dense <- NoSides
  Veiled <- ManyNeighbors
  Hubs = {leaf, hub}
  Rows <- OneRow
  Slots = {o1}
  Cap = 2
  Limit = 2
  PageSize = 1
  ConnectBudget = 1
  MaxRequests = 2
  MaxAsks = 2
INVARIANT LargeSidesAreConfirmed
CHECK_DEADLOCK FALSE
