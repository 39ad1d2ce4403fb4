SPECIFICATION Spec
CONSTANTS
  MaxLoads = 2
  Docs = {d1}
  Sets = {s1}
  Scopes = {{s1}}
  Workers = {w1}
  Nobody = Nobody
  MaxAttempts = 1
  RetainLoads = 2
  NoDoc = NoDoc
CHECK_DEADLOCK FALSE
PROPERTIES SetCurrentOwesRemovals
