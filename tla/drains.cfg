SPECIFICATION FairSpec
CONSTANTS
  MaxLoads = 2
  Docs = {}
  Sets = {}
  Scopes = {{}}
  Workers = {w1, w2}
  Nobody = Nobody
  MaxAttempts = 1
  RetainLoads = 1
  NoDoc = NoDoc
CHECK_DEADLOCK FALSE
INVARIANT Fenced
PROPERTY Drains
