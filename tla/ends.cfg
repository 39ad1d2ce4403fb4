SPECIFICATION FairSpec
CONSTANTS
  MaxLoads = 1
  Docs = {d1}
  Sets = {s1, s2}
  Scopes = {{s1}}
  Workers = {w1}
  Nobody = Nobody
  MaxAttempts = 2
  RetainLoads = 1
  NoDoc = NoDoc
CHECK_DEADLOCK FALSE
PROPERTIES OwedIsServed LoadsEnd LeavesOnlyOnceOut
