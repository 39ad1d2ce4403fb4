SPECIFICATION Spec
CONSTANTS
  MaxLoads = 3
  Docs = {}
  Sets = {s1}
  Scopes = {{s1}}
  Workers = {w1}
  Nobody = Nobody
  MaxAttempts = 2
  RetainLoads = 2
  NoDoc = NoDoc
CHECK_DEADLOCK FALSE
INVARIANTS JobAndLoadsAgree CurrentServes ReleasedOnlyWhenEmpty
PROPERTIES RefreshNeverOverrules
