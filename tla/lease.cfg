SPECIFICATION Spec
CONSTANTS
  Workers = {w1, w2, w3}
  Nobody = Nobody
  Lease = 9
  HelixTimeout = 4
  RetryBackoff = 8
  ClaimDelay = 1
  Skew = 1
  WriteTime = 2
SYMMETRY WorkerSymmetry
INVARIANTS OneAttempt Fencing
PROPERTIES SettledAtClaim OneWriterAtATime
