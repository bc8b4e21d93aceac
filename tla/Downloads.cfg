\* Two downloads and one retry, without cancellation.
SPECIFICATION NoCancelSpec
CONSTANTS
  Jobs = {j1, j2}
  Workers = {w1, w2, w3}
  Chunks = 2
  DestOf <- MCOwnDests
  TmpOf <- MCOwnTmps
  None = None
SYMMETRY ThreadsAndJobs
INVARIANTS AttemptsSafe
