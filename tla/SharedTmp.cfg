\* Two downloads whose destinations differ in the extension only.
SPECIFICATION NoCancelSpec
CONSTANTS
  Jobs = {j1, j2}
  Workers = {w1, w2}
  Chunks = 1
  DestOf <- MCOwnDests
  TmpOf <- MCOneTmp
  None = None
INVARIANTS DestWhole
