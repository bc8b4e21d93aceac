\* One download, cancelled and retried at any point through rows that may be old.
SPECIFICATION PageSpec
CONSTANTS
  Jobs = {j1}
  Workers = {w1, w2}
  Chunks = 1
  DestOf <- MCOwnDests
  TmpOf <- MCOwnTmps
  None = None
  MaxReloads = 2
INVARIANTS StatusTrue
PROPERTIES RowsSettle LinksEnd
