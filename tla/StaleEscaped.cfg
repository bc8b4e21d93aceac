\* A game whose directory has a space in its name: what teardown_stale leaves.
SPECIFICATION Spec
CONSTANTS
  Mods = {"a", "b"}
  Paths <- MCPaths
  FilesOf <- MCFilesOf
  GameFiles <- MCGameFiles
  Kinds = {"kernel"}
  MaxMounts = 2
  Escaped = TRUE
  None = None
INVARIANTS StaleRemoved
