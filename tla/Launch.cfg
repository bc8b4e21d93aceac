\* Two mods with one file in common, on each kind of machine; the user stops after
\* MaxClicks clicks and one launch, and every thread of theirs has then ended.
SPECIFICATION ReadySpec
CONSTANTS
  Mods = {"a", "b"}
  Paths <- MCPaths
  FilesOf <- MCFilesOf
  GameFiles <- MCGameFiles
  Kinds = {"kernel", "fuse", "symlink"}
  MaxMounts = 2
  Escaped = FALSE
  None = None
  Jobs = {1, 2}
  SeFiles = {loader, dll}
  Loader = loader
  MaxVersion = 2
  MaxRetries = 1
  MaxClicks = 2
  Bad = Bad
  Torn = Torn
CHECK_DEADLOCK FALSE
INVARIANTS WinnersShown DataTracked VersionsTrue
PROPERTIES HandlerReturns ButtonReturns
