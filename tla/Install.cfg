\* One install crashes or fails at any step, another runs at the same time or
\* after it.  The system stops when both installs have ended.
SPECIFICATION Spec
CONSTANTS
  Names <- MCNames
  LowerOf <- MCLowerOf
  TmpOf <- MCTmpOf
  Packed <- MCPacked
  Archives <- MCArchives
  SlugOf <- MCSlugOf
  Installs = {1, 2}
  Unreadable = {"y.bsa"}
  Root = Root
  None = None
CHECK_DEADLOCK FALSE
INVARIANTS InstalledIsKnown
PROPERTIES FoldKeepsFiles InstallEnds
