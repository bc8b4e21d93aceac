\* Three mods that have any of two paths, in chunks of two.
SPECIFICATION Spec
CONSTANTS
  Mods = {"a", "b", "c"}
  Paths = {p, q}
  Order <- MCOrder
  ChunkSize = 2
  None = None
\* Both the pruning and the unmount come to an end.
CHECK_DEADLOCK FALSE
INVARIANTS MapIsTrue PruneIsSafe StackShowsFlat MountsKnown
