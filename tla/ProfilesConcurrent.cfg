\* Two threads over two profiles and two mods.
SPECIFICATION Spec
CONSTANTS
  ProfileIds = {"p1", "p2"}
  ModIds = {m1, m2}
  NameOf <- MCNames
  SlugOf <- MCOwnSlugs
  DefaultName = "Default"
  Conns = {c1, c2}
  None = None
  MaxPriority = 2
SYMMETRY ThreadsAndMods
INVARIANTS TablesConsistent PlansAreDense
