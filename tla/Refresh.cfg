\* A new database and one of an earlier session, two clicks and an install.
SPECIFICATION WindowSpec
CONSTANTS
  ProfileIds = {"p1", "p2"}
  ModIds = {"m1"}
  NameOf <- MCNames
  SlugOf <- MCSlugs
  DefaultName = "Default"
  Gtk = gtk
  Worker = worker
  Reloads = {r1, r2}
  Installers = {i1}
  Conns <- MCConns
  None = None
  MaxPriority = 1
\* Every click has been used up and every thread has ended.
CHECK_DEADLOCK FALSE
INVARIANTS StateSound
PROPERTIES StartShown ClickShown
