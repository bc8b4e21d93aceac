\* One thread: each operation of the mod list, of the settings and of the search
\* page runs to its end, and the user stops when MaxActs and MaxSearches are used up.
SPECIFICATION PagesSpec
CONSTANTS
  ProfileIds = {"p1", "p2"}
  ModIds = {"m1", "m2", "m3"}
  NameOf <- MCNames
  SlugOf <- MCSlugs
  DefaultName = "Default"
  Conns = {c1}
  None = None
  MaxPriority = 4
  UserThemes = {"mine"}
  Paths = {p}
  Keys = {old, new}
  OldKey = old
  MaxActs = 5
  Games = {g, h}
  MaxSearches = 2
  Unset = Unset
  Absent = Absent
  Broken = Broken
CHECK_DEADLOCK FALSE
INVARIANTS PositionsAreVecs SettingsKept AnswersMatch
PROPERTIES ListsKept ListsAreVecs SpinnerStops
