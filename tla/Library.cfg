\* Nine parts that share no state; each stops when its bounds are used up.
SPECIFICATION Spec
CONSTANTS
  None = None
  Sections = {"Gen", "gen", "Vid"}
  Keys = {"k", "K", "L"}
  Lower <- MCLower
  Values = {0, 1}
  Texts <- MCTexts
  MaxSets = 2
  Top = Top
  Overrides = "overrides"
  Dlls <- MCDlls
  Native = "native"
  Registries <- MCRegistries
  MaxOverrides = 2
  Nowhere = Nowhere
  Manifests <- MCManifests
  KnownApps = {"skyrim", "fallout"}
  Loaders = {t1, t2}
  MaxChanges = 2
  MaxRestarts = 1
  Saves = {"s1", "s2"}
  Loose = {"f1", "f2", "f3"}
  Categories <- MCCategories
  Matching <- MCMatching
  Uncategorized = Uncategorized
  MaxGame = 3
  MaxScans = 1
  Profiles = {"p", "q"}
  Inis = {"i1", "i2"}
  Contents = {0, 1}
  MaxCalls = 3
  MaxWrites = 1
  Torn = Torn
  ModOrder <- MCModOrder
  DllFiles <- MCDllFiles
  SePlugins = {d1}
  Libs <- MCLibs
  GameVersions = {1}
  Ids = {"p", "q", "r"}
  Mods <- MCMods
  OverviewRows = 1
  MaxClicks = 2
  Files <- MCFiles
  Toolchains = {"1.80", "1.81"}
  Host = "1.81"
  Versions <- MCVersions
  Api <- MCApi
  Absent = Absent
  Bad = Bad
  Kernels <- MCKernels
  m1 = m1
  m2 = m2
  m3 = m3
  d1 = d1
  d2 = d2
CHECK_DEADLOCK FALSE
INVARIANTS SetSticks OverridesHold OneGame ScansTrue SwitchTrue SeConflictsExact PagesHold PluginFilesSound BackendSound
PROPERTIES OthersUntouched
