\* Three files, two threads that publish, at most two events.
SPECIFICATION Spec
CONSTANTS
  Dir <- MCDir
  Scripts = {"b.rhai"}
  IdOf <- MCIdOf
  Asks <- MCAsks
  Values <- MCValues
  Publishers = {t1, t2}
  MaxPublish = 2
  None = None
\* The registry has been dropped and the publishers have nothing left to say.
CHECK_DEADLOCK FALSE
INVARIANTS RegistryHolds ContextsCurrent
PROPERTIES CallsReturn
