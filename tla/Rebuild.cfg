SPECIFICATION FairSpec
CONSTANTS
  Procs = {p1, p2}
  NScripts = 1
  MaxCommit = 1
  MaxTime = 2
  Worlds <- AllWorlds
INVARIANTS TypeOK Complete LabelTrue SettingsKept OnlyLayersStay
PROPERTIES NeverBack UpdatesArrive
CHECK_DEADLOCK FALSE
