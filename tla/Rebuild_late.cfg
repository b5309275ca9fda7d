SPECIFICATION FairSpec
CONSTANTS
  Procs = {p1, p2}
  NScripts = 1
  MaxCommit = 1
  MaxTime = 2
  Worlds <- LateWorlds
PROPERTY EveryCommitArrives
CHECK_DEADLOCK FALSE
