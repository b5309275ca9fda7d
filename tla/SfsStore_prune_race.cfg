SPECIFICATION Spec
CONSTANTS
  p1 = p1
  p2 = p2
  p3 = p3
  Pids <- ThreePids
  Ops = {"update", "prune"}
  LinkModes = {"symlink"}
  FsyncOn = TRUE
  ShortReads = FALSE
  Faults = {}
  Alone = {}
  MaxTime = 1
SYMMETRY Symmetry
CHECK_DEADLOCK FALSE
PROPERTY PruneDeletesOnlyOld
