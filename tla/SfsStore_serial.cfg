SPECIFICATION Spec
CONSTANTS
  p1 = p1
  p2 = p2
  p3 = p3
  Pids <- ThreePids
  Ops = {"update", "build", "prune"}
  LinkModes = {"symlink"}
  FsyncOn = TRUE
  ShortReads = FALSE
  Faults = {"kill", "disk"}
  Alone = {"update", "build", "prune"}
  MaxTime = 2
SYMMETRY Symmetry
CHECK_DEADLOCK FALSE
PROPERTIES BacksUpOlder PruneSparesCurrent
