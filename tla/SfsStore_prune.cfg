SPECIFICATION Spec
CONSTANTS
  p1 = p1
  p2 = p2
  p3 = p3
  Pids <- ThreePids
  Ops = {"update", "prune"}
  LinkModes = {"symlink", "plain"}
  FsyncOn = TRUE
  ShortReads = FALSE
  Faults = {}
  Alone = {"update"}
  MaxTime = 2
SYMMETRY Symmetry
CHECK_DEADLOCK FALSE
INVARIANT CurrentResolves
PROPERTIES PruneDeletesOnlyOld PublishSpec
