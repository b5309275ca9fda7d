SPECIFICATION Spec
CONSTANTS
  p1 = p1
  p2 = p2
  p3 = p3
  Pids <- TwoPids
  Ops = {"update", "build"}
  LinkModes = {"symlink"}
  FsyncOn = TRUE
  ShortReads = FALSE
  Faults = {"kill"}
  Alone = {}
  MaxTime = 2
SYMMETRY Symmetry
CHECK_DEADLOCK FALSE
INVARIANTS TypeOK PublishedIntact CurrentResolves CopyKept
PROPERTY PublishSpec
