SPECIFICATION FairSpec
CONSTANTS
  p1 = p1
  p2 = p2
  p3 = p3
  Pids <- TwoPids
  Ops = {"update", "prune"}
  LinkModes = {"plain", "eperm"}
  FsyncOn = TRUE
  ShortReads = FALSE
  Faults = {"kill", "power"}
  Alone = {}
  MaxTime = 2

CHECK_DEADLOCK FALSE
INVARIANT PublishedIntact
PROPERTY Reappears
