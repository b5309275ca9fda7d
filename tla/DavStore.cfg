SPECIFICATION FairSpec
CONSTANTS
  Pids = {p1, p2}
  Faults = {"http", "kill"}
  ShortReads = FALSE
  KeepsBroken = FALSE
  MaxTime = 2

CHECK_DEADLOCK FALSE
INVARIANTS TypeOK PublishedIntact
PROPERTIES PublishSpec Reappears
