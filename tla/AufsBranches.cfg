SPECIFICATION Spec
CONSTANTS
  p1 = p1
  p2 = p2
  p3 = p3
  Procs <- ThreeProcs
  NComps = 2
  MaxVer = 2
  Modes <- AllModes
  Faults = {"busy", "kill"}
SYMMETRY Symmetry
CHECK_DEADLOCK FALSE
INVARIANTS TypeOK NoGap LayersKept StackMounted
PROPERTY NeverOlder
