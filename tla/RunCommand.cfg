SPECIFICATION FairSpec
CONSTANTS
  Capacity = 1
  MaxUnits = 2
  ShowOutput = FALSE
  Forks = TRUE
CHECK_DEADLOCK FALSE
INVARIANTS TypeOK Complete DecodesWhole
PROPERTY Termination
