SPECIFICATION FairSpec
CONSTANTS
  MaxRows = 3
  MaxRefresh = 2
CHECK_DEADLOCK FALSE
INVARIANTS TypeOK NoLostWakeup IconsFit Complete
PROPERTY RowsSettle
