SPECIFICATION FairSpec
CONSTANTS
  MaxFires = 4
  Examples <- AllExamples
INVARIANTS NothingIsPending TaskletHasData ReportsOwnName
PROPERTY UnloadFinishes
CHECK_DEADLOCK FALSE
