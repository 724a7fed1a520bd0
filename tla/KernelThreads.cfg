SPECIFICATION FairSpec
CONSTANT Rounds = 5
INVARIANTS Protected OnlyHalfStartedHurts
PROPERTIES PrintsFinalValues CrashesOnlyLate UnloadFinishes
CHECK_DEADLOCK FALSE
