SPECIFICATION WorkFairSpec
CONSTANT WorkExamples <- AllWorkExamples
INVARIANTS HandlerOwnsData DataIsFreed ReturnsOnlyWhenDone
PROPERTY InitFinishes
CHECK_DEADLOCK FALSE
