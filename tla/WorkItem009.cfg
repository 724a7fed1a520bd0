SPECIFICATION WorkSpec
CONSTANT WorkExamples <- Only009
INVARIANT NoUseAfterFree
CHECK_DEADLOCK FALSE
