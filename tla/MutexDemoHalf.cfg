SPECIFICATION Spec
CONSTANT Rounds = 1
INVARIANT NotFreedWhileLocked
CHECK_DEADLOCK FALSE
