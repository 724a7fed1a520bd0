SPECIFICATION FairSpec
CONSTANTS
  p1 = p1
  p2 = p2
  p3 = p3
  NoProc = NoProc
  DataLen = 2
  Variants = {TRUE, FALSE}
  Proc <- MCProc
INVARIANTS ExclusionUnlessEarly
PROPERTY WaiterIsServed
