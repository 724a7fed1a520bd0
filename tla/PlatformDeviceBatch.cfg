SPECIFICATION Spec
CONSTANTS
  d1 = d1
  d2 = d2
  d3 = d3
  d4 = d4
  AUTO = AUTO
  NONE = NONE
  Dev <- MCDev
  Batch <- MCBatch
  Id <- MCId
  IdOf <- MCIdOf
  Res <- MCRes
INVARIANT FailedBatchIsPut
