SPECIFICATION Spec
CONSTANTS
  File = {f1, f2}
  EEP_NBANK = 3
  Drivers <- AllDrivers
INVARIANTS NoLeak ReleasesWhatItHolds Backed StrandedOnlyByEarlyCdev
