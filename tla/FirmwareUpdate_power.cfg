SPECIFICATION FairSpec
CONSTANTS
  NoArchive = NoArchive
  Version = {1}
  FirstVersion = 0
  Failures = {}
  MaxCuts = 3
INVARIANTS Inv Kept
PROPERTIES Handover Restored Consumed
