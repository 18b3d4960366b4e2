SPECIFICATION Spec
CONSTANTS
  NoArchive = NoArchive
  Version = {1}
  FirstVersion = 0
  Failures = {}
  MaxCuts = 1
INVARIANTS OnlyVerified
