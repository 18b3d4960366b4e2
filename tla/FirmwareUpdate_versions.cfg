SPECIFICATION Spec
CONSTANTS
  NoArchive = NoArchive
  Version = {1, 2}
  FirstVersion = 40000
  Failures = {"mv", "env", "card", "script"}
  MaxCuts = 1
PROPERTIES VersionGrows LostToBootLoader
