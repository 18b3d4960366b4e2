SPECIFICATION FairSpec
CONSTANTS
  MaxInbox = 1
  MaxWire = 1
  Terminated = TRUE
  Steady = TRUE
PROPERTIES KeyThreadCreated
