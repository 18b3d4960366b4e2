SPECIFICATION FairSpec
CONSTANTS
  MaxInbox = 1
  MaxWire = 1
  Terminated = TRUE
  Steady = FALSE
INVARIANTS Inv
PROPERTIES LegalMoves Answered HungUp Read
