SPECIFICATION FairSpec
CONSTANTS
  Conn = {c1, c2, c3}
  Fd = {5, 6}
  ListenFd = 4
  MaxRx = 2
  Patient = TRUE
  None = None
INVARIANTS Inv
PROPERTIES ImplementsLink ClosesPrevious ClosesDisconnected Released
\* Connections are a bounded supply and the process may exit.
CHECK_DEADLOCK FALSE
