SPECIFICATION FairSpec
CONSTANTS
  Conn = {c1, c2}
  Fd = {5, 6, 7}
  ListenFd = 4
  MaxRx = 2
  Patient = FALSE
  None = None
PROPERTIES LeakOrigin Served
\* Connections are a bounded supply and the process may exit.
CHECK_DEADLOCK FALSE
