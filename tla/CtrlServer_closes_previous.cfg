SPECIFICATION Spec
CONSTANTS
  Conn = {c1, c2}
  Fd = {5, 6, 7}
  ListenFd = 4
  MaxRx = 1
  Patient = FALSE
  None = None
SYMMETRY Symmetry
PROPERTIES ClosesPrevious
\* Connections are a bounded supply and the process may exit.
CHECK_DEADLOCK FALSE
