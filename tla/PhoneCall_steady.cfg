SPECIFICATION Spec
CONSTANTS
  MaxInbox = 2
  MaxWire = 1
  Terminated = FALSE
  Steady = TRUE
INVARIANTS GuardsStable
PROPERTIES ImplementsCall
