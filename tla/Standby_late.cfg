SPECIFICATION Spec
CONSTANTS
  Rows = {r1, r2}
  Flights = {f1}
  Workers = {w1}
  None = None
  Faults = FALSE
\* Row ids are used once: when all have been deleted nothing is left to do.
CHECK_DEADLOCK FALSE
PROPERTIES MovedCallIsClosed
