SPECIFICATION Spec
CONSTANTS
  Rows = {r1, r2}
  Flights = {f1}
  Workers = {w1}
  None = None
  Faults = TRUE
SYMMETRY MCSymmetry
\* Row ids are used once: when all have been deleted nothing is left to do.
CHECK_DEADLOCK FALSE
INVARIANTS CalledOnce HandoverHappens
PROPERTIES SweepsSpareTheCalled SweepHandlesRejections
