SPECIFICATION Spec
CONSTANTS
  p1 = p1
  p2 = p2
  Crew = {p1, p2}
  Positions = {"pilot"}
  Counted = {"pilot"}
  Position <- MCPilots
  Cap <- MCCap
  Requests = {r1, r2}
  Pairs <- MCPairs
  Overrides = {TRUE, FALSE}
  Workers = {w1, w2}
SYMMETRY MCSymmetry
PROPERTIES PairsKeptApart WithinCap RollbackIsOwn
