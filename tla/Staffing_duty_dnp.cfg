SPECIFICATION Spec
CONSTANTS
  p1 = p1
  p2 = p2
  Crew = {p1, p2}
  Positions = {"pilot", "cabin"}
  Counted = {"pilot", "cabin"}
  Position <- MCMixed
  Cap <- MCCap
  Requests = {r1}
  Pairs <- MCPairs
  Overrides = {FALSE}
  Workers = {w1}
PROPERTIES DutyKeepsPairsApart
