SPECIFICATION Spec
CONSTANTS
  Crew = {c1, c2}
  Workers = {w1}
INVARIANTS AuditIsBestEffort
