SPECIFICATION Spec
CONSTANTS
  captain = captain
  hostess = hostess
  Crew <- MCCrew
  Captains <- MCCaptains
  Pilots <- MCPilots
  Cabin <- MCCabin
  NeedPilots = 1
  NeedCabin = 1
  NoReg = NoReg
  Docs = {d1, d2}
  Workers = {w1}
  Faults = TRUE
  MaxVersion = 2
INVARIANTS IssuedWasApproved VersionCountsApprovals
