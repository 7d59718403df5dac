SPECIFICATION FairSpec
CONSTANTS
  captain = captain
  hostess = hostess
  Crew <- MCCrew
  Captains <- MCCaptains
  Pilots <- MCPilots
  Cabin <- MCCabin
  NeedPilots = 1
  NeedCabin = 0
  NoReg = NoReg
  Docs = {d1, d2}
  Workers = {w1}
  Faults = FALSE
  MaxVersion = 2
INVARIANTS TypeOK GDFresh OneContentPerVersion
PROPERTIES DownloadCleared DecisionsCleared ImplementsOfficialGd DriftIsFlagged
