SPECIFICATION Spec
CONSTANTS
  Flights <- MCFlights
  Schedule <- MCSchedule
  Domestic = {"BGW", "BSR", "NJF"}
  Types = {"B738"}
  FdpRules <- MCFdpRules
  MinRest = 20
  MaxTurn = 6
  MonthLimit = 14
  RollingLimit = 16
  YearLimit = 1800
  MonthDays = 30
  YearDays = 360
  Clauses <- MCClauses
  Instants <- MCInstants
  Expiries = {5, 20, 60}
  Documents <- MCDocuments
  Duties <- MCDuties
  Cancellable = {"f2"}
  Ridden = {"f5"}
  MaxRoster = 3
INVARIANTS SinglesDontOverlap DutyWithinFdp ScreensAgree AdviceHolds
PROPERTIES MonthCapAtAssign
