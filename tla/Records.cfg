SPECIFICATION RecordsSpec
CONSTANTS
  Staff = {c1}
  Legs = {"l1", "l2"}
  Dep <- MCDep
  Arr <- MCArr
  Abroad = {"l2"}
  MonthEnd = 1440
  Rates <- MCRates
  Amounts = {1}
  Payers = {p1}
  Members = {m1}
  Ops = ops
  Workers = {w1}
  Horizon = 3
  Urgent = 1
  Cooldown = 2
  FollowCooldown = 1
  Day = 2
  Delays = {1}
  Faults = TRUE
  MaxTime = 6
  Papers = {d1, d2}
  Window = 2
  CoolDays = 2
  Renewals = {1, 4}
  LastDay = 3
  Scanners = {e1}
  Sectors = {"s1", "s2"}
  Std <- MCStd
  Block <- MCBlock
  Days = 2
  Moments = {1, 2}
  SetHours = {9}
  Queries = {"half"}
  Ttl = 1
  Tracked = {"s1"}
  Servers = {"v1", "v2"}
  Defects = {b1, b2}
  Engineers = {e1, e2}
  Wishes = {"day", "night"}
  Clerks = {e1, e2}
  Articles = {a1}
  Critical = {"rest"}
  Drafts <- MCDrafts
  Changes <- MCChanges
  Editors = {e1, e2}
INVARIANTS SlipAddsUp RemindersSpaced PendingIsReminded DocRemindersSpaced HoursAgree MatrixIsRecent GroundedTailsStay ReviewIsTold LockHolds WeakIsSanctioned
PROPERTIES FinalizedStands
\* On the last day, with every document deleted, nothing is left to do.
CHECK_DEADLOCK FALSE
