SPECIFICATION DeskSpec
CONSTANTS
  Workers = {w1, w2, w3}
  Dep = 2
  Arr = 4
  Lead = 1
  MaxDelay = 2
  MaxTime = 6
  ClockWorkers = {w1, w2}
  Crew = {c1, c2}
  NoticeWorkers = {w1}
  ConfirmBy = 1
  ReadBy = 2
  Dashboards = {e1, e2}
INVARIANTS NeverBoth RespondReplyIsTrue AcceptedAtPreserved ToldOnce NoticesMatchPortal StatusTellsStamps
PROPERTIES OverdueArrives DraftStaysSilent
\* A notice that is deleted before its record is written leaves nothing to do.
CHECK_DEADLOCK FALSE
