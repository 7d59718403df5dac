------------------------------ MODULE Records ------------------------------
(***************************************************************************)
(* The records of a crew and its aircraft in one instance: the payslips    *)
(* (Payroll), the acceptance reminders (Reminders), the documents and      *)
(* their reminders (Documents), the credited hours (MonthlyHours), the     *)
(* defects (Maintenance), leave and bids (CrewRequests), the clauses of    *)
(* the manual (OmGovernance).  They write tables of their own and read     *)
(* nothing of one another's, so a behaviour runs one of them, chosen at    *)
(* the start, as in CrewDesk.                                              *)
(***************************************************************************)
EXTENDS Payroll

CONSTANTS
  Members, Ops, Workers, Horizon, Urgent, Cooldown, FollowCooldown,
  Day, Delays, Faults, MaxTime,                                        \* Reminders
  Papers, Window, CoolDays, Renewals, LastDay, Scanners,               \* Documents
  Sectors, Std, Block, Days, Moments, SetHours, Queries, Ttl,
  Tracked, Servers,                                                    \* MonthlyHours
  Defects, Engineers,                                                  \* Maintenance
  Wishes, Clerks,                                                      \* CrewRequests
  Articles, Critical, Drafts, Changes, Editors                         \* OmGovernance

VARIABLES
  now, ran, dep, pub, pending, accounts, sent, worker, waiting, std, last, cut, \* Reminders
  today, expiry, verified, stamped, scan, told, told_early, unstamped, \* Documents
  duty, dropped, atd, ata, override, reading, cache, editor, age,               \* MonthlyHours
  defect, tail, job, lapse,                                            \* Maintenance
  leave, notified, bid, desk, missed, closed,                          \* CrewRequests
  article, author, way,                                                \* OmGovernance
  machine                                                              \* the one that runs

RM == INSTANCE Reminders
DO == INSTANCE Documents WITH cut <- unstamped
MH == INSTANCE MonthlyHours
MT == INSTANCE Maintenance
CR == INSTANCE CrewRequests
OG == INSTANCE OmGovernance

ASSUME ReminderTimes == RM!OpsAssumption /\ RM!TimeAssumption
ASSUME DocumentDays  == {Window, CoolDays, LastDay} \subseteq Nat /\ Renewals \subseteq Int
ASSUME HoursRead     == IsFiniteSet(Sectors) /\ MH!HoursAssumption

reminderVars == <<now, ran, dep, pub, pending, accounts, sent, worker, waiting, std, last, cut>>
documentVars == <<today, expiry, verified, stamped, scan, told, told_early, unstamped>>
hoursVars    == <<duty, dropped, atd, ata, override, reading, cache, editor, age>>
defectVars   == <<defect, tail, job, lapse>>
requestVars  == <<leave, notified, bid, desk, missed, closed>>
clauseVars   == <<article, author, way>>
recordVars   == <<vars, reminderVars, documentVars, hoursVars, defectVars, requestVars, clauseVars,
                  machine>>

\* The machines that do not run are in one of their initial states.
RecordsInit ==
  /\ machine \in {"payroll", "reminders", "documents", "hours", "defects", "requests", "clauses"}
  /\ IF machine = "payroll" THEN TRUE
     ELSE rostered = {} /\ rate = [c \in Staff |-> NoRate]
  /\ IF machine = "reminders" THEN TRUE ELSE dep = 0
  /\ IF machine = "documents" THEN TRUE ELSE expiry = [p \in Papers |-> DO!NoDate]
  /\ IF machine = "hours" THEN TRUE
     ELSE /\ duty = [s \in Sectors |-> "operating"]
          /\ atd = [s \in Sectors |-> MH!None] /\ ata = atd
          /\ cache = [w \in Servers |-> [dh \in Queries |-> MH!Empty]]
  /\ IF machine = "defects" THEN TRUE
     ELSE tail = "active" /\ job = [w \in Engineers |-> "idle"]
  /\ IF machine = "requests" THEN TRUE ELSE desk = [w \in Clerks |-> CR!AtDesk]
  /\ IF machine = "clauses" THEN TRUE ELSE author = [w \in Editors |-> OG!AtDesk]
  /\ Init /\ RM!Init /\ DO!Init /\ MH!Init /\ MT!Init /\ CR!Init /\ OG!Init

Paying ==
  /\ machine = "payroll"
  /\ Next
  /\ UNCHANGED <<reminderVars, documentVars, hoursVars, defectVars, requestVars, clauseVars, machine>>

Reminding ==
  /\ machine = "reminders"
  /\ RM!Next
  /\ UNCHANGED <<vars, documentVars, hoursVars, defectVars, requestVars, clauseVars, machine>>

Documenting ==
  /\ machine = "documents"
  /\ DO!Next
  /\ UNCHANGED <<vars, reminderVars, hoursVars, defectVars, requestVars, clauseVars, machine>>

Counting ==
  /\ machine = "hours"
  /\ MH!Next
  /\ UNCHANGED <<vars, reminderVars, documentVars, defectVars, requestVars, clauseVars, machine>>

Repairing ==
  /\ machine = "defects"
  /\ MT!Next
  /\ UNCHANGED <<vars, reminderVars, documentVars, hoursVars, requestVars, clauseVars, machine>>

Requesting ==
  /\ machine = "requests"
  /\ CR!Next
  /\ UNCHANGED <<vars, reminderVars, documentVars, hoursVars, defectVars, clauseVars, machine>>

Governing ==
  /\ machine = "clauses"
  /\ OG!Next
  /\ UNCHANGED <<vars, reminderVars, documentVars, hoursVars, defectVars, requestVars, machine>>

RecordsNext ==
  \/ Paying \/ Reminding \/ Documenting \/ Counting
  \/ Repairing \/ Requesting \/ Governing

RecordsSpec == RecordsInit /\ [][RecordsNext]_recordVars
----------------------------------------------------------------------------
(* The properties of the instances, stated in their modules; those of the  *)
(* hours cost most, so they are evaluated where they may change.           *)

\* Reminders: of those nobody deletes, gentle reminders stay a day apart, follow-ups
\* six hours, and there is one urgent reminder per member.
RemindersSpaced == RM!GentleSpaced /\ RM!FollowupSpaced /\ RM!UrgentOnce

\* Reminders: whoever stays pending is reminded.
PendingIsReminded == RM!PendingIsReminded

\* Documents: no two reminders of a document within the cooldown.
DocRemindersSpaced == DO!DocRemindersSpaced

\* MonthlyHours: the matrix, the statement, the profile and the ranker agree.
HoursAgree == machine = "hours" => MH!HoursAgree

\* MonthlyHours: a cached matrix is behind for no longer than it may be.
MatrixIsRecent == machine = "hours" => MH!MatrixIsRecent

\* Maintenance: a tail with an unresolved grounding defect does not fly.
GroundedTailsStay == MT!GroundedTailsStay

\* CrewRequests: the member has been told the decision there is.
ReviewIsTold == CR!ReviewIsTold

\* CrewRequests: a bid that is locked is locked to whoever asks after that.
LockHolds == CR!LockHolds

\* OmGovernance: a clause of a critical check is weakened under the gate.
WeakIsSanctioned == OG!WeakIsSanctioned
=============================================================================
