----------------------------- MODULE Compliance -----------------------------
(***************************************************************************)
(* The compliance engine and the gate of the assignment endpoints, for one *)
(* crew member and a fixed schedule: what the engine finds against an      *)
(* assignment, what a clause of the operations manual makes of it, what    *)
(* the gate lets through, and what the advisory screens say meanwhile.     *)
(* A check is a set of issues and a verdict their worst severity; wording  *)
(* and details are left out.  The gates of pairs, ranks and capacity are   *)
(* in module Staffing.  Time is counted in half hours (UTC).               *)
(***************************************************************************)
EXTENDS Integers, FiniteSets, FiniteSetsExt

CONSTANTS
  Flights,
  Schedule,      \* [Flights -> [dep, arr, from, to, type]]; duration_hours is arr - dep
  Domestic,      \* IRAQI_AIRPORTS
  Types,         \* the member's aircraft qualifications, {} if none is recorded
  FdpRules,      \* rows of fdp_rules: [from, to, lo, hi, max]
  MinRest,       \* MIN_REST_DOMESTIC, also DUTY_SPLIT_REST_HOURS
  MaxTurn,       \* MAX_TURNAROUND_HOURS
  MonthLimit,    \* crew.max_monthly_hours
  RollingLimit,  \* MAX_28DAY_HOURS
  YearLimit,     \* MAX_YEARLY_HOURS
  MonthDays, YearDays,   \* months and years of equal length
  Clauses,       \* the clauses that may be bound to a check, one at a time
  Instants,      \* when the clock is looked at
  Expiries,      \* days a training record may expire
  Documents,     \* [expiry, verified] of the document, the good one last to expire
  Duties,        \* bound: the sets of sectors tried as a connected duty
  Cancellable,   \* bound: the flights that may be cancelled, one at a time
  Ridden,        \* bound: the flights the member may ride without operating
  MaxRoster      \* bound: the flights the member has at once

VARIABLES
  now,        \* the clock
  crew,       \* crew.status
  doc,        \* one document: [expiry, verified]; expiry 0 is a malformed date
  training,   \* expiry of one training record
  om,         \* the active-or-not clause that affects compliance, or NoClause
  cancelled,  \* flights whose status is 'cancelled'
  via,        \* the member's assignments, and how each came about (Paths)
  recut       \* history: since the roster was last empty one of its flights was
              \* taken off it, cancelled or reinstated

vars == <<now, crew, doc, training, om, cancelled, via, recut>>

\* checked: through the single-flight gate, every lookup answering, no clause;
\* overridden: the same, past an FTL block; duty: as part of a connected duty,
\* no clause; other: riding, or under a clause, or with a lookup failed.
Paths == {"off", "checked", "overridden", "duty", "other"}

NoClause == [key |-> "none", active |-> FALSE, type |-> "none", params |-> <<>>]

Dep(f)  == Schedule[f].dep
Arr(f)  == Schedule[f].arr
Day(t)  == t \div 48
Today   == Day(now)

ASSUME ScheduleAssumption ==
  /\ Schedule \in [Flights -> [dep : Nat, arr : Nat, from : STRING, to : STRING, type : STRING]]
  /\ \A f \in Flights : Dep(f) < Arr(f)
  /\ \A f, g \in Flights : Dep(f) = Dep(g) => f = g

ASSUME LimitAssumption ==
  /\ {MinRest, MaxTurn, MonthLimit, RollingLimit, YearLimit, MonthDays, YearDays}
       \subseteq Nat \ {0}
  /\ Instants \subseteq Nat /\ Expiries \subseteq Nat /\ MaxRoster \in Nat
  /\ Documents \subseteq [expiry : Nat, verified : BOOLEAN]
  /\ Duties \subseteq SUBSET Flights
  /\ Cancellable \subseteq Flights /\ Ridden \subseteq Flights
  /\ \A c \in Clauses : c.key # "none"
  /\ IsFiniteSet(Flights) /\ Min(Instants) \in Instants

IntlRest     == MinRest + 4    \* MIN_REST_INTERNATIONAL
RestWarn     == 4              \* REST_WARN_BUFFER
ReportLead   == 2              \* FDP_REPORTING_LEAD_MIN
PostFlight   == 1              \* FDP_POST_FLIGHT_MIN
Baghdad      == 6              \* BAGHDAD_OFFSET
DefaultFdp   == 26             \* DEFAULT_MAX_FDP_MIN
NightSectors == 4              \* FDP_NIGHT_MAX_SECTORS
MaxMonthly   == 200            \* MAX_MONTHLY_HOURS
WarnDays     == 30             \* WARN_DAYS_BEFORE_EXPIRY

Roster == {f \in Flights : via[f] # "off"}
Flying == Roster \ cancelled
International(f) == ~({Schedule[f].from, Schedule[f].to} \subseteq Domestic)

Issue(rule, sev) == [rule |-> rule, sev |-> sev]
When(cond, rule, sev) == IF cond THEN {Issue(rule, sev)} ELSE {}
Has(issues, sev) == \E i \in issues : i.sev = sev

----------------------------------------------------------------------------
(* Parameters of the clause bound to a check.                              *)

\* _om_params and _pnum: an inactive clause, or a value out of range, leaves the
\* configured one.
Param(key, name, lo, hi, default) ==
  IF /\ om.key = key /\ om.active
     /\ name \in DOMAIN om.params
     /\ om.params[name] \in lo..hi
  THEN om.params[name]
  ELSE default

Flag(key, name, default) ==
  IF om.key = key /\ om.active /\ name \in DOMAIN om.params
  THEN om.params[name]
  ELSE default

Unlimited == 100000    \* no upper bound on the value

----------------------------------------------------------------------------
(* The checks on the member alone.                                         *)

CrewStatusIssues ==
  CASE crew \in {"blocked", "suspended"} -> {Issue("crew_status_blocked", "BLOCKING")}
    [] crew = "on_leave"                 -> {Issue("crew_on_leave", "WARNING")}
    [] OTHER                             -> {}

DocumentIssues(down) ==
  LET block == Flag("documents", "block_if_expired", TRUE)
      warn  == Param("documents", "warning_before_days", 1, 365, WarnDays)
  IN  IF "documents" \in down THEN {Issue("check_documents_unavailable", "CRITICAL")}
      ELSE IF doc.expiry = 0 THEN {Issue("doc_invalid_date", "WARNING")}
      ELSE When(doc.expiry < Today, "doc_expired", IF block THEN "BLOCKING" ELSE "WARNING")
           \cup When(doc.expiry \in Today..(Today + warn), "doc_expiring", "WARNING")
           \cup When(~doc.verified, "doc_unverified", "WARNING")

TrainingIssues(down) ==
  LET block == Flag("training", "block_if_expired", TRUE)
  IN  IF "training" \in down THEN {Issue("check_training_unavailable", "CRITICAL")}
      ELSE When(training < Today, "training_expired", IF block THEN "BLOCKING" ELSE "WARNING")
           \cup When(training \in Today..(Today + WarnDays), "training_expiring", "WARNING")

MonthStart(day) == day - (day % MonthDays)
YearStart(day)  == day - (day % YearDays)

\* The hours of a set of flights, counted one half hour of one flight at a time.
FlightHours(S) == Cardinality(UNION {{f} \X (Dep(f)..(Arr(f) - 1)) : f \in S})

\* ... of those that depart on that day or later.
HoursSince(S, day) == FlightHours({f \in S : Day(Dep(f)) >= day})

\* The assigned hours and those of the flights being assigned, one window.  The
\* warning comes at a share of the limit (hundredths) if the clause gives one, else
\* at a threshold that does not follow the member's own limit.
Window(exceeded, warning, key, start, limit, warn, sev, projected) ==
  LET h   == HoursSince(Flying, start) + HoursSince(projected, start)
      max == Param(key, "max_hours", 2, Unlimited, limit)
      pct == Param(key, "warning_threshold_percent", 1, 100, 0)
  IN  CASE h >= max -> {Issue(exceeded, sev)}
        [] h < max /\ 100 * h >= (IF pct > 0 THEN pct * max ELSE warn) -> {Issue(warning, "WARNING")}
        [] OTHER -> {}

YearlyIssues(projected) ==
  Window("hours_yearly_exceeded", "hours_yearly_warning", "flight_hours_yearly",
         YearStart(Today), YearLimit, 89 * YearLimit, "BLOCKING", projected)

RollingIssues(projected) ==
  Window("hours_28day_exceeded", "hours_28day_warning", "flight_hours_28day",
         Today - 28, RollingLimit, 90 * RollingLimit, "CRITICAL", projected)

MonthlyIssues(projected) ==
  Window("hours_monthly_exceeded", "hours_monthly_warning", "flight_hours_monthly",
         MonthStart(Today), MonthLimit, 83 * MaxMonthly, "BLOCKING", projected)

HourIssues(projected) ==
  YearlyIssues(projected) \cup RollingIssues(projected) \cup MonthlyIssues(projected)

\* Mutant: the flight being assigned is not counted.
FlightHoursCurrentOnly(projected, down) ==
  IF "hours" \in down THEN {Issue("check_flight_hours_unavailable", "CRITICAL")}
  ELSE IF Roster = {} THEN {} ELSE HourIssues({})

\* The windows open at the first of the month or year, or 28 days ago, and have
\* no end.
FlightHoursIssues(projected, down) ==
  IF "hours" \in down THEN {Issue("check_flight_hours_unavailable", "CRITICAL")}
  ELSE IF Roster \cup projected = {} THEN {} ELSE HourIssues(projected)

\* An unrecorded qualification, or a flight of no type, does not block.
Qualified(type) == type = "" \/ Types = {} \/ type \in Types

QualificationIssues(type) ==
  When(~Qualified(type), "aircraft_not_type_rated", "BLOCKING")

CrewIssues(projected, down) ==
  CrewStatusIssues \cup DocumentIssues(down) \cup TrainingIssues(down)
    \cup FlightHoursIssues(projected, down)

----------------------------------------------------------------------------
(* The checks on a flight against the member's other flights.  A check     *)
(* whose lookup fails blocks.                                              *)

EngineError == Issue("compliance_engine_error", "BLOCKING")

Overlap(f, g) == Dep(f) < Arr(g) /\ Dep(g) < Arr(f)

\* Mutant: a flight that starts inside another is let through.
ConflictIssuesOneSided(f, down) ==
  IF "conflict" \in down THEN {EngineError}
  ELSE {Issue("assignment_conflict", "BLOCKING") :
          g \in {h \in Roster \ {f} : Dep(h) \in Dep(f)..(Arr(f) - 1)}}

\* Every flight the member is assigned to counts, a cancelled one too.
ConflictIssues(f, down) ==
  IF "conflict" \in down THEN {EngineError}
  ELSE {Issue("assignment_conflict", "BLOCKING") :
          g \in {h \in Roster \ {f} : Overlap(f, h)}}

\* A short stop at the station the next sector leaves from.
IsTurnaround(dest, origin, gap) ==
  /\ gap \in 0..Param("turnaround", "max_turnaround_hours", 0, 24, MaxTurn)
  /\ Flag("turnaround", "same_station_required", TRUE) => dest = origin

RequiredRest(intl) ==
  IF intl THEN Param("rest", "international_min_rest_hours", 2, 96, IntlRest)
          ELSE Param("rest", "domestic_min_rest_hours", 2, 96, MinRest)

\* The rest before f, measured from the latest arrival before its departure.
RestIssues(f, intl, down) ==
  LET before == {g \in Roster : Arr(g) < Dep(f)}
      last   == CHOOSE g \in before : \A h \in before : Arr(h) <= Arr(g)
      rest   == Dep(f) - Arr(last)
      required == RequiredRest(intl)
  IN  IF "rest" \in down THEN {EngineError}
      ELSE IF before = {} \/ IsTurnaround(Schedule[last].to, Schedule[f].from, rest) THEN {}
      ELSE When(rest < required, "rest_insufficient", "BLOCKING")
           \cup When(rest \in required..(required + RestWarn - 1), "rest_near_limit", "WARNING")

\* b is the next departure after a among S.
Follows(S, a, b) ==
  Dep(a) < Dep(b) /\ ~ \E c \in S : Dep(a) < Dep(c) /\ Dep(c) < Dep(b)

\* Departures of S that open a duty: a rest-sized gap before them.
Opens(S) == {b \in S : \E a \in S : Dep(b) - Arr(a) >= MinRest /\ Follows(S, a, b)}

\* The flights of S in one duty with f, given the departures that open one.
Joined(S, opens, f) ==
  {g \in S : \A b \in opens : Dep(b) <= Dep(f) <=> Dep(b) <= Dep(g)}

DutyOf(S, f) == Joined(S, Opens(S), f)
DutiesOf(S)  == LET opens == Opens(S) IN {Joined(S, opens, f) : f \in S}

First(D) == CHOOSE f \in D : \A g \in D : Dep(f) <= Dep(g)
Last(D)  == CHOOSE f \in D : \A g \in D : Dep(g) <= Dep(f)
FdpStart(D) == Dep(First(D)) - ReportLead
FdpEnd(D)   == Arr(Last(D)) + PostFlight
LocalStart(D) == (FdpStart(D) + Baghdad) % 48

FdpRule(D, down) ==
  LET start   == LocalStart(D)
      sectors == Cardinality(D)
  IN  IF "fdp_rules" \in down THEN {}
      ELSE {r \in FdpRules : start \in r.from..r.to /\ sectors \in r.lo..r.hi}

MaxFdp(D) == LET rule == FdpRule(D, {})
             IN  IF rule = {} THEN DefaultFdp ELSE (CHOOSE r \in rule : TRUE).max

\* One duty against the table: no row, or a table that cannot be read, is a warning.
EvaluateFdp(D, down) ==
  LET rule   == FdpRule(D, down)
      actual == FdpEnd(D) - FdpStart(D)
      max    == (CHOOSE r \in rule : TRUE).max
  IN  When(LocalStart(D) \in 4..9 /\ Cardinality(D) > NightSectors,
           "fdp_night_sector_limit", "BLOCKING")
      \cup IF rule = {} THEN {Issue("fdp_table_unavailable", "WARNING")}
           ELSE When(actual > max, "fdp_exceeded", "BLOCKING")
                \cup When(actual <= max /\ 10 * actual >= 9 * max, "fdp_near_limit", "WARNING")

\* Mutant: the duty is the flight alone.
FdpIssuesAlone(f, down) ==
  IF "fdp" \in down THEN {EngineError} ELSE EvaluateFdp({f}, down)

FdpIssues(f, down) ==
  IF "fdp" \in down THEN {EngineError}
  ELSE EvaluateFdp(DutyOf(Flying \cup {f}, f), down)

----------------------------------------------------------------------------
(* The clause over the checks.                                             *)

Families ==
  [documents |-> {"doc_invalid_date", "doc_expired", "doc_expiring", "doc_unverified"},
   training |-> {"training_expired", "training_expiring"},
   flight_hours_yearly |-> {"hours_yearly_exceeded", "hours_yearly_warning"},
   flight_hours_28day |-> {"hours_28day_exceeded", "hours_28day_warning"},
   flight_hours_monthly |-> {"hours_monthly_exceeded", "hours_monthly_warning"},
   rest |-> {"rest_insufficient", "rest_near_limit"},
   fdp |-> {"fdp_night_sector_limit", "fdp_exceeded", "fdp_near_limit"},
   crew_status |-> {"crew_status_blocked", "crew_on_leave"},
   aircraft_qualification |-> {"aircraft_not_type_rated"},
   assignment_conflict |-> {"assignment_conflict"}]

\* _binding_key: failed lookups and the shape of a duty are bound to no clause.
Bound(i) == om.key \in DOMAIN Families /\ i.rule \in Families[om.key]

\* An inactive clause silences its family; a warning clause lets its blocks
\* through; one that requires approval only says so.
ApplyOm(issues) ==
  {IF ~Bound(i) THEN i
   ELSE IF om.type = "informational" THEN [i EXCEPT !.sev = "INFO"]
   ELSE IF om.type = "warning" /\ i.sev = "BLOCKING" THEN [i EXCEPT !.sev = "WARNING"]
   ELSE i : i \in {j \in issues : Bound(j) => om.active}}

OverallStatus(issues) ==
  IF Has(issues, "BLOCKING") THEN "BLOCKED"
  ELSE IF Has(issues, "CRITICAL") THEN "RED"
  ELSE IF Has(issues, "WARNING") THEN "YELLOW" ELSE "GREEN"

\* check_crew without a flight: the member's card and the list of blocked crew.
CrewStatus == OverallStatus(ApplyOm(CrewIssues({}, {})))

\* check_crew for a flight.
CheckCrew(f, down) ==
  ApplyOm(CrewIssues({f}, down) \cup QualificationIssues(Schedule[f].type)
            \cup ConflictIssues(f, down) \cup RestIssues(f, International(f), down)
            \cup FdpIssues(f, down))

\* The shape of a connected duty, sector by sector.
DutyShapeIssues(D) ==
  LET pairs == {p \in D \X D : Follows(D, p[1], p[2])}
      Gap(p) == Dep(p[2]) - Arr(p[1])
      turn == Param("turnaround", "max_turnaround_hours", 0, 24, MaxTurn)
  IN  When(Cardinality(D) < 2, "connected_duty_invalid", "BLOCKING")
      \cup {Issue(IF Gap(p) < 0 THEN "connected_duty_overlap"
                  ELSE IF Schedule[p[1]].to # Schedule[p[2]].from
                  THEN "connected_duty_not_contiguous"
                  ELSE "connected_duty_gap_too_long", "BLOCKING") :
              p \in {q \in pairs : ~(/\ Gap(q) \in 0..turn
                                     /\ Schedule[q[1]].to = Schedule[q[2]].from)}}

\* batch_connected_duty for the member: no conflict check against other flights,
\* and the FDP of the duty alone.
CheckConnectedDuty(D, down) ==
  ApplyOm(DutyShapeIssues(D) \cup EvaluateFdp(D, down) \cup CrewIssues(D, {})
            \cup UNION {QualificationIssues(Schedule[f].type) : f \in D}
            \cup RestIssues(First(D), \E f \in D : International(f), {}))

----------------------------------------------------------------------------
(* The advisory screens.  All but the projection leave the clause out of   *)
(* their verdict.                                                          *)

OnDuty == {D \in DutiesOf(Flying) : now \in FdpStart(D)..FdpEnd(D)}

\* First of a set of duties.
Earliest(Ds) == CHOOSE D \in Ds : \A E \in Ds : FdpStart(D) <= FdpStart(E)
Latest(Ds)   == CHOOSE D \in Ds : \A E \in Ds : FdpStart(E) <= FdpStart(D)

Spent(limit, start) == HoursSince(Flying, start) >= limit
HoursGone == \/ Spent(MonthLimit, MonthStart(Today))
             \/ Spent(RollingLimit, Today - 28)
             \/ Spent(YearLimit, YearStart(Today))

Verdict(blocked, issues) ==
  IF blocked THEN "BLOCKED" ELSE OverallStatus(issues)

\* crew_legality, the countdown card: what is left of the duty the member is on ...
Left(D) == MaxFdp(D) - (now - FdpStart(D))

\* ... and when the member may report next.
NextReport ==
  LET on   == OnDuty
      done == {D \in DutiesOf(Flying) : FdpEnd(D) < now}
      duty == IF on # {} THEN Earliest(on)
              ELSE CHOOSE D \in done : \A E \in done : FdpEnd(E) <= FdpEnd(D)
  IN  IF on \cup done = {} THEN now
      ELSE FdpEnd(duty) + IF \E f \in duty : International(f) THEN IntlRest ELSE MinRest

Legality ==
  LET on   == OnDuty
      duty == Earliest(on)
  IN  Verdict(HoursGone \/ (on # {} /\ Left(duty) <= 0),
              CrewIssues({}, {})
                \cup When(on # {} /\ 10 * Left(duty) <= MaxFdp(duty), "fdp_near", "WARNING")
                \cup When(on = {} /\ NextReport > now, "resting", "WARNING"))

\* Mutant: the next duty is shown before the one under way.
MonitorDutyNext(day) ==
  LET Ds       == DutiesOf(Flying)
      upcoming == {D \in Ds : Dep(First(D)) >= now}
  IN  IF upcoming # {} THEN Earliest(upcoming) ELSE Latest(Ds)

\* The duty the monitor shows: the one whose first departure is on that Baghdad
\* day, else the one under way, else the next, else the last.
MonitorDuty(day) ==
  LET Ds       == DutiesOf(Flying)
      onDay    == {D \in Ds : Day(Dep(First(D)) + Baghdad) = day}
      active   == {D \in Ds : now \in FdpStart(D)..FdpEnd(D)}
      upcoming == {D \in Ds : Dep(First(D)) >= now}
  IN  CASE onDay # {} -> Earliest(onDay)
        [] onDay = {} /\ active # {} -> Earliest(active)
        [] onDay \cup active = {} /\ upcoming # {} -> Earliest(upcoming)
        [] OTHER -> Latest(Ds)

AnyDay == -1    \* no day asked for

FdpUsed(D) == IF now < FdpStart(D) THEN 0 ELSE Min({now, FdpEnd(D)}) - FdpStart(D)
MonitorRemaining(D) == MaxFdp(D) - FdpUsed(D)

\* Rest between the duty before D and its report, too short.
PreviousRestShort(D) ==
  LET before == {E \in DutiesOf(Flying) : FdpStart(E) < FdpStart(D)}
  IN  /\ before # {}
      /\ FdpStart(D) - FdpEnd(Latest(before))
           < IF \E f \in D : International(f) THEN IntlRest ELSE MinRest

\* fdp_monitor: BLOCKED, YELLOW or GREEN.
Monitor(day) ==
  LET issues == CrewIssues({}, {})
      D == MonitorDuty(day)
  IN  IF Flying = {} THEN IF Has(issues, "BLOCKING") THEN "BLOCKED" ELSE "GREEN"
      ELSE CASE \/ Has(issues, "BLOCKING")
                \/ MonitorRemaining(D) <= 0
                \/ PreviousRestShort(D) -> "BLOCKED"
             [] OTHER -> IF issues # {} \/ 10 * FdpUsed(D) >= 9 * MaxFdp(D)
                         THEN "YELLOW" ELSE "GREEN"

\* The score of check_crew's issues: a share of each category's weight is kept.
Weights == [rest |-> 25, hours |-> 25, fdp |-> 20, papers |-> 20, flight |-> 10]

Category ==
  [rest   |-> Families.rest,
   hours  |-> Families.flight_hours_yearly \cup Families.flight_hours_28day
                \cup Families.flight_hours_monthly,
   fdp    |-> Families.fdp \cup {"fdp_table_unavailable"},
   papers |-> Families.documents \cup Families.training
                \cup {"check_documents_unavailable", "check_training_unavailable"},
   flight |-> Families.aircraft_qualification \cup Families.assignment_conflict]

Factor == [BLOCKING |-> 0, CRITICAL |-> 2, WARNING |-> 5, INFO |-> 10]    \* tenths

Score(issues) ==
  LET Kept(c) == Weights[c] *
        Min({10} \cup {Factor[i.sev] : i \in {j \in issues : j.rule \in Category[c]}})
  IN  (Kept("rest") + Kept("hours") + Kept("fdp") + Kept("papers") + Kept("flight")) \div 10

Readiness(issues) ==
  LET score == Score(issues)
  IN  CASE Has(issues, "BLOCKING") \/ score < 50 -> "BLOCKED"
        [] ~Has(issues, "BLOCKING") /\ score >= 90 -> "READY"
        [] ~Has(issues, "BLOCKING") /\ score \in 70..89 -> "LIMITED"
        [] ~Has(issues, "BLOCKING") /\ score \in 50..69 -> "FATIGUED"

\* Mutant: the board counts the hours of cancelled flights.
BatchIssuesAll(down) ==
  CrewStatusIssues
    \cup (IF FlightHours({f \in Roster : Day(Dep(f)) >= MonthStart(Today)}) >= MonthLimit
          THEN {Issue("hours_monthly_exceeded", "BLOCKING")} ELSE {})
    \cup When(doc.expiry # 0 /\ doc.expiry < Today, "doc_expired", "BLOCKING")
    \cup When(training < Today, "training_expired", "BLOCKING")

\* batch_readiness, the board: the same rules written a second time, over tables
\* read at once and without the manual; a table that cannot be read is empty.
BatchIssues(down) ==
  LET month == HoursSince(Flying, MonthStart(Today))
      roll  == HoursSince(Flying, Today - 28)
  IN  CrewStatusIssues
        \cup (CASE month >= MonthLimit -> {Issue("hours_monthly_exceeded", "BLOCKING")}
                [] month < MonthLimit /\ 100 * month >= 83 * MonthLimit
                     -> {Issue("hours_monthly_warning", "WARNING")}
                [] OTHER -> {})
        \cup (CASE roll >= RollingLimit -> {Issue("hours_28day_exceeded", "CRITICAL")}
                [] roll < RollingLimit /\ 10 * roll >= 9 * RollingLimit
                     -> {Issue("hours_28day_warning", "WARNING")}
                [] OTHER -> {})
        \cup When(Spent(YearLimit, YearStart(Today)), "hours_yearly_exceeded", "BLOCKING")
        \cup (IF "documents" \in down THEN {}
              ELSE When(doc.expiry # 0 /\ doc.expiry < Today, "doc_expired", "BLOCKING")
                   \cup When(doc.expiry \in Today..(Today + WarnDays), "doc_expiring", "WARNING"))
        \cup (IF "training" \in down THEN {}
              ELSE When(training < Today, "training_expired", "BLOCKING")
                   \cup When(training \in Today..(Today + WarnDays), "training_expiring", "WARNING"))

\* suggest_crew lists the member for the flight unless a flight that is not
\* cancelled overlaps it; the member is shown BLOCKED if unqualified or by the board.
Suggested(f) ==
  /\ crew \notin {"blocked", "suspended"}
  /\ \A g \in Flying : ~Overlap(f, g)

SuggestedStatus(f, board) ==
  IF ~Qualified(Schedule[f].type) THEN "BLOCKED" ELSE board

\* assignment_projection, the decision shown before assigning, from check_crew's issues.
Projection(issues) ==
  LET status == OverallStatus(issues)
  IN  CASE status = "BLOCKED" -> "BLOCKED"
        [] status \in {"RED", "YELLOW"} -> "WARNING"
        [] OTHER -> "READY"

----------------------------------------------------------------------------
(* The gate.                                                               *)

\* _is_overridable_block: rest, FDP and flight hours.
FtlRules == UNION {Families[k] : k \in {"rest", "fdp", "flight_hours_yearly",
                                        "flight_hours_28day", "flight_hours_monthly"}}
FtlBlocks(issues)  == {i \in issues : i.sev = "BLOCKING" /\ i.rule \in FtlRules}
HardBlocks(issues) == {i \in issues : i.sev = "BLOCKING" /\ i.rule \notin FtlRules}

\* At most one lookup of a request fails; the batch of a duty fails as a whole,
\* but for the FDP table.
Lookups == {"documents", "training", "hours", "conflict", "rest", "fdp", "fdp_rules"}
Faults  == {{}} \cup {{l} : l \in Lookups}

Path(issues, down) ==
  IF om # NoClause \/ down # {} THEN "other"
  ELSE IF FtlBlocks(issues) # {} THEN "overridden" ELSE "checked"

GoodDoc == CHOOSE d \in Documents : \A e \in Documents : e.expiry <= d.expiry /\ d.verified
GoodTraining == Max(Expiries)

\* Bound: one thing is out of the ordinary at a time.
Ordinary ==
  /\ crew = "active" /\ om = NoClause /\ doc = GoodDoc /\ training = GoodTraining
  /\ cancelled = {}

\* POST /assignments of an operating aircraft crew member.  The request may carry
\* an override, so a block of the FTL rules alone refuses nothing: Path records it.
AssignCrew(f, down) ==
  LET issues == CheckCrew(f, down)
  IN  /\ via[f] = "off"
      /\ Cardinality(Roster) < MaxRoster
      /\ HardBlocks(issues) = {}
      /\ via' = [via EXCEPT ![f] = Path(issues, down)]
      /\ UNCHANGED <<now, crew, doc, training, om, cancelled, recut>>

\* The same of a member who rides the flight: only the status is looked at, and that
\* the account has not been deactivated, which the model takes for granted.
AssignRiding(f) ==
  /\ via[f] = "off" /\ f \in Ridden
  /\ Cardinality(Roster) < MaxRoster
  /\ crew \notin {"blocked", "suspended", "inactive", "terminated"}
  /\ via' = [via EXCEPT ![f] = "other"]
  /\ UNCHANGED <<now, crew, doc, training, om, cancelled, recut>>

\* POST /assignments/connected-duty; the sectors the member already has are left.
AssignConnectedDuty(D, down) ==
  LET issues == CheckConnectedDuty(D, down)
      path   == IF Path(issues, down) = "other" THEN "other" ELSE "duty"
  IN  /\ ~(D \subseteq Roster)
      /\ Cardinality(Roster \cup D) <= MaxRoster
      /\ HardBlocks(issues) = {}
      /\ via' = [f \in Flights |-> IF f \in D \ Roster THEN path ELSE via[f]]
      /\ UNCHANGED <<now, crew, doc, training, om, cancelled, recut>>

\* An assignment is deleted (removed, declined and replaced, or its flight is).
RemoveAssignment(f) ==
  /\ via[f] # "off"
  /\ via' = [via EXCEPT ![f] = "off"]
  /\ recut' = (Roster # {f})
  /\ UNCHANGED <<now, crew, doc, training, om, cancelled>>

\* PATCH /flights/{id}/status: no check is made again, neither way.
CancelFlight(f) ==
  /\ Ordinary /\ f \in Cancellable
  /\ cancelled' = {f}
  /\ recut' = (recut \/ f \in Roster)
  /\ UNCHANGED <<now, crew, doc, training, om, via>>

ReinstateFlight(f) ==
  /\ f \in cancelled
  /\ cancelled' = cancelled \ {f}
  /\ recut' = (recut \/ f \in Roster)
  /\ UNCHANGED <<now, crew, doc, training, om, via>>

----------------------------------------------------------------------------
(* What changes around the checks.                                         *)

\* PATCH /crew/{id}, block and unblock.
SetCrewStatus(s) ==
  /\ Ordinary \/ s = "active"
  /\ crew' = s
  /\ UNCHANGED <<now, doc, training, om, cancelled, via, recut>>

\* POST and PUT /documents, and its verification.
SetDocument(d) ==
  /\ Ordinary \/ d = GoodDoc
  /\ doc' = d
  /\ UNCHANGED <<now, crew, training, om, cancelled, via, recut>>

SetTraining(e) ==
  /\ Ordinary \/ e = GoodTraining
  /\ training' = e
  /\ UNCHANGED <<now, crew, doc, om, cancelled, via, recut>>

\* A clause is bound, edited or taken off.
SetClause(c) ==
  /\ Ordinary \/ c = NoClause
  /\ om' = c
  /\ UNCHANGED <<now, crew, doc, training, cancelled, via, recut>>

PassTime(t) ==
  /\ t > now
  /\ now' = t
  /\ UNCHANGED <<crew, doc, training, om, cancelled, via, recut>>

Init ==
  /\ now = Min(Instants)
  /\ crew = "active" /\ doc = GoodDoc /\ training = GoodTraining
  /\ om = NoClause
  /\ cancelled = {}
  /\ via = [f \in Flights |-> "off"] /\ recut = FALSE

\* Bound: lookups fail at the first instant only.
FaultsNow == IF Ordinary /\ now = Min(Instants) THEN Faults ELSE {{}}

Statuses  == {"active", "on_leave", "blocked", "inactive"}

Next ==
  \/ \E f \in Flights, down \in FaultsNow : AssignCrew(f, down)
  \/ \E D \in Duties, down \in FaultsNow \cap {{}, {"fdp_rules"}} : AssignConnectedDuty(D, down)
  \/ \E f \in Flights : AssignRiding(f) \/ RemoveAssignment(f)
  \/ \E f \in Flights : CancelFlight(f) \/ ReinstateFlight(f)
  \/ \E s \in Statuses : SetCrewStatus(s)
  \/ \E d \in Documents : SetDocument(d)
  \/ \E e \in Expiries : SetTraining(e)
  \/ \E c \in Clauses \cup {NoClause} : SetClause(c)
  \/ \E t \in Instants : PassTime(t)

Spec == Init /\ [][Next]_vars
----------------------------------------------------------------------------
(* Properties.                                                             *)

TypeOK ==
  /\ now \in Instants
  /\ crew \in Statuses
  /\ doc \in Documents /\ training \in Expiries
  /\ om \in Clauses \cup {NoClause}
  /\ cancelled \subseteq Flights
  /\ via \in [Flights -> Paths] /\ recut \in BOOLEAN

\* Two flights each given by the single-flight gate under no clause never overlap,
\* whatever was cancelled, reinstated, overridden or removed in between (_check_conflict
\* is a hard block, and counts cancelled flights too).
SinglesDontOverlap ==
  \A f, g \in Flights :
    f # g /\ {via[f], via[g]} \subseteq {"checked", "overridden"} => ~Overlap(f, g)

\* A duty put together one flight at a time, no check failing or overridden, is within
\* the FDP table in whatever order its flights and the others of the roster came
\* (_check_fdp takes the whole duty the new flight joins).  It holds while the flown
\* flights do not overlap and none has been taken from the roster, cancelled or
\* reinstated: these cut the duties anew, and nothing is checked again.
DutyWithinFdp ==
  ~recut /\ (\A f, g \in Flying : f # g => ~Overlap(f, g))
    => \A D \in DutiesOf(Flying) :
         (\A f \in D : via[f] = "checked") => ~Has(EvaluateFdp(D, {}), "BLOCKING")

\* A flight that passes the gate leaves the member under the limit of that month,
\* the new flight counted (the projected total of _check_flight_hours).
MonthCapAtAssign ==
  [][\A f \in Flights \ cancelled :
       via[f] = "off" /\ via'[f] = "checked" /\ Day(Dep(f)) >= MonthStart(Today)
         => FlightHours({g \in Flights \ cancelled :
                             via'[g] # "off" /\ MonthStart(Day(Dep(g))) = MonthStart(Day(Dep(f)))})
              < MonthLimit]_vars

\* The countdown card and the FDP monitor, two readings of the same roster, agree on
\* the duty under way and on what is left of it; where only the card stops the member,
\* the member is out of 28-day hours.
ScreensAgree ==
  LET on    == OnDuty
      shown == MonitorDuty(AnyDay)
  IN  Flying # {} =>
        /\ on # {} => shown = Earliest(on) /\ MonitorRemaining(shown) = Left(shown)
        /\ om = NoClause /\ ~Spent(RollingLimit, Today - 28) /\ Legality = "BLOCKED"
             => Monitor(AnyDay) = "BLOCKED"

\* Under no clause the readiness board stops a member exactly when the engine would
\* without a flight; a member suggested for a flight and not shown as blocked meets no
\* hard block at the gate, but for a cancelled flight at that time; and the score and
\* the decision shown before assigning do not contradict each other: what is projected
\* READY is scored READY, and what is scored READY needs no review.
AdviceHolds ==
  om = NoClause =>
    LET board == OverallStatus(BatchIssues({})) IN
    /\ board = "BLOCKED" <=> CrewStatus = "BLOCKED"
    /\ \A f \in Flights \ Roster :
         LET issues == CheckCrew(f, {})
         IN  /\ Suggested(f) /\ SuggestedStatus(f, board) # "BLOCKED"
                  => \/ HardBlocks(issues) = {}
                     \/ \E g \in Roster \cap cancelled : Overlap(f, g)
             /\ Projection(issues) = "READY" => Readiness(issues) = "READY"
             /\ Has(issues, "CRITICAL") => Readiness(issues) # "READY"

\* assignments.py, _is_overridable_block: double booking is a hard block that an
\* override never bypasses, so no member is on two flights at once.
NoDoubleBooking ==
  \A f, g \in Flights :
    f # g /\ {via[f], via[g]} \subseteq {"checked", "overridden", "duty"} => ~Overlap(f, g)

\* compliance_engine.py, _is_turnaround: between a flight and the next one that is not
\* a turnaround, the minimum rest applies.
RestKept ==
  \A f, g \in Flying :
    /\ Follows(Flying, f, g) /\ \A h \in Flying : via[h] = "checked"
    /\ cancelled = {} /\ ~recut /\ om = NoClause
    => \/ IsTurnaround(Schedule[f].to, Schedule[g].from, Dep(g) - Arr(f))
       \/ Dep(g) - Arr(f) >= RequiredRest(International(g))

\* compliance_engine.py, fdp_monitor: its verdict matches what assignment enforces, so
\* a flight that just passed the gate is not shown as blocked.
MonitorMatchesAssignment ==
  [][\A f \in Flights \ cancelled :
       via[f] = "off" /\ via'[f] = "checked" => Monitor(Day(Dep(f) + Baghdad))' # "BLOCKED"]_vars
=============================================================================
