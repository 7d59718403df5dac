---------------------------- MODULE MCCompliance ----------------------------
(* An instance of Compliance for TLC: the tenth, the eleventh and the      *)
(* thirty-first day of the calendar, in half hours.                        *)
EXTENDS Compliance, TLC

Flt(dep, arr, from, to) == [dep |-> dep, arr |-> arr, from |-> from, to |-> to, type |-> "B738"]
At(day, halfhour) == 48 * day + halfhour

\* A rotation (f1, f2), an evening flight 6.5 h after it (f3), a morning flight
\* 10 h after that one (f4), one that overlaps f2 (f5).
MCSchedule ==
  [f1 |-> Flt(At(10, 12), At(10, 18), "BGW", "DXB"),
   f2 |-> Flt(At(10, 21), At(10, 27), "DXB", "BGW"),
   f3 |-> Flt(At(10, 40), At(10, 46), "BGW", "IST"),
   f4 |-> Flt(At(11, 18), At(11, 20), "BGW", "BSR"),
   f5 |-> Flt(At(10, 24), At(10, 26), "BGW", "NJF")]
MCFlights == DOMAIN MCSchedule

\* The acclimated rows of migrations/2026_05_23_fdp_rules.sql.
Row(from, to, lo, hi, max) == [from |-> from, to |-> to, lo |-> lo, hi |-> hi, max |-> max]
MCFdpRules ==
  {Row(10, 26, 1, 2, 26), Row(10, 26, 3, 3, 25), Row(10, 26, 4, 4, 24), Row(10, 26, 5, 5, 23),
   Row(27, 33, 1, 2, 24), Row(27, 33, 3, 3, 23), Row(27, 33, 4, 4, 22), Row(27, 33, 5, 5, 21),
   Row(34, 47, 1, 2, 22), Row(34, 47, 3, 3, 21), Row(34, 47, 4, 4, 20), Row(34, 47, 5, 5, 19),
   Row(0, 9, 1, 2, 22), Row(0, 9, 3, 3, 21), Row(0, 9, 4, 4, 20), Row(0, 9, 5, 99, 18)}

Clause(key, active, type, params) ==
  [key |-> key, active |-> active, type |-> type, params |-> params]
MCClauses ==
  {Clause("rest", TRUE, "blocking", [domestic_min_rest_hours |-> 24]),
   Clause("rest", FALSE, "blocking", [domestic_min_rest_hours |-> 24]),
   Clause("assignment_conflict", TRUE, "warning", <<>>),
   Clause("documents", TRUE, "approval_required", [block_if_expired |-> FALSE]),
   Clause("turnaround", TRUE, "blocking", [max_turnaround_hours |-> 14]),
   Clause("flight_hours_monthly", TRUE, "informational", [max_hours |-> 10])}

\* Good, about to expire, expired, unverified, and of a malformed date.
MCDocuments ==
  {[expiry |-> 60, verified |-> TRUE], [expiry |-> 20, verified |-> TRUE],
   [expiry |-> 5, verified |-> TRUE], [expiry |-> 59, verified |-> FALSE],
   [expiry |-> 0, verified |-> TRUE]}
MCDuties == {{"f1", "f2"}, {"f2", "f3"}, {"f1", "f2", "f3"}, {"f3", "f4"}, {"f1", "f2", "f5"}}

\* During the rotation's turn at the outstation, before the other duties, and in the
\* next month.
MCInstants == {At(10, 19), At(31, 0)}
=============================================================================
