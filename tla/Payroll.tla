------------------------------ MODULE Payroll ------------------------------
(***************************************************************************)
(* The payslips of one month (endpoints/payroll.py).  A run of the         *)
(* generator reads the active crew, the wage rates and the payslips there  *)
(* are, then computes and saves one payslip after another; accountants     *)
(* adjust and finalize payslips through other requests.  Workers are as in *)
(* module Gendec: a process serves one request at a time, and a killed     *)
(* request leaves the payslips it has saved.  Time is in minutes of the    *)
(* month, amounts are whole numbers (the two decimals are left out).       *)
(***************************************************************************)
EXTENDS Integers, FiniteSets, Functions, TLC

CONSTANTS
  Staff,         \* crew members
  Legs,          \* flights
  Dep, Arr,      \* [Legs -> minute of the month]
  Abroad,        \* the legs whose flight_type is "international"
  MonthEnd,      \* first minute of the next month
  Rates,         \* the wage rates an administrator may set
  Amounts,       \* what an accountant may enter
  Payers         \* the instances there may be

ASSUME PayAssumption ==
  /\ IsFiniteSet(Legs) /\ Dep \in [Legs -> Int] /\ Arr \in [Legs -> Int]
  /\ \A r \in Rates : {r.base, r.hour, r.intl, r.night, r.diem_dom, r.diem_int} \subseteq Int
  /\ Amounts \subseteq Int

VARIABLES
  active,     \* members whose status is "active"
  rostered,   \* <<member, leg>> assignments
  called_off, \* cancelled legs
  rate,       \* wage rate of each member's rank, NoRate if none is active
  slip,       \* the payslip of each member, NoSlip if there is none
  period,     \* payroll_periods.status
  payer       \* what each deployed worker is doing

vars == <<active, rostered, called_off, rate, slip, period, payer>>

NoRate == [none |-> TRUE]
NoSlip == [none |-> TRUE]
Idle   == [doing |-> "idle"]

\* A single process serves every request.
OnePayer == \A v, w \in DOMAIN payer : v = w

----------------------------------------------------------------------------
(* What a payslip is computed from.                                        *)

PaidLegs(c) ==
  {f \in Legs \ called_off : <<c, f>> \in rostered /\ Dep[f] \in 0..(MonthEnd - 1) /\ Arr[f] > Dep[f]}

\* The half-hour steps of a leg that begin between 22:00 and 06:00 UTC; the last
\* step counts in full however short it is.
IsNight(minute) == LET hour == (minute \div 60) % 24 IN hour >= 22 \/ hour < 6

NightMinutes(f) ==
  30 * Cardinality({k \in 0..((Arr[f] - Dep[f] - 1) \div 30) : IsNight(Dep[f] + 30 * k)})

\* Every UTC date a leg touches.
DutyDays(legs) == UNION {(Dep[f] \div 1440)..(Arr[f] \div 1440) : f \in legs}

FlightMetrics(c) ==
  LET legs      == PaidLegs(c)
      block     == [f \in Legs |-> Arr[f] - Dep[f]]
      night     == [f \in Legs |-> NightMinutes(f)]
  IN [ total         |-> SumFunctionOnSet(block, legs),
       international |-> SumFunctionOnSet(block, legs \cap Abroad),
       night         |-> SumFunctionOnSet(night, legs),
       days_dom      |-> Cardinality(DutyDays(legs \ Abroad)),
       days_int      |-> Cardinality(DutyDays(legs \cap Abroad)) ]

Components(c, r) ==
  LET m == FlightMetrics(c) IN
    r.base + r.hour * m.total + r.intl * m.international + r.night * m.night
    + r.diem_dom * m.days_dom + r.diem_int * m.days_int

\* What the generator saves: edits of an earlier run are reset.
NewSlip(pay) ==
  [pay |-> pay, additions |-> 0, deductions |-> 0, tax |-> 0,
   gross |-> pay, net |-> pay, finalized |-> FALSE]

----------------------------------------------------------------------------
(* POST /generate/{month}                                                  *)

Begin(w, task) == payer[w] = Idle /\ payer' = [payer EXCEPT ![w] = task]
End(w)         == payer' = [payer EXCEPT ![w] = Idle]

Exists(c) == slip[c] # NoSlip
Final(c)  == Exists(c) /\ slip[c].finalized

\* Mutant: the finalized rows are found by the month's period.
GenerateReadByPeriod(w) ==
  /\ Begin(w, [doing |-> "generate", rates |-> rate,
               known |-> {c \in Staff : Exists(c)},
               todo  |-> {c \in active : rate[c] # NoRate /\ ~(Final(c) /\ period # "none")}])
  /\ UNCHANGED <<active, rostered, called_off, rate, slip, period>>

\* Members without a rate, and those whose payslip is final, are left out.
GenerateRead(w) ==
  /\ Begin(w, [doing |-> "generate", rates |-> rate,
               known |-> {c \in Staff : Exists(c)},
               todo  |-> {c \in active : rate[c] # NoRate /\ ~Final(c)}])
  /\ UNCHANGED <<active, rostered, called_off, rate, slip, period>>

\* One member: the metrics are read and the payslip is updated by the id read at
\* the start, or inserted; UNIQUE (company_id, crew_id, month) refuses a second
\* one and the request ends there (Killed).
GenerateSlip(w) ==
  /\ payer[w].doing = "generate"
  /\ \E c \in payer[w].todo :
       /\ c \in payer[w].known \/ ~Exists(c)
       /\ slip' = [slip EXCEPT ![c] = NewSlip(Components(c, payer[w].rates[c]))]
       /\ payer' = [payer EXCEPT ![w].todo = @ \ {c}]
  /\ UNCHANGED <<active, rostered, called_off, rate, period>>

GenerateMark(w) ==
  /\ payer[w].doing = "generate"
  /\ payer[w].todo = {}
  /\ period' = "generated"
  /\ End(w)
  /\ UNCHANGED <<active, rostered, called_off, rate, slip>>

----------------------------------------------------------------------------
(* PATCH /payslips/{id}, POST /payslips/{id}/finalize                      *)

Editable == {"additions", "deductions", "tax"}

PatchRead(w) ==
  /\ \E c \in Staff, field \in Editable, amount \in Amounts :
       /\ Exists(c) /\ ~Final(c)
       /\ Begin(w, [doing |-> "patch", crew |-> c, row |-> slip[c], field |-> field, amount |-> amount])
  /\ UNCHANGED <<active, rostered, called_off, rate, slip, period>>

Totals(row) ==
  LET gross == row.pay + row.additions
  IN [row EXCEPT !.gross = gross, !.net = gross - row.deductions - row.tax]

Edited(row, field, amount) == [row EXCEPT ![field] = amount]

\* Mutant: the totals are those of the row before the edit.
PatchWriteStale(w) ==
  /\ payer[w].doing = "patch"
  /\ LET t == payer[w] new == Totals(t.row) IN
       slip' = [slip EXCEPT ![t.crew] =
                  [Edited(@, t.field, t.amount) EXCEPT !.gross = new.gross, !.net = new.net]]
  /\ End(w)
  /\ UNCHANGED <<active, rostered, called_off, rate, period>>

\* The edited column and the totals of the row as it was read are written,
\* whatever the row has become.
PatchWrite(w) ==
  /\ payer[w].doing = "patch"
  /\ LET t   == payer[w]
         new == Totals(Edited(t.row, t.field, t.amount))
     IN slip' = [slip EXCEPT ![t.crew] =
                  [Edited(@, t.field, t.amount) EXCEPT !.gross = new.gross, !.net = new.net]]
  /\ End(w)
  /\ UNCHANGED <<active, rostered, called_off, rate, period>>

\* One update; a second finalize only moves finalized_at.
Finalize(w) ==
  /\ payer[w] = Idle
  /\ \E c \in Staff : Exists(c) /\ slip' = [slip EXCEPT ![c].finalized = TRUE]
  /\ UNCHANGED <<active, rostered, called_off, rate, period, payer>>

----------------------------------------------------------------------------
(* The desk meanwhile, and an instance killed between two calls.           *)

\* POST and DELETE /wage-rates.
SetRate(w) ==
  /\ payer[w] = Idle
  /\ \E c \in Staff, r \in Rates \cup {NoRate} : rate' = [rate EXCEPT ![c] = r]
  /\ UNCHANGED <<active, rostered, called_off, slip, period, payer>>

SetCrewStatus(w) ==
  /\ payer[w] = Idle
  /\ \E c \in Staff : active' = (active \cup {c}) \ (active \cap {c})
  /\ UNCHANGED <<rostered, called_off, rate, slip, period, payer>>

ChangeRoster(w) ==
  /\ payer[w] = Idle
  /\ \/ \E a \in Staff \X Legs : rostered' = (rostered \cup {a}) \ (rostered \cap {a}) /\ UNCHANGED called_off
     \/ \E f \in Legs : called_off' = (called_off \cup {f}) \ (called_off \cap {f}) /\ UNCHANGED rostered
  /\ UNCHANGED <<active, rate, slip, period, payer>>

Killed(w) ==
  /\ payer[w] # Idle
  /\ End(w)
  /\ UNCHANGED <<active, rostered, called_off, rate, slip, period>>

Init ==
  /\ active = Staff
  /\ rostered \in SUBSET (Staff \X Legs)
  /\ called_off = {}
  /\ rate \in [Staff -> Rates \cup {NoRate}]
  /\ slip = [c \in Staff |-> NoSlip]
  /\ period = "none"
  /\ \E deployed \in SUBSET Payers : deployed # {} /\ payer = [w \in deployed |-> Idle]

Handler(w) ==
  \/ GenerateRead(w) \/ GenerateSlip(w) \/ GenerateMark(w)
  \/ PatchRead(w) \/ PatchWrite(w) \/ Finalize(w)
  \/ SetRate(w) \/ SetCrewStatus(w) \/ ChangeRoster(w) \/ Killed(w)

Next == \E w \in DOMAIN payer : Handler(w)

Spec == Init /\ [][Next]_vars
----------------------------------------------------------------------------
(* Properties.                                                             *)

\* "Finalized rows are never touched, so accountants who already paid don't get
\* their figures rewritten": with one process, by no run of the generator and no
\* edit, cut off or not.  Two processes break it: the generator goes by the rows
\* it read first.
FinalizedStands ==
  [][OnePayer => \A c \in Staff : Final(c) => slip'[c] = slip[c]]_vars

\* The totals of a payslip are those of the amounts it shows, after any sequence
\* of runs and edits of one process.
SlipAddsUp ==
  OnePayer => \A c \in Staff : Exists(c) => slip[c] = Totals(slip[c])
=============================================================================
