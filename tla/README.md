# IACM backend: a TLA+ verification project

This directory holds TLA+ models of the crew and flight operations backend
under `src/app`, the TLC configurations that check them, and proofs that TLAPS
checks. Line numbers below are of the sources as they are in this repository.
`PROJECT.json` gives, for every definition, the lines it models.

Contents: 1 the system, 2 how the models see it, 3 the modules, 4 the runs and
what they show, 5 what is proved, 6 expectations the code does not meet,
7 what is not modelled, 8 the plan.

To check something: `tlc -workers 2 -config X.cfg MCModule`, `tlapm ModuleProofs.tla`.

## 1. The system

IACM is a FastAPI application (`app/main.py`) over a Postgres database reached
through the Supabase REST client (`app/db/supabase_client.py`). Airlines
schedule flights, assign crew, publish flights to the crew portal, collect the
crew's acceptance, approve the roster, and issue the General Declaration (GD).

### Components

| Component | Source | State | Operations |
|---|---|---|---|
| Flights, publication, approval, GD | `endpoints/flights.py` | `flights`: publish status, roster finalization, GD status and version, GD downloads | create, update, delete, publish, unpublish, finalize, regenerate, download, clearance |
| Operational status | `flights.py`, `occ.py` | `flights.status`, `delay_minutes` | PATCH status, two delay endpoints, `_advance_due_statuses` |
| Assignments | `endpoints/assignments.py` | `assignments`, unique per (flight, crew) | assign, remove, replace, connected duty |
| Acceptance | `assignments.py` | three flags and their times on the assignment row | acknowledge, decline, respond, admin-confirm |
| Reminders | `assignments.py` | none of its own: it reads `notifications` | daily cron, manual trigger |
| Do-Not-Pair | `incompatibility.py` | `crew_incompatibility` | request, review, cancel |
| Standby desk | `endpoints/standby.py` | `standby_assignments` | create, call out, respond, cancel, delete, expiry and escalation sweeps |
| Operations control | `occ.py` | writes `flights` | change aircraft, actual times, delay, snapshot |
| Crew | `crew.py` | `crew`, user accounts | create, edit, block, delete |
| Compliance | `core/compliance_engine.py`, `endpoints/compliance.py` | none | verdicts on duty, rest, hours, documents, training; the countdown card, the FDP monitor, the readiness board |
| Monthly hours | `core/monthly_hours.py`, `endpoints/monthly_hours.py` | overrides; a cache per process | matrix, statement, profile, ranker, override |
| Payroll | `payroll.py` | wage rates, payslips, periods | set rates, run a month, edit, finalize |
| Leave, bidding | `leave_requests.py`, `bidding.py` | one table each | request, review, cancel; submit and lock |
| Documents | `documents.py` | `documents` | create, update, verify, delete; expiry scan by cron and by hand |
| Maintenance, aircraft | `maintenance.py`, `aircraft.py` | defects; status of the tail | log, resolve and delete a defect; edit the tail |
| Operations manual | `om.py`, `core/om_governance.py` | clauses, some bound to a check | create, change, delete and seed clauses, behind a gate |
| Training, safety, irops | the endpoint of that name | one or two tables each | record keeping, bulk cancellation |
| Messages, notifications, push, WebSocket | `messages.py`, `notifications.py`, `push_service.py`, `websockets/` | inbox rows; connections in memory | send, read, acknowledge |
| Auth, companies, settings | `auth.py`, `companies.py`, `operational_settings.py` | users, sessions, settings | login, refresh, upsert |
| Metrics, alerts, developer tools, dashboards | `services/`, `admin_*.py`, `developer*.py`, `intelligence.py` | samples and roll-ups | read mostly |

### How they interact

Everything goes through the tables; no component calls another except for a few
helpers. The flows that matter:

* assign, remove, replace, connected duty, deletion of a crew member, edits of
  the flight and a change of aircraft all may change what the GD states. After
  their write they call `mark_gd_stale`, which turns `ready` into `stale` on an
  approved flight. The flight's edit and the crew deletion decide whether to
  call it *before* their write.
* Publication, approval, regeneration and download each run gates over the
  assignment rows (`_min_crew_shortfalls`, `_acceptance_blockers`) and then write
  the flight row.
* Acceptance flags are written by the crew and by supervisors, read by the
  approval gates and by the reminders.
* The standby desk inserts an assignment when a reserve accepts; its sweeps write
  the same rows as the desk.
* The two assignment endpoints run the compliance engine and refuse by its issues;
  the suggestion list, the board, the projection, the card and the monitor state
  the same rules again, partly in code of their own.
* The hours of a month are added up by four functions, one of them cached in each
  process; the recording of actual times, overrides and roster changes feed them.
* A clause of the operations manual bound to a check disables, lowers or re-tunes it in
  the compliance engine; a gate decides who may change such a clause.
* Logging a grounding defect writes the tail's status, resolving the last one
  writes it back; scheduling looks at that status.
* Crew are told of their duty by six handlers; whether they *see* it is decided
  by publication, which is why three modules look at the same handlers.

### What is hard

* **No transaction.** Each `execute()` is an HTTP request that commits by
  itself. Handlers read, decide and write in separate calls; updates name the
  row's id, seldom the value that was read.
* **Two deployments.** The Dockerfile and `railway.json` start one uvicorn
  process; the handlers concerned block its event loop while they call the
  database, so they are served one after another. `vercel.json` runs the same
  application as serverless functions, where instances interleave at every
  call. A property may hold of one and not of the other.
* **Failure.** A call may raise between two writes, an instance may be killed.
  Some handlers roll back by hand (replace, connected duty).
* **Time.** Sweeps and the status clock compare wall-clock windows, the cron runs
  once a day, and the same sweep may be run by hand.
* **Long sequences of legal calls.** Approve, edit, regenerate, unpublish and
  approve again; call out, reject and call out again.

### What makes each component correct

* GD: a GD on offer states the roster and flight that were approved; a version
  names one document; approval, publication and download hold their gates when
  they take effect.
* Acceptance: no contradictory flags; a reply tells what the approval will see;
  an acceptance keeps its first time.
* Roster changes: nobody joins a member he must not fly with; no position is
  filled beyond its complement; a rollback removes its own rows only.
* Standby: nobody is called or escalated twice; an unanswered or rejected
  call-out moves on; one that has moved on is closed.
* Reminders: bounded in rate, and sent at all.
* Status: each step is told once, and an overdue flight arrives.
* Notices: who sees a duty has been told, who lost one has been told; the status of
  a notice is the one its stamps call for.
* Compliance: no two flights at once, a duty within the FDP table, rest between
  duties, hours under their limits; screens that agree with the gate.
* Payroll: a final payslip stands, and every payslip adds up.
* Monthly hours: the four accounts agree, and a cached one is not old.
* Documents: reminders keep their distance.
* Maintenance: a tail with an unresolved grounding defect does not fly.
* Leave and bids: the decision that stands is the one its member was told; a lock on a
  bid stays.
* Operations manual: a clause of a critical check is weakened by a Super Admin only.

## 2. How the models see it

* A **worker** is an executing handler of one instance. Its program counter,
  and what it has read and will use later, are its local state. An action is one
  database call that another worker can observe, together with those reads
  before it whose only effect is to refuse the request, or that are repeated by
  the write itself (the UNIQUE constraint repeats the duplicate check).
* **One worker** models the single process, **several** the serverless
  instances. In `Acceptance`, `FlightStatus`, `Staffing` and most of the record keeping
  modules the initial state chooses how many instances are deployed, so one run covers
  both; properties that hold of one process say so (`OneInstance`, `OneClock`, `OnePayer`,
  `OneAuthor` and so on).
* **Faults** (`Faults = TRUE`): a call raises or the instance is killed between
  two calls, in any handler. Where there is no such constant (`Payroll`,
  `Documents`, `CrewRequests`, `Maintenance`, `Delivery`, `OmGovernance`, `FlightStatus`,
  `CrewNotices`, `MonthlyHours`) an action `Killed`, `Fails`, `GiveUp`, `AdvanceFail` or
  `Restart` may end any request.
* **Failures the code swallows** (`except: log`, `except: overrides = []`) are a second
  outcome of the action: the notice that is not sent, the look-up that finds nothing.
* **Data** is cut down to what the rules tell apart. A member is a model value
  with a rank and a category. The fields of a flight the GD states are one value
  (`Docs`), because `mark_gd_stale` treats them alike. PATCH bodies are taken to
  carry operational fields only: the endpoint also accepts any other column, and
  a client that writes `gd_version` by hand is outside the model.
* **The compliance engine** has no state of its own. Its checks are operators over
  the records of one member, shaped like its methods: a check is a set of issues
  and the verdict their worst severity.
* **History variables** (marked "history") record what properties speak of and
  guard no action.
* Definitions commented "Mutant" are plausible wrong versions of the definition
  next to them, and are used by no specification: replacing the right one by the
  wrong one must make TLC find the property violated.

## 3. The modules

| Module | Models | Uses |
|---|---|---|
| `AssignmentRow` | acceptance flags of a row, the writes and the early returns of the five endpoints | |
| `OfficialGd` | abstract: the GD as a numbered series of documents | |
| `Gendec` | roster, publication, approval and GD of one flight | `AssignmentRow`, `OfficialGd` |
| `GendecProofs` | theorems about `Gendec` | TLAPS |
| `Acceptance` | answers to one assignment | `AssignmentRow` |
| `Staffing` | three ways onto a flight and their gates, Do-Not-Pair requests | |
| `StaffingProofs` | theorems about `Staffing` | TLAPS |
| `Standby` | standby rows, call-outs, answers, both sweeps | |
| `StandbyProofs` | theorems about `Standby` | TLAPS |
| `Compliance` | the engine's checks, the clause over them, the gates of both assignment endpoints, the advisory screens, for one member | |
| `ComplianceProofs` | theorems about `Compliance` | `Sums`, TLAPS |
| `FlightStatus` | status of one flight, by hand and by the clock | |
| `CrewNotices` | what the crew are told against what they see | |
| `Delivery` | one notice and its delivery record | |
| `Reminders` | acceptance reminders of one flight | |
| `Payroll` | rates, payslips of a month, edits, finalization | |
| `PayrollProofs` | theorems about `Payroll` | `Sums`, TLAPS |
| `MonthlyHours` | matrix and its caches, statement, profile, ranker, overrides, actual times | |
| `Documents` | documents and the expiry scan | |
| `Maintenance` | defects and the status of the tail | |
| `CrewRequests` | a leave request, a bid and its lock | |
| `OmGovernance` | the clauses that govern checks, and the gate on their changes | |
| `CrewDesk` | `Acceptance`, `FlightStatus`, `CrewNotices`, `Delivery` in one instance | the four |
| `CrewDeskProofs` | theorems about the four | TLAPS |
| `Records` | `Payroll`, `Reminders`, `Documents`, `MonthlyHours`, `Maintenance`, `CrewRequests`, `OmGovernance` in one instance | the seven |
| `RecordsProofs` | theorems about the seven but `Payroll` | `Sums`, TLAPS |
| `Sums` | lemmas: the sum of a function over a finite set | TLAPS |
| other `MC*` | instances for TLC | |

**Gendec** (the core). `roster` holds an `AssignmentRow` per member; `pub`, `fin`,
`gd`, `ver`, `doc` are columns of the flight row. `worker[w]` holds the program
counter, the job, ids and values read. Roster changes: `AssignCrew`,
`RemoveRead/Delete`, `ReplaceInsert/Delete/Fail/Rollback`, `DutyRead` to
`DutyDone`, `DeleteCrewRead/Write`. Flight edits: `UpdateFlightRead/Write`,
`OccChangeAircraft`. They all end in `MarkStaleRead/Write`. Publication:
`PublishRead`, `GateCrew`, `PublishWrite`, `Unpublish`. Approval:
`FinalizeRead`/`RegenerateRead`, `GateCrew`, `GateAccept`, `ApproveWrite`.
Download: `DownloadRead`, the same gates, `LogDownload`. The acceptance answers
are whole-handler steps here; their interleavings are what `Acceptance` is for.
`Official == INSTANCE OfficialGd` maps the version to `gd_version`, the document to
the content last approved, and "on offer" to `gd = "ready"`.

**Acceptance**. One operating row. Each of five endpoints is a read (with its
early returns, that reply from the row read) and a write of the columns of that
answer. `reply` is what was returned last, `restamped` whether a time of
acceptance was overwritten.

**Staffing**. `duty` of each member on the flight, the Do-Not-Pair table, and
workers that carry the roster they have read. Assign reads, gates on what it read
(`KeptApart`, `HasRoom`) and inserts; replace has no capacity gate; connected duty
has a capacity gate of its own (`DutyFits`: riders and members already there
count), no pair gate, and rolls back on failure. Compliance and rank verdicts may
refuse any request, which a model where no request need be made already allows.

**Standby**. One reserve per row. Call-out (`CalloutRead/Write/Notify`), answers
(`RejectRead/Write`, `AcceptRead/Record`, the assignment behind it), cancel,
delete, the expiry sweep (`ExpireRead/Write`) and the escalation sweep
(`EscalateRead`, `Pick`, `Stamp`, `Call`, `Notify`). `World` lets the deadline and
the window pass and lets others assign or remove the reserve. The error text
of a failed assignment is left out, as is the deletion of the flight.

**Reminders**. The clock counts steps of some hours, a step is an interval: at exactly
one cooldown the dedupe may go either way (`SentWithinOr`). What was sent is read
back from the notices, as in the code, and the notices are their recipients' to delete
(`DeleteNotice`, `notifications.py:269`): a reminder deleted is, for the next sweep, one
never sent. `accounts` are the members with an active account, the only ones reminded;
a pending member without one is named to the ops desk. A sweep stops the clock, because
it takes seconds. `last` (history) is when each member was last sent a reminder,
deleted or not.

**FlightStatus**. The clock counts half hours. `AdvanceRead` picks a published flight
whose status is behind `DueStatus`, `AdvanceWrite` updates it by id, `AdvanceTell` tells
the crew, and `AdvanceFail` ends the advance before either; several instances may do so
at once. PATCH and the two delay endpoints and the bulk cancellation of `irops.py` are
single steps. `moved`, `told`, `lost` (history) are the statuses the clock has moved the
flight to, told the crew of, and failed to tell them of, since a hand last moved it.

**CrewNotices**. `on`, `pub`, and `told[c]`: what each member was last told. A notice may
fail, which most handlers log and pass over (`Try`); a replacement may ask for none
(`ReplaceSilently`, the `notify` of the body) or be rolled back (`ReplaceRollback`, which
may fail in turn); the unguarded calls of publish, unpublish and finalize end the
request (`Raise`); the instance may be killed anywhere (`Killed`). `lapse[c]` (history)
says of each member which of these kept a notice from *him* since he was last told
anything. Each property names the lapses it excepts; another member's excuse nothing,
and a later notice clears them.

**Compliance**. One member and a fixed schedule of flights. `via[f]` says how the
member came to be on `f`: through the single-flight gate with every lookup
answering and no clause (`checked`), past an override of the flight time rules
(`overridden`), by a connected duty, by riding or otherwise, or not at all. `doc`,
`training`, `crew` and `om` (the clause bound to a check) change around the checks,
flights are cancelled and reinstated, and one lookup of a request may fail.
`CheckCrew` and `CheckConnectedDuty` are the engine's two entry points, `ApplyOm`
what a clause makes of their issues, `HardBlocks` and `FtlBlocks` the line the
override draws; `AssignCrew` and `AssignConnectedDuty` are the gates. `Legality`,
`Monitor`, `BatchIssues`, `Suggested`, `Projection` are the screens. The gates of
ranks, pairs and capacity are in `Staffing`. Time is in half hours, months and years
have equal length. `recut` (history) says that since the roster was last empty one of
its flights was taken off, cancelled or reinstated, which cuts the duties anew.

**Payroll**. A run of the month reads members, rates and payslips once
(`GenerateRead`) and then saves payslip after payslip (`GenerateSlip`), any number of
which may be lost with the instance. An edit is a read and a write; finalization is
one update. Metrics are computed from the roster: block minutes, night minutes in
half-hour steps, duty days.

**MonthlyHours**. `BuildMatrix`, `BuildStatement`, `ProfileMonth` and `RankerMonth` are
the four functions, each with its own treatment of overrides, deadheads, legs planned to
end before they start, and the end of the month. A matrix is built by `ReadRoster` and
`ReadOverrides`, whose look-up may fail: the matrix is then built as if nothing were
overridden, and kept like any other. `cache[w]` is the matrix cache of process `w`;
`Tick` ages it, `Restart` loses it. What an entry was built from (`over`, `ok`) is history.

**Documents**. `ScanRead` selects the documents due, `ScanNotify` and `ScanStamp` are
the notice and the stamp of one. **Maintenance**. `CreateDefect` then `GroundTail`;
`UpdateDefect`, `CountGrounding`, `ReleaseTail`; the tail may also be edited by hand.
**CrewRequests**. A review is a read of the request, a write of its status and a notice
that may fail; a cancellation by the member or by a manager is a read and a deletion. A
bid is checked against the lock, and updates the row the request has read or inserts
one; locking writes the rows there are. All of them interleave, on any number of
instances. **Delivery**. The insert of
a notice and of its record, the reads and acknowledgements of the app, and the
dashboard's time-out sweep, which writes statuses as it lists them.

**OmGovernance**. `article[a]` is what the gate and the engine read of a clause. `Protected`
is `evaluate_governance_change`: the changes only a Super Admin may make, with a reason. It
decides on the JSON of the body, where a flag is `true`, `false` or something else
(`"text"`) that the test `is False` lets by and the table stores as false (`Stored`). A
creation and an update are a read, where the gate decides, and a write; deletion and
seeding have no gate. `way[a]` (history) says how a clause that now lets a breach of its
check pass came to do so: `sanctioned`, `seeded`, `dormant` (bound while inactive),
`untyped` (disabled by a value that is not false itself) or `unsanctioned`. What such a clause does to the checks is `ApplyOm` of `Compliance`.

## 4. The runs

| Run | Instance | States | Shows |
|---|---|---|---|
| `gendec` | one process, captain and hostess, floor 1 pilot and 0 cabin, two documents, `gd_version` up to 2 | 830 000 | GD is fresh, one content per version, versions count approvals, gates hold as they take effect, implements `OfficialGd`, drift is flagged at last |
| `gendec_faults` | the same with faults and a cabin floor of 1 | 819 000 | which of these survive failures |
| `standby` | two rows, one flight, one process, faults | 2 780 000 | nobody notified or escalated twice, sweeps hand over |
| `standby_late` | two rows, one process | (violation) | a late acceptance of a call-out that has moved on |
| `staffing` | two pilots, cap 1, two Do-Not-Pair requests, overrides, one or two instances | 1 101 000 | gates and rollback |
| `staffing_duty_dnp` | two members of two positions | (violation) | a connected duty joins a couple kept apart |
| `compliance` | one member, five flights on two days, five connected duties, six clauses, five documents, a clock of two instants, at most three flights on the roster | 24 300 | no overlap, FDP, the monthly cap, screens against gate |
| `compliance_double` | the same | (violation) | a connected duty over a flight at the same time |
| `compliance_rest` | the same | (violation) | rest is checked before a flight, not after it |
| `crewdesk` | one of four machines: one to three instances answering for a row; a clock to 6 half hours with one or two instances; two members to be told; one or two dashboards | 270 000 | flags and replies agree; the crew are told once of each status the clock sets, and overdue flights arrive; notices against visibility; the status of a notice |
| `crewnotices_audit` | two members | (violation) | a failing audit row silences publication |
| `records` | one of seven machines: one member and two legs; a member and the ops desk for 6 steps; two documents for four days; two sectors, one or two servers; two defects; a request and a bid, one or two clerks; one clause, one or two editors | 1 503 000 | payslips, reminders, documents, hours, tails, requests and clauses |

### Two instances of several machines

The machines of `CrewDesk` write different rows, or different columns of a row, and
read nothing of one another's; so do those of `Records`. Running them side by side
would multiply their states and show nothing more. The variable `machine`, chosen at
the start, says which one runs; the others rest in an initial state. Every property is
the one stated in the machine's own module. Where the program does connect two of
them (publication is read by answers, clock and notices alike), each module has that
column as a variable of its own and changes it freely.

### Why the bounds are enough

* *One flight, one row, one member.* The rules modelled are per flight and per
  row. Relations between members (floor, capacity, pairs, replacement) need two. In
  `Gendec` two members of different categories let each part of the floor fail
  by itself; the first run lifts the cabin floor so that a flight with one
  member can be approved and every change of crew happens on an approved flight.
* *MaxVersion = 2.* A GD can be approved, made stale, regenerated and downloaded
  under both versions, which is what `OneContentPerVersion` needs.
* *Two requests* for two directions of one couple: an approval, a re-review and
  a successor.
* *Two standby rows*: one that fails and the candidate it moves to, which may in
  turn fail and exhaust the list.
* *Reminders*: the intervals are scaled down and keep their order: urgent 1 step,
  follow-up 1, gentle cooldown and day 2, lookback 3 (6 h, 6 h, 24 h, 24 h and 48 h in the
  code). The clock goes to 6, so that a reminder does fall out of the lookback, a member
  may wait for longer than a lookback and a day, and a delay of one step fits in. A flight
  that leaves later than that is seen only up to the bound.
* *FlightStatus*: the clock reaches the arrival of a flight with the longest delay (4 + 2).
* *CrewNotices*: two members, one of whom may have a lapse of which the other is free; the
  theorem is for any crew.
* *Compliance*: the five flights give a rotation with a turn at an outstation, a gap
  that is neither a turn nor a rest, a rest of exactly the minimum, and an overlap;
  three flights may pass the month's limit (14 half hours) and the 28-day limit (16).
  The clock stands inside the rotation, before the other duties, and in the next month. One thing
  is out of the ordinary at a time (`Ordinary`): a clause, a status, a document, a
  training record or a cancelled flight; a failed lookup comes on top of none, and only
  at the first instant. FDP
  rows are those of `migrations/2026_05_23_fdp_rules.sql`.
* *Payroll*: one leg begins before 22:00 and ends after it, one crosses the end of the
  month; one member, since payslips do not depend on one another, and one amount an
  accountant may enter. *MonthlyHours*: one sector in the month, planned
  to end before it starts (times recorded, in order or not, may replace that), one past
  its end, a cache that lives one tick. *Documents*: two, since a scan cut off between them is
  the interesting case; *Maintenance*: two defects, so that one stays open.
  *OmGovernance*: one clause, since the gate looks at no other; the changes are each field
  by itself and one that binds it as blocking.

`CHECK_DEADLOCK FALSE` is set for `Standby`, whose row ids are used once (when all rows
are deleted nothing is left to do), for `CrewDesk` (a notice deleted before its record
was written) and for `Records` (the last day, with every document deleted).

### Fairness

* `Gendec!FairSpec`: weak fairness of `Continue(w)`, the next call of a handler
  that has started. The process schedules its handlers and they do not wait for
  each other. Nothing makes anybody send a request. Run without faults: a killed
  handler makes no further call.
* `FlightStatus!FairSpec`, taken over by `CrewDesk!DeskSpec`: weak fairness of `Tick`
  (time passes) and of each instance's advance, and strong fairness of its update: calls
  fail, but an update that is tried again and again does not fail for ever. The advance runs in `GET /flights`, which the apps poll; a
  system nobody looks at does not advance, and the property says nothing of it.
* The other modules state what must happen as safety, at points where no
  handler is running (`HandoverHappens`, `SweepHandlesRejections`,
  `PendingIsReminded`, `NoticesMatchPortal`, `GroundedTailsStay`): the cron is part of the clock of
  `Reminders` (time does not pass a due run), so no fairness is needed.

### Violations the project keeps

Each is listed under "findings" with the sentence of the code it contradicts.

* `MovedCallIsClosed` (`standby.py:413`): `respond` does not look at
  `escalated_at`. The deadline passes, the sweep stamps the row and calls the next
  candidate, the first reserve accepts, and both are assigned.
* `DutyKeepsPairsApart` (`assignments.py:980`): "ALWAYS enforced" is true of assign
  and replace; the connected duty has no such gate.
* `AuditIsBestEffort` (`flights.py:643`): the `except` around the audit insert of
  `publish` logs through `log`, a name assigned further down in the function and
  therefore a local not yet bound. The failure meant to be swallowed raises, after
  the flight was published and before anybody was told; publishing again is a
  no-op.
* `NoDoubleBooking` (`compliance_engine.py:329`): "time conflict / double booking" is a
  hard block by `assignments.py:517`. The check of a connected duty looks at overlaps
  within the duty and at rest before it, not at the member's other flights.
* `RestKept` (`compliance_engine.py:1467`): "anything else ⇒ MIN_REST_HOURS applies"
  (line 1396). `_check_rest` looks at the last arrival before the new flight, so the
  order of assignment decides: the later flight first, then the earlier one, and no
  rest is asked for between the two.

## 5. What is proved

Every safety invariant and action property that a passing run checks is a theorem, for
any values of the constants that satisfy the assumptions named in the modules. The bounds
`MaxVersion` of `Gendec`, `MaxRoster` of `Compliance`, `MaxTime` and `MaxDelay` of the clocks may
be any number. "Any instances" is any number of processes, interleaving at every call.

| Theorem | Says | Assumes |
|---|---|---|
| `GendecProofs!TypeCorrect` | `TypeOK` | any workers, faults |
| `GdStatusNeedsFinalization` | `GdOnlyWhenFinalized` (checked by no run: a step of the others) | any workers, faults |
| `DownloadsUnderApprovedVersions` | `IssuedWasApproved` | any workers, faults |
| `EveryApprovalIsAVersion` | `VersionCountsApprovals` | one process; faults allowed |
| `ReadyGdIsApproved`, `VersionsNameOneDocument` | `GDFresh`, `OneContentPerVersion` | one process, no faults |
| `DecisionsAreCleared`, `DownloadsAreCleared` | `DecisionsCleared`, `DownloadCleared` | one process, no faults |
| `GdIsOfficial` | `Spec => Official!Spec` | one process, no faults |
| `StaffingProofs!RollbackDeletesOwnRows` | `RollbackIsOwn` | any instances |
| `PairsStayApart`, `PositionsKeepTheirCap` | `PairsKeptApart`, `WithinCap` | one process, in the property |
| `StandbyProofs!StandbyTyped` | `TypeOK` | any instances, faults |
| `NobodyIsCalledTwice`, `EscalationsHandOver` | `CalledOnce`, `HandoverHappens` | one process; faults allowed |
| `SweepsSpare`, `SweepsHandleRefusals` | `SweepsSpareTheCalled`, `SweepHandlesRejections` | one process; faults allowed |
| `CrewDeskProofs!AnswersAreConsistent`, `RepliesAreTrue` | `NeverBoth`, `RespondReplyIsTrue` | any instances |
| `AcceptanceIsIdempotent` | `AcceptedAtPreserved` | one instance, in the property |
| `CrewIsToldOnce` | `ToldOnce` | one process, in the property; faults at any call |
| `CrewIsToldOfTheirDuty`, `DraftsStaySilent` | `NoticesMatchPortal`, `DraftStaysSilent` | one process (`OneCaller`); faults allowed |
| `StatusFollowsStamps` | `StatusTellsStamps` | one process, in the property |
| `ComplianceProofs!SinglesNeverOverlap` | `SinglesDontOverlap` | any schedule, FDP table, limits, clauses |
| `DutiesStayWithinFdp` | `DutyWithinFdp` | the same |
| `MonthStaysCapped` | `MonthCapAtAssign` | the same |
| `AdviceStands`, `ScreensStayAgreed` | `AdviceHolds`, `ScreensAgree` | the same |
| `PayrollProofs!FinalPayslipsStand`, `PayslipsAddUp` | `FinalizedStands`, `SlipAddsUp` | one process, in the property |
| `RecordsProofs!RemindersStaySpaced` | `RemindersSpaced` | one process (`OneSweeper`); faults and deletions allowed |
| `WhoeverIsPendingIsReminded` | `PendingIsReminded` | any instances, any deletions; `Cooldown <= Horizon` |
| `RemindersOfDocumentsAreSpaced` | `DocRemindersSpaced` | one process, in the property |
| `TotalsMatch` | `HoursAgree` | any sectors, times, blocks of either sign and overrides |
| `MatrixStaysRecent` | `MatrixIsRecent` | any instances, failed look-ups |
| `DecisionsAreTold`, `LockedBidsStay` | `ReviewIsTold`, `LockHolds` | any instances, faults |
| `GroundedTailsAreKept`, `WeakClausesAreSanctioned` | `GroundedTailsStay`, `WeakIsSanctioned` | one process, in the property |

### The hypotheses, and what justifies them

* *One process* is the deployment of the Dockerfile and `railway.json`. For
  most of these properties two processes are known to break it (section 6).
* `Cooldown <= Horizon`: 24 h and 48 h in `assignments.py`. With a longer cooldown the
  gentle tier would skip a member whose last notice the promise no longer counts.
* *Assumptions on constants* are those the code needs to mean anything: finite sets where
  things are counted or added (`CrewAssumption`, `PayAssumption`, `HoursRead`), times that
  are numbers (`FlightTimes`, `ReminderTimes`, `DocumentDays`, `ScheduleAssumption`,
  `LimitAssumption`), a flight that departs before it arrives and no two departures of
  a member's flights at the very same time. TLC evaluates each of them on every run.

### The arguments

**Gendec**, in three layers, defined at the end of `Gendec.tla`:

1. `AnyInv`, which holds whatever interleaves and fails. A GD status exists
   exactly for finalized flights, and a worker that is about to change it
   (`staleWrite`, `regenerate`, `download`) read a finalized flight or a
   positive version. Nothing un-finalizes a flight, so what it read stays true.
2. `VersionInv`, which adds that with one process the version a handler has read
   is the current one, so that the write of `ver + 1` is an increment.
3. `SerialInv`, for one process without faults. `GDFresh` alone is not inductive,
   because between a roster change and its stale hook a ready GD *is* out of date.
   The invariant says in which program points this may be (`HookPending`), that
   the decision two handlers take before their write is still right when they
   write, and that what the gates have seen is what is there. Issued documents
   carry at most the current version, and those of the current one state what was
   approved.

`GdIsOfficial` follows from the third: an `ApproveWrite` is an `Approve` because
the version is current, a `LogDownload` an `Issue` because the content seen is the
content approved, a `MarkStaleWrite` a `Withdraw` or a stutter.

**Staffing**. Whoever holds the id of a row holds an existing row, and a row a
connected duty holds has been inserted by it (`HeldInv`). It is preserved
because a pair (flight, crew) that exists is not inserted, and a deletion by id
takes that id from all its holders. A deletion by (flight, crew) would break it.
`GateInv` adds what a handler knows at each of its calls (`GateSound`): the roster it has
read is the roster, the pair gate it has passed still holds against it, and there is
room for those it is about to insert. `WithinCap` then is arithmetic of cardinalities: one
more operating member is one more in one position and none in the others.

**Standby**. `IInv` says of a row that its counters agree with its stamps (nobody notified
without being called, none escalated twice), of a handler what it has read and is still
so (`DeskSound`, `SweepSound`), and of an escalation that its candidate has been called, was
deleted, or is about to be called (`HandoverSound`). The list a sweep carries is of open
call-outs and misses no refusal, which is what makes it spare those who accepted and
handle everybody who refused. TLC has checked `IInv` on the instance of the run.

**Acceptance**. Every write sets its columns so that the flags agree, whatever row
it lands on, and replies in the same step (`FlagsInv`). That no acceptance is
stamped twice needs the row read to be the row written, which is one instance
(`StampInv`).

**FlightStatus**. `MovedInv`: a status the clock has set was due, and only a hand, which
clears what was set, brings a flight back before it; `AdvanceInv`: a status about to be
written is due and neither it nor a later one has been set; `RungInv`: the crew were told
of what was set, but for what was lost or is about to be told. Hence what is written next
was never told before.

**CrewNotices**. `NoticeInv` says whom the handler under way is about to tell (`Joining`,
`Leaving`). Whoever sees the flight has been told, or is among the first, or a lapse of his
own is the reason (`Forgets`); whoever was last told that he flies does, or is among the
second, or a lapse of his own misleads him (`Misleads`). In the middle of a replacement the
newcomer is not counted on, for he may be rolled back (`Standing`). When nobody is under way
`Joining` and `Leaving` are empty, which is the property. A call that fails or is cut off
moves those it would have told from there to the lapses (`TryIs`, `HandlerLoses`).

**Delivery**. With one dashboard the status a sweep has decided on is still the one the
record calls for (`SweepTold`).

**Compliance**. *Overlaps* (`IInv`): a flight given by the single-flight gate under no
clause meets no conflict issue, because no clause is bound to it (`NoClauseKeeps`), it is
hard (`ConflictIsHard`), and the check counts every flight on the roster, cancelled ones
too. *FDP* (`DutyInv`): a flight added to a roster whose flights do not overlap leaves
every other duty as it was, joins the one or two next to it, and what they become is what
`_check_fdp` looked at (`DutiesStay`, `CutStays`, `CutComes`). *The cap*: hours are the
cardinality of the half hours flown, so that adding a flight adds at most its block, and
the month of the flight lies in the window the check adds up (`MonthIsCovered`).
*Screens and advice* hold in every state: each check is shown equal to its findings
(`...Findings`), and the engine, the board, the score and the projection to a condition on
these. First and last flight of a duty exist by induction over finite sets (`SomeLeast`).

Trying to prove `DutyWithinFdp` as it was first stated, for flights cancelled and reinstated and
removed at will, showed that it is false: a flight from 06:00 to 16:30 is checked, one from 07:00
to 08:00 ridden, one from 19:00 to 23:30 checked, whose duty begins anew because the arrival
before it was at 08:00. Taking the ridden one off the roster joins the other two in a
duty of 17.5 hours and checks nothing. The five flights of the run do not show it. The
property now says what such steps cut anew (`recut`).

**Payroll**. `FinalizedStands` is not inductive, since a run saves payslips by a list read
before. `FinalInv` says what each request carries (`TasksOK`), that payslips keep their
fields (`SlipsOK`), and that with one process nothing final is on the list of a run or
in the hands of an edit (`NothingFinalHeld`): finalization is a request of its own, and
comes before a run has read or after it has ended. `AddUpInv` adds that every amount is a
number and that the payslip an edit has read is the payslip (`TasksPay`); what a run
makes of a roster adds up because a sum over legs is a number (`Sums`).

**Reminders**. `SpacedInv`: with one sweep, the notices it is about to send are a cooldown
or a lookback after the last of their kind that is still there, whatever the cron and the
hand do; a deletion only takes notices away. `ServedInv`: the cron has
run at every whole day before now, and whoever could be reminded then has been, at
most a lookback before that day (a notice the dedupe saw was sent then, and one deleted
meanwhile was sent nonetheless); a member just found is on the list.

**Documents**. `DocInv`: stamps tell when the crew were told, but for the documents
whose scan was cut off, so that what a scan finds due was told a cooldown ago.

**MonthlyHours**. `HoursAgree` is a fact about the tables, in any state: the matrix adds up by
days, the statement by sectors, and a sum may be taken by groups (`SumOfGroups`). Leg by leg
the statement credits what the matrix does, or nothing where the matrix subtracts
(`LegCredit`), so that its sum is no smaller (`SumGrows`) and the same where no leg is
reversed. `CacheInv`: what a cache holds is the matrix of the tables, with or without the
overrides as its look-up went, or the time it has left and the age of the last change come
to at most the life of an entry; on the last editor's server it has his override if it
could read it. `ReadsTyped` says the same of a matrix half read.

**CrewRequests**. `DeskInv`, for any instances: if nothing was missed, every notice on its way
says what the table says; the bid is locked exactly if it has been, because no write has the
lock among its columns.

**Maintenance, OmGovernance**. What a request has read or decided still
holds when it writes (`TailInv`, `GateInv`). For the manual the rest is
`GateSuffices`: by cases on the row before and after, a change the gate does not protect
leaves a clause weak only if it was, if it is a blocking one bound while inactive, or if the
value that disables it is not false itself.

**CrewDesk** and **Records** run one machine: a behaviour of `DeskSpec` is one of each
machine's own specification (`ClockRuns`, `HoursRun` and so on), from which the theorems are
taken over.

**Sums**. Totals are `SumFunctionOnSet`, a recursion over the set. The induction theorems of
the library take a predicate as a parameter, which the provers cannot instantiate;
`Sums` has them with a set in the place of the predicate (`UpFrom0`, `UpFromEmpty`) and derives that
a sum is a number, depends on the values only, splits and may be taken by groups.

### Only model-checked

* `DriftIsFlagged` and `OverdueArrives`: liveness under fairness, beyond what TLAPS proves, as is
  ENABLED.
* The five runs that expect a violation, and the statements of section 6, are refuted by
  a counterexample, which needs no proof.
* That no machine is stuck (deadlock), and that every action can be taken: TLC's
  coverage of the runs.

## 6. Expectations the code does not meet

Some stronger or more general readings fail. They are stated in the modules
and not in a configuration; each can be reproduced by the change given. They are
kept because they say how far the positive results go.

| Property | Change to reproduce | What happens |
|---|---|---|
| `PublishedMeetsFloor` | add to `Gendec.cfg` | crew are removed after publication; the floor is checked at publication only |
| `GDFresh`, `VersionCountsApprovals` | `Gendec_faults.cfg` with `Workers = {w1, w2}`, `Faults = FALSE`, `NeedCabin = 0` | a removal between the gates and the approval; two approvals write the same version |
| `TaskingMatchesCall` | `Standby_late.cfg` with `Flights = {f1, f2}`, `Rows = {r1}` | a second call-out keeps the first one's answer and assignment |
| `SweepsSpareTheCalled`, `CalledOnce` | `Standby_late.cfg` with two workers, one row | the sweep expires a row called out since it was read; two call-outs both notify |
| `ConfirmReplyIsTrue` | add to `CrewDesk.cfg` as an INVARIANT | admin-confirm answers from the pin a legacy decline has left |
| `DepartedNeedsSupervisor` | add to `CrewDesk.cfg` as a PROPERTY | legacy acknowledge undoes a decline after departure |
| `ToldOnce` | drop the antecedent `OneClock`, `CrewDesk.cfg` | two lists advance the flight at once, and both tell |
| `NoticesMatchPortal`, `DraftStaysSilent` | `CrewDesk.cfg` with `NoticeWorkers = {w1, w2}` | the notice of a removal is written after the member was put back; assign takes the flight for a draft, publish has read the roster before; one instance withdraws what another is about to announce |
| `HandsStand`, `ClockMovesForward`, `DelayedLeaves` | name them in `CrewDesk` as `FS!...`, add to `CrewDesk.cfg` as PROPERTIES | the clock of a second instance overwrites what a hand has set since it read, a cancellation included; a flight sent off by hand before its departure time is moved back to boarding; `delayed` is not advanced |
| `RemindersSpaced` | `Records.cfg` with `Workers = {w1, w2}` | two sweeps at once |
| `RemindersSpaced` of every reminder sent | state it of `last`: `SendReminder` only a cooldown after `last[m]` | a member who deletes a reminder is sent another by the next run by hand, within the cooldown, or a second urgent one |
| `HoursAgree` | drop the antecedents on `Reversed` | a leg planned to end before it starts is subtracted by the matrix and the ranker, left out by the statement and the profile |
| `MatrixIsRecent` | drop `e.ok` from its first conjunct | a failed look-up of the overrides is cached: the matrix read next does not show the override, for 45 seconds |
| `UrgentBeforeDeparture` | name it in `Records` as `RM!...`, `Records.cfg` with `Faults = FALSE` | a daily cron does not meet a six-hour window |
| `OneActiveRequest` | add to `Staffing.cfg` | a rejected request is approved after its successor was filed |
| `OperatingWithinCap` | `Staffing_duty_dnp.cfg` with `Crew = {p1, p2, p3}` | a replacement across positions skips the capacity gate |
| `PairsKeptApart`, `WithinCap` | drop the `OneInstance` guard, `Staffing.cfg` | two instances both find room |
| `DutyWithinFdp` | drop the antecedent `~recut`; f1 checked, an overlapping f5 ridden, f2 after f1 with no break checked | f5 keeps f1 and f2 in two duties; taking it off the roster makes one of them, beyond the table, and nothing is checked again |
| `MonitorMatchesAssignment` | add to `Compliance.cfg` | two flights with a gap of exactly ten hours are a rotation to the gate and one long duty to the monitor |
| `WeakenedUnderGate` | name it in `Records` as `machine = "clauses" => OG!...`, add to `Records.cfg` | a seeded clause passes no gate; a blocking clause may be bound while inactive, which disables its check; and `"is_active": "false"` or `0` is not `is False` to the gate and false to the table |
| `FinalizedStands`, `DocRemindersSpaced`, `StatusTellsStamps`, `GroundedTailsStay`, `WeakIsSanctioned` | drop the antecedent `OnePayer`, `OneScanner`, `OneDashboard`, `OneEngineer`, `OneAuthor`; two servers of the kind in the configuration | each relies on requests being served one after another |

Where the code says one thing and does another without a property of its own to
break, or where two parts of it disagree, the models follow the code. These are the
disagreements met while translating; none is a finding, and each is visible in the
definition named.

*Compliance engine* (`Compliance`).

* A safety check that errors is to block (`compliance_engine.py:1309`). A failed look-up of the FDP table is a
  WARNING, a failed look-up of hours, documents or training CRITICAL, and an
  assignment passes under both; only conflict, rest and crew look-ups block.
* `batch_readiness` takes unreadable documents or training records for none at all,
  and the readiness buckets have none for hours that could not be read.
* "An inactive clause never changes the law" (`compliance_engine.py:2000`), but
  `_apply_om` drops the family of issues of any clause bound to the check (2051).
* `suggest` is described as following the authoritative engine and runs the batch of
  advisory checks.
* An inactive or terminated member fails the full check and not the riding check; a
  riding duty skips the conflict check and yet counts as flown and as duty.
* `update_flight` re-times a flight, and cancelling is undone, without any check being run
  again. Cancelled flights are skipped by the FDP and by the hours, and counted by
  the conflict and rest checks.
* Over the 28-day limit is CRITICAL for an assignment and BLOCKED on the legality card.
* The monitor's "today" shows another duty for one that began the day before.

*Hours and pay* (`MonthlyHours`, `Payroll`).

* The month of the profile and of the ranker has no upper bound, and both ignore
  overrides; so does the statement's table by aircraft. A statement and a matrix
  count working days differently.
* "So totals match exactly" is true of sectors that end after they start. `create_flight`
  (`flights.py:325`) compares no times, where `schemas/flight.py:22` would; the matrix and
  the ranker subtract a negative block, the statement and the profile leave it out.
* "Overrides must show on the next matrix read" is true if they can be read. A look-up that
  raises is swallowed (`monthly_hours.py:405` for the matrix, 773 for the statement), and the
  matrix so built is cached like any other; a statement made meanwhile shows the override.
* A super administrator's override is stored under his own company. A cached matrix of
  another process may be 45 seconds old; two instances may store an arrival before
  the departure, each having validated against what it read.
* The metrics of a payslip are documented to count a flight that touches the night as a
  whole (`payroll.py:156`), and step through it by half
  hours. A run of the month overwrites edits (its `force` is not read). Hours as a
  passenger are paid. Nothing undoes a finalization, and repeating it moves its date.

*Records* (`Documents`, `CrewRequests`, `Maintenance`, `Delivery`).

* A document stays verified when its expiry is edited. A scan cut off between a notice
  and its stamp repeats the notice; on the last day of validity the text says expired.
* The review of a leave request looks at no status and never touches the member's. With
  two instances a member may delete a request that has just been approved; two reviews that
  cross may tell their decisions in the other order.
* "Once the scheduler locks the month ..., the bid becomes read-only for the crew"
  (`bidding.py:7`), "all writes are refused" (101): the lock is on rows, so
  the first bid for a month after its lock is accepted, and with two instances a write that
  read its row before the lock still changes the wish of the locked bid.
* The docstring of the defect endpoints says that the tail returns to service when the
  last grounding defect is resolved; resolving *any* defect does that to a tail in
  maintenance. A defect that is reopened or made grounding by PATCH does not ground,
  and deleting the last grounding one leaves the tail on the ground.
* "Stamp both if unset" (`notifications.py:192`), but `delivered_at` is not. Reading all
  notices leaves their delivery records unread, and reading one of them later
  returns early.
* The bulk cancellation tells nobody and does not touch the GD.

*Operations manual* (`OmGovernance`, `Compliance`).

* The gate sees `False` itself (`after.is_active is False`, `om_governance.py:55`) in a body whose
  fields are not typed. 0 or `"false"` passes it, on an update as on a creation, and is false
  to the table and the engine.
* Unbinding a critical clause is gated, deleting it is not, although both leave the check to
  its own rule; seeding is not gated either.
* The gate protects blocking to warning, and neither warning to informational nor
  parameters set before a clause is bound.
* Engine rules are read without the company, and of several clauses of one check the last
  row read governs (`_load_om_rules`, `compliance_engine.py:1975`).

## 7. What is not modelled

* The *re-timing* of a flight against `Compliance`: schedules are fixed there, and the
  endpoint runs no check. Creation of flights and of members, and deletion of a
  flight: the models are of a flight and a crew that exist.
* A kill between the stamp of a failed call-out and the call of its candidate loses
  the hand-over; `HandoverHappens` and `SweepHandlesRejections` except it (`cut`).
* Safety reports, MEL items and scheduled
  checks, lodging and transport: records with few rules, none of which another
  part reads. Texts, visibility and audit of the operations manual.
* That the cron visits active companies only, and each by itself: the models are of one
  active company.
* Messages, broadcast, device tokens: written, and read by their recipient. Push
  delivery is an external service.
* Log-in and tokens: a token carries its state. The registry of WebSocket connections and the
  throttle are memory of one process and lost with it.
* Settings: a validated upsert; its values are constants of the models. The alert engine
  sends on a threshold at every run; metrics are observability.
* Audit rows and free-text notices are written and not read back, apart from where
  their failure matters (`CrewNotices`).
* Layout (PDF, spreadsheets), dashboards, ranking scores, AI suggestions: reads.
* The SQLAlchemy models and repositories are not used by the endpoints.

## 8. Plan

Done: the modules of section 3, one run for each question, and a theorem for every safety
property a passing run checks.

Next theorems, in this order:

1. What two instances keep: `GDFresh`, `CalledOnce` and the capacity gates fail with several
   processes; the weaker statements that survive (at most one more per process, a GD
   stale at the latest when all hooks have run) are worth stating and proving.
2. Faults in `Gendec`: what of `DecisionsCleared` survives a handler cut off anywhere.
3. Abstract specifications of the standby desk (a call moves along a list, once) and of the
   reminders (a series of notices), and refinements as for the GD.
4. `Compliance` under a clause: which of the gates' promises a clause that only tightens
   leaves standing.

Next modules:

1. Re-timing: `update_flight` and the delay endpoints against `Compliance`, with a
   schedule that is a variable: how far a delay carries a duty past its limits
   without any screen saying so.
2. Deletion of a flight across `Gendec`, `CrewNotices` and `Standby`.
3. `Standby` with `Gendec`'s hook: an accepted call-out changes the roster.
4. The receipts of `finalize`, which are written outside any guard.

Bounds as today: one flight or one member, one or two instances, clocks of at most eight
steps; each run under five minutes.
