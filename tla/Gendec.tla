------------------------------- MODULE Gendec -------------------------------
(***************************************************************************)
(* One flight of the IACM backend: its roster, its publication, and the    *)
(* approval / General-Declaration (GD) lifecycle.                          *)
(*                                                                         *)
(* Every database call of the backend is an HTTP request that commits by   *)
(* itself; no handler holds a transaction.  A handler is therefore a       *)
(* sequence of calls made by a worker, and each action below is one call   *)
(* that other workers can observe, with the handler's earlier reads whose  *)
(* only effect is to refuse the request: the duplicate check of            *)
(* assign_crew, say, which the UNIQUE constraint repeats at the insert.    *)
(* Calls that only write audit or notification rows are left out: nothing  *)
(* here reads them.                                                        *)
(*                                                                         *)
(*   Workers = {w}       the single uvicorn process of the Dockerfile: a   *)
(*                       handler runs to its end before the next starts.   *)
(*   |Workers| > 1       the serverless deployment of vercel.json: handlers*)
(*                       of several instances interleave at every call.    *)
(*   Faults = TRUE       a call may raise and an instance may be killed    *)
(*                       between two calls.                                *)
(***************************************************************************)
EXTENDS AssignmentRow, Naturals, FiniteSets

CONSTANTS
  Crew,         \* crew members of the company
  Captains,     \* those whose rank is a captain's
  Pilots,       \* those of category "pilot" (captains included)
  Cabin,        \* those of category "cabin"
  NeedPilots,   \* min_required_for_category(type, "pilot")
  NeedCabin,    \* min_required_for_category(type, "cabin")
  Docs,         \* values of the GD-impacting flight fields (REG, times, type)
  NoReg,        \* the value of those fields while the REG is still missing
  Workers,
  Faults,       \* BOOLEAN
  MaxVersion    \* bound: no approval starts at this gd_version

ASSUME CrewAssumption  == Captains \subseteq Crew /\ Pilots \subseteq Crew /\ Cabin \subseteq Crew
ASSUME NeedAssumption  == NeedPilots \in Nat /\ NeedCabin \in Nat
ASSUME DocsAssumption  == NoReg \notin Docs
ASSUME FaultAssumption == Faults \in BOOLEAN
ASSUME BoundAssumption == MaxVersion \in Nat

VARIABLES
  roster,     \* assignments of the flight: one row at most per crew member
  pub,        \* publish_status = 'published'
  fin,        \* roster_finalized_status = 'finalized'
  gd,         \* gd_status: "none" | "ready" | "stale"
  ver,        \* gd_version
  doc,        \* the GD-impacting fields of the flight row
  worker,     \* what each worker is executing
  approved,   \* history: the content the last approval was decided on
  approvals,  \* history: number of approvals written so far
  issued      \* history: [ver, content] of every GD download recorded

flightVars == <<pub, fin, gd, ver, doc>>
history    == <<approved, approvals, issued>>
vars       == <<roster, flightVars, worker, history>>

AllDocs == Docs \cup {NoReg}

\* What a GD document states: who is on board in which duty, and the flight.
Contents   == [crew : [Crew -> Duties \cup {"none"}], doc : AllDocs]
Duty(r)    == [c \in Crew |-> r[c].duty]
Content    == [crew |-> Duty(roster), doc |-> doc]

Operating  == {c \in Crew : roster[c].duty = "operating"}
OnFlight   == {c \in Crew : Present(roster[c])}

\* _min_crew_shortfalls returns the empty list.
MinCrewMet ==
  /\ Operating \cap Captains # {}
  /\ Cardinality(Operating \cap Pilots) >= NeedPilots
  /\ Cardinality(Operating \cap Cabin)  >= NeedCabin

\* _acceptance_blockers returns the empty list.
AllAccepted == \A c \in Crew : ~BlocksApproval(roster[c])

----------------------------------------------------------------------------
(* Workers.                                                                *)

Jobs == {"none", "publish", "finalize", "regenerate", "download"}
PCs  == {"idle",
         "removeDelete", "crewDelete", "updateWrite",       \* before the write
         "replaceDelete", "replaceRollback",
         "dutyInsert", "dutyRollback",
         "staleRead", "staleWrite",                          \* the stale hook
         "gateCrew", "gateAccept", "approveWrite", "logDownload",
         "publishWrite"}

LocalState == [pc    : PCs,
               job   : Jobs,
               todo  : SUBSET Crew,    \* rows still to insert (connected duty)
               mine  : SUBSET Crew,    \* rows whose id it holds and that still exist
               dirty : BOOLEAN,        \* it must run the stale hook at its end
               ver   : Nat,            \* gd_version as read
               doc   : AllDocs,        \* flight fields read, or about to be written
               seen  : Contents]       \* content its gates have read

Idle == [pc    |-> "idle", job |-> "none", todo |-> {}, mine |-> {},
         dirty |-> FALSE,  ver |-> 0,      doc  |-> NoReg,
         seen  |-> [crew |-> [c \in Crew |-> "none"], doc |-> NoReg]]

IsIdle(w)  == worker[w].pc = "idle"
At(w, pc)  == worker[w].pc = pc
Become(w, s) == worker' = [worker EXCEPT ![w] = s]
Goto(w, pc)  == Become(w, [worker[w] EXCEPT !.pc = pc])
Finish(w)    == Become(w, Idle)

\* DELETE of the rows of S: no id of theirs is held any more.
DeleteRows(S, w, s) ==
  /\ roster' = [c \in Crew |-> IF c \in S THEN NoRow ELSE roster[c]]
  /\ worker' = [x \in Workers |->
                  IF x = w THEN [s EXCEPT !.mine = @ \ S]
                           ELSE [worker[x] EXCEPT !.mine = @ \ S]]

InsertRow(c, d) == roster' = [roster EXCEPT ![c] = NewRow(d)]

----------------------------------------------------------------------------
(* Roster changes.  The gates of assign_crew that only refuse (compliance, *)
(* DNP, capacity) are the subject of module Staffing; here an assignment   *)
(* may or may not be made.                                                 *)

\* POST /assignments: the insert (UNIQUE(flight_id, crew_id)), then the hook.
AssignCrew(w, c, d) ==
  /\ IsIdle(w)
  /\ ~Present(roster[c])
  /\ InsertRow(c, d)
  /\ Goto(w, "staleRead")
  /\ UNCHANGED <<flightVars, history>>

\* DELETE /assignments/{id}: the row is read ...
RemoveRead(w, c) ==
  /\ IsIdle(w)
  /\ Present(roster[c])
  /\ Become(w, [Idle EXCEPT !.pc = "removeDelete", !.mine = {c}])
  /\ UNCHANGED <<roster, flightVars, history>>

\* ... and deleted by id (nothing happens if it has gone meanwhile).
RemoveDelete(w) ==
  /\ At(w, "removeDelete")
  /\ DeleteRows(worker[w].mine, w, [worker[w] EXCEPT !.pc = "staleRead"])
  /\ UNCHANGED <<flightVars, history>>

\* POST /assignments/{id}/replace: insert the replacement in the relieved
\* member's duty type ...
ReplaceInsert(w, old, new) ==
  /\ IsIdle(w)
  /\ Present(roster[old]) /\ ~Present(roster[new])
  /\ InsertRow(new, roster[old].duty)
  /\ Become(w, [Idle EXCEPT !.pc = "replaceDelete", !.todo = {old}, !.mine = {old, new}])
  /\ UNCHANGED <<flightVars, history>>

\* ... then delete the relieved one.
ReplaceDelete(w) ==
  /\ At(w, "replaceDelete")
  /\ DeleteRows(worker[w].todo \cap worker[w].mine, w,
                [worker[w] EXCEPT !.pc = "staleRead", !.todo = {}])
  /\ UNCHANGED <<flightVars, history>>

\* That DELETE raises: the swap is rolled back by deleting the new row.
ReplaceFail(w) ==
  /\ Faults
  /\ At(w, "replaceDelete")
  /\ Goto(w, "replaceRollback")
  /\ UNCHANGED <<roster, flightVars, history>>

ReplaceRollback(w) ==
  /\ At(w, "replaceRollback")
  /\ DeleteRows(worker[w].mine \ worker[w].todo, w, Idle)
  /\ UNCHANGED <<flightVars, history>>

\* POST /assignments/connected-duty, seen from one of its sectors: the pairs
\* that exist already are read and skipped.  "elsewhere": the request inserts a
\* row on another of its sectors, which makes the hook run here too.
DutyRead(w, C, elsewhere) ==
  /\ IsIdle(w)
  /\ Become(w, [Idle EXCEPT !.pc = "dutyInsert", !.todo = C \ OnFlight,
                            !.dirty = elsewhere])
  /\ UNCHANGED <<roster, flightVars, history>>

\* The rows are inserted one by one (no duty_type: the column's default).
DutyInsert(w, c) ==
  /\ At(w, "dutyInsert")
  /\ c \in worker[w].todo
  /\ ~Present(roster[c])
  /\ InsertRow(c, "operating")
  /\ Become(w, [worker[w] EXCEPT !.todo = @ \ {c}, !.mine = @ \cup {c}, !.dirty = TRUE])
  /\ UNCHANGED <<flightVars, history>>

\* An insert raises: another worker has taken the (flight, crew) pair, or a fault.
DutyFail(w) ==
  /\ At(w, "dutyInsert")
  /\ Faults \/ \E c \in worker[w].todo : Present(roster[c])
  /\ Goto(w, "dutyRollback")
  /\ UNCHANGED <<roster, flightVars, history>>

\* Rollback: the inserted rows are deleted one call each; the hook is not run.
DutyRollback(w, c) ==
  /\ At(w, "dutyRollback")
  /\ c \in worker[w].mine
  /\ DeleteRows({c}, w, worker[w])
  /\ UNCHANGED <<flightVars, history>>

\* A DELETE of the rollback raises: it is logged and that row stays.
DutyRollbackSkip(w, c) ==
  /\ Faults
  /\ At(w, "dutyRollback")
  /\ c \in worker[w].mine
  /\ Become(w, [worker[w] EXCEPT !.mine = @ \ {c}])
  /\ UNCHANGED <<roster, flightVars, history>>

DutyRolledBack(w) ==
  /\ At(w, "dutyRollback")
  /\ worker[w].mine = {}
  /\ Finish(w)
  /\ UNCHANGED <<roster, flightVars, history>>

\* All inserted: the stale hook runs if anything was inserted.
DutyDone(w) ==
  /\ At(w, "dutyInsert")
  /\ worker[w].todo = {}
  /\ IF worker[w].dirty THEN Become(w, [Idle EXCEPT !.pc = "staleRead"]) ELSE Finish(w)
  /\ UNCHANGED <<roster, flightVars, history>>

\* DELETE /crew/{id}: the member's assignments and their flights are read ...
DeleteCrewRead(w, c) ==
  /\ IsIdle(w)
  /\ Become(w, [Idle EXCEPT !.pc = "crewDelete", !.todo = {c},
                            !.dirty = Present(roster[c]) /\ fin])
  /\ UNCHANGED <<roster, flightVars, history>>

\* ... the rows are deleted by crew_id, and the hook runs where the flight was
\* finalized WHEN READ.  (Another member may later be created in this place.)
DeleteCrewWrite(w) ==
  /\ At(w, "crewDelete")
  /\ DeleteRows(worker[w].todo, w,
                IF worker[w].dirty THEN [Idle EXCEPT !.pc = "staleRead"] ELSE Idle)
  /\ UNCHANGED <<flightVars, history>>

----------------------------------------------------------------------------
(* Flight changes.                                                         *)

\* PATCH /flights/{id} with new operational fields: the row is read ...
UpdateFlightRead(w, d) ==
  /\ IsIdle(w)
  /\ Become(w, [Idle EXCEPT !.pc = "updateWrite", !.doc = d,
                            !.dirty = fin /\ d # doc])
  /\ UNCHANGED <<roster, flightVars, history>>

\* ... and written; the hook runs if that read showed a finalized flight and a
\* change of a GD-impacting field.
UpdateFlightWrite(w) ==
  /\ At(w, "updateWrite")
  /\ doc' = worker[w].doc
  /\ IF worker[w].dirty THEN Become(w, [Idle EXCEPT !.pc = "staleRead"]) ELSE Finish(w)
  /\ UNCHANGED <<roster, pub, fin, gd, ver, history>>

\* Mutant: the change of aircraft leaves the GD alone.
OccChangeAircraftSilent(w, d) ==
  /\ IsIdle(w)
  /\ d # doc
  /\ doc' = d
  /\ UNCHANGED <<roster, pub, fin, gd, ver, worker, history>>

\* OCC change-aircraft: refuses a no-op, writes, always calls the hook.
OccChangeAircraft(w, d) ==
  /\ IsIdle(w)
  /\ d # doc
  /\ doc' = d
  /\ Goto(w, "staleRead")
  /\ UNCHANGED <<roster, pub, fin, gd, ver, history>>

\* Mutant: the hook only looks at published flights.
MarkStaleReadPublished(w) ==
  /\ At(w, "staleRead")
  /\ IF pub /\ fin /\ gd # "stale"
     THEN Become(w, [Idle EXCEPT !.pc = "staleWrite"]) ELSE Finish(w)
  /\ UNCHANGED <<roster, flightVars, history>>

\* mark_gd_stale_if_finalized: read the flight, return unless finalized and
\* not yet stale ...
MarkStaleRead(w) ==
  /\ At(w, "staleRead")
  /\ IF fin /\ gd # "stale" THEN Become(w, [Idle EXCEPT !.pc = "staleWrite"]) ELSE Finish(w)
  /\ UNCHANGED <<roster, flightVars, history>>

\* Mutant: a status outside the vocabulary.
MarkStaleWriteOutdated(w) ==
  /\ At(w, "staleWrite")
  /\ gd' = "outdated"
  /\ Finish(w)
  /\ UNCHANGED <<roster, pub, fin, ver, doc, history>>

\* ... then flag it.
MarkStaleWrite(w) ==
  /\ At(w, "staleWrite")
  /\ gd' = "stale"
  /\ Finish(w)
  /\ UNCHANGED <<roster, pub, fin, ver, doc, history>>

----------------------------------------------------------------------------
(* Publication.                                                            *)

\* The gated handlers (publish, finalize, regenerate, log-download) read the
\* flight, which must have a REG, then pass the roster gates.
StartGates(w, job) ==
  /\ IsIdle(w)
  /\ doc # NoReg
  /\ Become(w, [Idle EXCEPT !.pc = "gateCrew", !.job = job, !.ver = ver,
                            !.doc = doc, !.seen.doc = doc])
  /\ UNCHANGED <<roster, flightVars, history>>

\* Mutant: the gate counts nobody (a published flight needs no crew).
GateCrewSkipped(w) ==
  /\ At(w, "gateCrew")
  /\ Goto(w, IF worker[w].job = "publish" THEN "publishWrite" ELSE "gateAccept")
  /\ UNCHANGED <<roster, flightVars, history>>

\* POST /publish: not yet published.
PublishRead(w) ==
  /\ ~pub
  /\ StartGates(w, "publish")

\* _min_crew_shortfalls: the only roster gate of a publication.
GateCrew(w) ==
  /\ At(w, "gateCrew")
  /\ IF MinCrewMet
     THEN Goto(w, IF worker[w].job = "publish" THEN "publishWrite" ELSE "gateAccept")
     ELSE Finish(w)
  /\ UNCHANGED <<roster, flightVars, history>>

PublishWrite(w) ==
  /\ At(w, "publishWrite")
  /\ pub' = TRUE
  /\ Finish(w)
  /\ UNCHANGED <<roster, fin, gd, ver, doc, history>>

\* POST /unpublish: unrestricted once published; assignments are not touched.
Unpublish(w) ==
  /\ IsIdle(w)
  /\ pub
  /\ pub' = FALSE
  /\ UNCHANGED <<roster, fin, gd, ver, doc, worker, history>>

----------------------------------------------------------------------------
(* Acceptance.  Each handler is one read-then-write of a row; the races    *)
(* between two answers on one row are the subject of module Acceptance.    *)

Answer(w, c, new) ==
  /\ IsIdle(w)
  /\ Present(roster[c])
  /\ roster' = [roster EXCEPT ![c] = new]
  /\ UNCHANGED <<flightVars, worker, history>>

\* The crew portal answers a published flight only.
Respond(w, c) ==
  /\ pub
  /\ \/ \E departed \in BOOLEAN : Answer(w, c, RespondAccepted(roster[c], departed))
     \/ Answer(w, c, RespondDeclined(roster[c]))

\* The legacy endpoints and the supervisor's pin do not ask for publication.
LegacyAnswer(w, c) ==
  \/ Answer(w, c, Acknowledge(roster[c]))
  \/ Answer(w, c, LegacyDecline(roster[c]))

Confirm(w, c) == Answer(w, c, AdminConfirm(roster[c]))

----------------------------------------------------------------------------
(* Approval.  finalize_roster, regenerate_gendec and log_gendec_download   *)
(* read the flight, run the same two roster gates in two separate reads,   *)
(* and act on what they have read.  (The passport check of a download only *)
(* refuses, and fails open: here any cleared download may be recorded.)    *)

\* finalize_roster: "already finalised AND not stale" is a no-op.
FinalizeRead(w) ==
  /\ ver < MaxVersion
  /\ ~(fin /\ gd # "stale")
  /\ StartGates(w, "finalize")

\* regenerate_gendec: 409 unless finalized.
RegenerateRead(w) ==
  /\ ver < MaxVersion
  /\ fin
  /\ StartGates(w, "regenerate")

\* Mutants: the clearance forgets the stale flag; the finalization; publication.
DownloadReadStale(w) ==
  /\ pub /\ fin
  /\ StartGates(w, "download")

DownloadReadUnfinalized(w) ==
  /\ pub /\ gd # "stale"
  /\ StartGates(w, "download")

DownloadReadUnpublished(w) ==
  /\ fin /\ gd # "stale"
  /\ StartGates(w, "download")

\* log_gendec_download: clearance on the flight row.
DownloadRead(w) ==
  /\ pub /\ fin /\ gd # "stale"
  /\ StartGates(w, "download")

\* _acceptance_blockers: the last read of the roster before the decision.
GateAccept(w) ==
  /\ At(w, "gateAccept")
  /\ IF AllAccepted
     THEN Become(w, [worker[w] EXCEPT
                       !.pc = IF worker[w].job = "download" THEN "logDownload"
                                                            ELSE "approveWrite",
                       !.seen.crew = Duty(roster)])
     ELSE Finish(w)
  /\ UNCHANGED <<roster, flightVars, history>>

\* Mutant: a regeneration keeps the version it has read.
ApproveWriteSameVersion(w) ==
  /\ At(w, "approveWrite")
  /\ fin' = (fin \/ worker[w].job = "finalize")
  /\ gd'  = "ready"
  /\ ver' = IF worker[w].job = "finalize" THEN worker[w].ver + 1 ELSE worker[w].ver
  /\ approved'  = worker[w].seen
  /\ approvals' = approvals + 1
  /\ Finish(w)
  /\ UNCHANGED <<roster, pub, doc, issued>>

\* The approval: gd_version becomes the version READ plus one.
ApproveWrite(w) ==
  /\ At(w, "approveWrite")
  /\ fin' = (fin \/ worker[w].job = "finalize")
  /\ gd'  = "ready"
  /\ ver' = worker[w].ver + 1
  /\ approved'  = worker[w].seen
  /\ approvals' = approvals + 1
  /\ Finish(w)
  /\ UNCHANGED <<roster, pub, doc, issued>>

\* The audit row of a download: the paper trail of the official document.
LogDownload(w) ==
  /\ At(w, "logDownload")
  /\ issued' = issued \cup {[ver |-> worker[w].ver, content |-> worker[w].seen]}
  /\ Finish(w)
  /\ UNCHANGED <<roster, flightVars, approved, approvals>>

\* A call raises or the instance is killed: the rest of the handler is lost.
Crash(w) ==
  /\ Faults
  /\ ~IsIdle(w)
  /\ Finish(w)
  /\ UNCHANGED <<roster, flightVars, history>>

----------------------------------------------------------------------------
Init ==
  /\ roster = [c \in Crew |-> NoRow]
  /\ pub = FALSE /\ fin = FALSE /\ gd = "none" /\ ver = 0
  /\ doc \in AllDocs
  /\ worker = [w \in Workers |-> Idle]
  /\ approved = Idle.seen
  /\ approvals = 0
  /\ issued = {}

\* Requests that start a handler.
Request(w) ==
  \/ \E c \in Crew, d \in Duties : AssignCrew(w, c, d)
  \/ \E c \in Crew : RemoveRead(w, c) \/ DeleteCrewRead(w, c)
  \/ \E old, new \in Crew : ReplaceInsert(w, old, new)
  \/ \E C \in SUBSET Crew, elsewhere \in BOOLEAN : C # {} /\ DutyRead(w, C, elsewhere)
  \/ \E d \in Docs : UpdateFlightRead(w, d) \/ OccChangeAircraft(w, d)
  \/ PublishRead(w) \/ Unpublish(w)
  \/ \E c \in Crew : Respond(w, c) \/ LegacyAnswer(w, c) \/ Confirm(w, c)
  \/ FinalizeRead(w) \/ RegenerateRead(w) \/ DownloadRead(w)

\* The next call of a handler already running.
Continue(w) ==
  \/ RemoveDelete(w) \/ ReplaceDelete(w) \/ ReplaceRollback(w)
  \/ \E c \in Crew : DutyInsert(w, c) \/ DutyRollback(w, c)
  \/ DutyFail(w) \/ DutyRolledBack(w) \/ DutyDone(w)
  \/ DeleteCrewWrite(w) \/ UpdateFlightWrite(w)
  \/ MarkStaleRead(w) \/ MarkStaleWrite(w)
  \/ PublishWrite(w)
  \/ GateCrew(w) \/ GateAccept(w) \/ ApproveWrite(w) \/ LogDownload(w)

Fault(w) ==
  \/ ReplaceFail(w)
  \/ \E c \in Crew : DutyRollbackSkip(w, c)
  \/ Crash(w)

Next == \E w \in Workers : Request(w) \/ Continue(w) \/ Fault(w)

Spec     == Init /\ [][Next]_vars
\* A handler that has started makes its next call: the process schedules it.
FairSpec == Spec /\ \A w \in Workers : WF_vars(Continue(w))
----------------------------------------------------------------------------
(* Properties.                                                             *)

TypeOK ==
  /\ roster \in [Crew -> Row]
  /\ pub \in BOOLEAN /\ fin \in BOOLEAN
  /\ gd \in {"none", "ready", "stale"}
  /\ ver \in Nat
  /\ doc \in AllDocs
  /\ worker \in [Workers -> LocalState]
  /\ approved \in Contents
  /\ approvals \in Nat
  /\ issued \in SUBSET [ver : Nat, content : Contents]

\* "If a FINALISED flight's crew changed, flag its GD 'stale'": when no request
\* is running, a GD that is offered as ready states the very roster and flight
\* data the last approval was decided on.
GDFresh ==
  (gd = "ready" /\ \A w \in Workers : IsIdle(w)) => approved = Content

\* Two downloads recorded under one GD version were of the same document.
OneContentPerVersion ==
  \A a, b \in issued : a.ver = b.ver => a.content = b.content

\* "version bumps so each (re)finalise is a new GD revision": the version in
\* the flight row counts the approvals, none shares another's number.
VersionCountsApprovals == ver = approvals

\* A GD status exists exactly for a finalized flight, whatever interleaves.
GdOnlyWhenFinalized == gd # "none" <=> fin

\* Every recorded download carries the number of an approval that was made,
\* whatever interleaves and whatever fails.
IssuedWasApproved == \A i \in issued : 1 <= i.ver /\ i.ver <= approvals

\* "a roster below its safety floor ... must never reach the crew portal", at the
\* moment of publication; "the FINAL roster needs every operating crew to have
\* explicitly ACCEPTED (or be admin-confirmed)", at that of approval: what a gate
\* has read still holds when the decision is written.
DecisionsCleared ==
  [][/\ ~pub /\ pub' => doc # NoReg /\ MinCrewMet
     /\ approvals' # approvals => doc # NoReg /\ MinCrewMet /\ AllAccepted]_vars

\* The first of these for as long as the flight stays published.
PublishedMeetsFloor ==
  (pub /\ \A w \in Workers : IsIdle(w)) => MinCrewMet

\* A download is recorded only at a moment when the flight is published and
\* finalized, its GD is current, its complement met and everyone has accepted.
DownloadCleared ==
  [][issued' # issued =>
       /\ pub /\ fin /\ gd = "ready"
       /\ MinCrewMet /\ AllAccepted]_vars

\* The flight row, its approvals and the recorded downloads implement the
\* series of numbered documents of module OfficialGd.
Official == INSTANCE OfficialGd
              WITH version <- ver, document <- approved, onOffer <- (gd = "ready")
ImplementsOfficialGd == Official!Spec

\* A finalized flight whose content has departed from what was approved does
\* not stay on offer: it is flagged stale (or the change is undone, or
\* approved in its turn).
DriftIsFlagged ==
  (fin /\ approved # Content) ~> (gd = "stale" \/ approved = Content)

----------------------------------------------------------------------------
(* Inductive invariants behind the theorems of GendecProofs.               *)

\* What holds of a worker whatever the others do and whatever fails.
AnyWorkerInv(s) ==
  /\ s.ver <= approvals
  /\ s.pc = "staleWrite" => fin
  /\ s.job = "regenerate" => fin
  /\ s.job = "download" => s.ver >= 1
  /\ s.pc \in {"gateCrew", "gateAccept"} => s.job # "none"
  /\ s.pc = "gateAccept" => s.job # "publish"
  /\ s.pc = "approveWrite" => s.job \in {"finalize", "regenerate"}
  /\ s.pc = "logDownload"  => s.job = "download"

AnyInv ==
  /\ GdOnlyWhenFinalized
  /\ fin => ver >= 1
  /\ ver <= approvals
  /\ IssuedWasApproved
  /\ \A w \in Workers : AnyWorkerInv(worker[w])

\* The single process: no two handlers run at the same time.
Serial == \A v, w \in Workers : v = w

\* With handlers one at a time the version a handler has read is still current.
VersionInv ==
  /\ ver = approvals
  /\ \A w \in Workers : worker[w].job # "none" => worker[w].ver = ver

\* States of a handler in which the roster may already have departed from the
\* approved one while the hook is still to come.
HookPending(s) ==
  \/ s.pc \in {"staleRead", "staleWrite", "replaceDelete"}
  \/ s.pc = "dutyInsert" /\ s.dirty

\* What holds of the only worker when nothing fails.
SerialWorkerInv(s) ==
  /\ ~HookPending(s) => (gd = "ready" => approved = Content)
  /\ s.pc \notin {"dutyRollback", "replaceRollback"}
  /\ s.pc = "dutyInsert"  => \A c \in s.todo : ~Present(roster[c])
  /\ s.pc = "crewDelete"  => s.dirty = (fin /\ \E c \in s.todo : Present(roster[c]))
  /\ s.pc = "updateWrite" => s.dirty = (fin /\ s.doc # doc)
  /\ s.pc \in {"gateCrew", "gateAccept"} => s.seen.doc = doc
  /\ s.pc \in {"approveWrite", "logDownload"} => s.seen = Content
  /\ s.job = "download" => pub /\ fin /\ gd = "ready"
  /\ s.job # "none" => doc # NoReg
  /\ s.pc \in {"gateAccept", "approveWrite", "logDownload", "publishWrite"} => MinCrewMet
  /\ s.pc \in {"approveWrite", "logDownload"} => AllAccepted
  /\ s.job # "none" <=> s.pc \in {"gateCrew", "gateAccept", "approveWrite", "logDownload",
                                  "publishWrite"}

SerialInv ==
  /\ OneContentPerVersion
  /\ \A i \in issued : i.ver <= ver /\ (i.ver = ver => i.content = approved)
  /\ \A w \in Workers : SerialWorkerInv(worker[w])
=============================================================================
