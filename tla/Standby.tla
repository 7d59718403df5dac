------------------------------ MODULE Standby ------------------------------
(***************************************************************************)
(* The reserve desk: standby rows, call-outs, the reserve's answer, and    *)
(* the two sweeps (expiry, escalation) that run from cron and by hand.     *)
(*                                                                         *)
(* As in module Gendec a handler is a sequence of database calls made by a *)
(* worker, each committing by itself; one worker is the single process,    *)
(* several are serverless instances.  The reads of a handler that only     *)
(* find the row are folded into the call that follows them.  Each standby  *)
(* row stands for a reserve of its own.                                    *)
(***************************************************************************)
EXTENDS Naturals, FiniteSets

CONSTANTS
  Rows,      \* standby row ids; an id is used once
  Flights,
  None,      \* no flight / no row
  Workers,
  Faults     \* BOOLEAN: a call may raise, an instance may be killed

ASSUME NoneAssumption  == None \notin Flights /\ None \notin Rows
ASSUME FaultAssumption == Faults \in BOOLEAN

VARIABLES
  row,       \* the standby_assignments table
  tasked,    \* <<r, f>>: reserve r has an assignment on flight f
  worker,    \* what each worker is executing
  alerts,    \* history: call-out notifications sent for each row (0, 1, many)
  stamps,    \* history: escalations of each row (0, 1, many)
  handover,  \* history: the candidate each escalation was to move to
  cut        \* history: a handler has been cut off

history == <<alerts, stamps, handover, cut>>
vars    == <<row, tasked, worker, history>>

Live     == {"ACTIVE", "CALLED_OUT", "ASSIGNED", "EXPIRED", "CANCELLED"}
Statuses == Live \cup {"absent", "deleted"}

StandbyRow == [status    : Statuses,
               called    : BOOLEAN,                  \* called_out
               flight    : Flights \cup {None},      \* assigned_flight_id
               resp      : {"none", "ACCEPTED", "REJECTED"},
               link      : Flights \cup {None},      \* flight of assignment_id
               escalated : {"no", "ESCALATED", "EXHAUSTED"},
               late      : BOOLEAN,   \* now > called_out_at + response_minutes
               ended     : BOOLEAN]   \* end_time < now

Absent == [status |-> "absent", called |-> FALSE, flight |-> None, resp |-> "none",
           link |-> None, escalated |-> "no", late |-> FALSE,
           ended |-> FALSE]

Exists(r)   == row[r].status \in Live
CalledOut(r) == row[r].called /\ row[r].status \in {"CALLED_OUT", "ASSIGNED"}

\* UPDATE ... WHERE id = r: nothing happens if the row has gone.
Update(r, new) == row' = [row EXCEPT ![r] = IF @.status \in Live THEN new ELSE @]

PCs == {"idle", "callout", "calloutNotify", "reject", "accept", "assign", "insert",
        "link", "fail", "expire", "escalate", "stamp", "call", "callNotify"}

SweepPCs == {"escalate", "stamp", "call", "callNotify"}

LocalState == [pc     : PCs,
               row    : Rows \cup {None},       \* the row it works on
               flight : Flights \cup {None},
               first  : BOOLEAN,                \* callout: row was a fresh ACTIVE one;
                                                \* accept: no answer was recorded yet
               cand   : Rows \cup {None},       \* escalation: next candidate
               todo   : SUBSET Rows,            \* rows a sweep has still to process
               seen   : [Rows -> Flights \cup {None}]]  \* their flights, as read

Idle == [pc |-> "idle", row |-> None, flight |-> None, first |-> FALSE, cand |-> None,
         todo |-> {}, seen |-> [r \in Rows |-> None]]

At(w, pc)    == worker[w].pc = pc
Become(w, s) == worker' = [worker EXCEPT ![w] = s]
Goto(w, pc)  == Become(w, [worker[w] EXCEPT !.pc = pc])
Finish(w)    == Become(w, Idle)

OneMore(count, r) == [count EXCEPT ![r] = IF @ = 2 THEN 2 ELSE @ + 1]

----------------------------------------------------------------------------
(* The desk.                                                               *)

\* POST /standby: the eligibility gate only refuses.
CreateStandby(w, r, ended) ==
  /\ At(w, "idle")
  /\ row[r].status = "absent"
  /\ row' = [row EXCEPT ![r] = [Absent EXCEPT !.status = "ACTIVE", !.ended = ended]]
  /\ UNCHANGED <<tasked, worker, history>>

\* POST /standby/{id}/callout: the row is read (whatever its status) ...
CalloutRead(w, r, f) ==
  /\ At(w, "idle")
  /\ Exists(r)
  /\ Become(w, [Idle EXCEPT !.pc = "callout", !.row = r, !.flight = f,
                            !.first = ~row[r].called /\ row[r].status = "ACTIVE"])
  /\ UNCHANGED <<row, tasked, history>>

\* The columns a call-out writes, by the desk or by the escalation sweep.
CalledFor(s, f) ==
  [s EXCEPT !.called = TRUE, !.flight = f, !.late = FALSE,
            !.status = IF f = None THEN "CALLED_OUT" ELSE "ASSIGNED"]

\* ... then called out; an earlier answer and escalation stay in the row.
CalloutWrite(w) ==
  /\ At(w, "callout")
  /\ Update(worker[w].row, CalledFor(row[worker[w].row], worker[w].flight))
  /\ Goto(w, "calloutNotify")
  /\ UNCHANGED <<tasked, history>>

\* "notify the reserve ONCE, only on the real ACTIVE->called transition".
CalloutNotify(w) ==
  /\ At(w, "calloutNotify")
  /\ alerts' = IF worker[w].first THEN OneMore(alerts, worker[w].row) ELSE alerts
  /\ Finish(w)
  /\ UNCHANGED <<row, tasked, stamps, handover, cut>>

\* POST /standby/{id}/cancel: whatever the status.
CancelStandby(w, r) ==
  /\ At(w, "idle")
  /\ Exists(r)
  /\ row' = [row EXCEPT ![r].status = "CANCELLED"]
  /\ UNCHANGED <<tasked, worker, history>>

DeleteStandby(w, r) ==
  /\ At(w, "idle")
  /\ Exists(r)
  /\ row' = [row EXCEPT ![r] = [Absent EXCEPT !.status = "deleted"]]
  /\ UNCHANGED <<tasked, worker, history>>

----------------------------------------------------------------------------
(* The reserve's answer.                                                   *)

\* respond, action "reject": refused after an acceptance, repeated freely.
RejectRead(w, r) ==
  /\ At(w, "idle")
  /\ CalledOut(r)
  /\ row[r].resp = "none"
  /\ Become(w, [Idle EXCEPT !.pc = "reject", !.row = r])
  /\ UNCHANGED <<row, tasked, history>>

RejectWrite(w) ==
  /\ At(w, "reject")
  /\ Update(worker[w].row, [row[worker[w].row] EXCEPT !.resp = "REJECTED"])
  /\ Finish(w)
  /\ UNCHANGED <<tasked, history>>

\* respond, action "accept": an acceptance already linked is answered from the
\* row, a rejection is final, and a call-out without a flight cannot be accepted.
AcceptRead(w, r) ==
  /\ At(w, "idle")
  /\ CalledOut(r)
  /\ row[r].resp # "REJECTED"
  /\ ~(row[r].resp = "ACCEPTED" /\ row[r].link # None)
  /\ row[r].flight # None
  /\ Become(w, [Idle EXCEPT !.pc = "accept", !.row = r, !.flight = row[r].flight,
                            !.first = row[r].resp # "ACCEPTED"])
  /\ UNCHANGED <<row, tasked, history>>

\* "Record acceptance FIRST", unless it is recorded already.
AcceptRecord(w) ==
  /\ At(w, "accept")
  /\ IF worker[w].first
     THEN Update(worker[w].row, [row[worker[w].row] EXCEPT !.resp = "ACCEPTED"])
     ELSE UNCHANGED row
  /\ Goto(w, "assign")
  /\ UNCHANGED <<tasked, history>>

Pair(w) == <<worker[w].row, worker[w].flight>>

\* assign_crew on behalf of the owner of the row: no eligible owner, a gate that
\* refuses, the pair found to exist (ConflictError), or on to the insert.
AssignCheck(w) ==
  /\ At(w, "assign")
  /\ \/ Goto(w, "fail")
     \/ Goto(w, IF Pair(w) \in tasked THEN "link" ELSE "insert")
  /\ UNCHANGED <<row, tasked, history>>

\* The insert; it raises if another worker has inserted the pair meanwhile.
AssignInsert(w) ==
  /\ At(w, "insert")
  /\ tasked' = tasked \cup {Pair(w)}
  /\ Goto(w, IF Pair(w) \in tasked THEN "fail" ELSE "link")
  /\ UNCHANGED <<row, history>>

\* assignment_error, which nothing reads, records why; the acceptance stays,
\* unlinked.
AcceptFail(w) ==
  /\ At(w, "fail")
  /\ Finish(w)
  /\ UNCHANGED <<row, tasked, history>>

\* The assignment, created now or found, is linked and the row marked ASSIGNED
\* whatever its status has become.  (A pair found by the duplicate check and
\* removed since leaves the link empty.)
AcceptLink(w) ==
  /\ At(w, "link")
  /\ Update(worker[w].row,
            [row[worker[w].row] EXCEPT
               !.status = "ASSIGNED",
               !.link = IF Pair(w) \in tasked THEN worker[w].flight ELSE None])
  /\ Finish(w)
  /\ UNCHANGED <<tasked, history>>

----------------------------------------------------------------------------
(* The sweeps.                                                             *)

\* Mutant: the sweep selects every row whose window has ended.
ExpireReadAll(w) ==
  /\ At(w, "idle")
  /\ \E r \in Rows : Exists(r) /\ row[r].ended
  /\ Become(w, [Idle EXCEPT !.pc = "expire",
                            !.todo = {r \in Rows : Exists(r) /\ row[r].ended}])
  /\ UNCHANGED <<row, tasked, history>>

\* _expire_company_standby: one read of the ACTIVE rows whose window has ended ...
ExpireRead(w) ==
  /\ At(w, "idle")
  /\ \E r \in Rows : row[r].status = "ACTIVE" /\ row[r].ended
  /\ Become(w, [Idle EXCEPT !.pc = "expire",
                            !.todo = {r \in Rows : row[r].status = "ACTIVE" /\ row[r].ended}])
  /\ UNCHANGED <<row, tasked, history>>

\* Leaves a sweep when its list is empty.
Next1(w, pc, r) ==
  LET rest == worker[w].todo \ {r}
  IN  Become(w, IF rest = {} THEN Idle
                ELSE [Idle EXCEPT !.pc = pc, !.todo = rest, !.seen = worker[w].seen])

\* ... and one unconditional update per row.
ExpireWrite(w, r) ==
  /\ At(w, "expire")
  /\ r \in worker[w].todo
  /\ Update(r, [row[r] EXCEPT !.status = "EXPIRED"])
  /\ Next1(w, "expire", r)
  /\ UNCHANGED <<tasked, history>>

\* Mutant of _needs_escalation: time-outs only.
NeedsEscalationLate(r) ==
  /\ CalledOut(r) /\ row[r].link = None /\ row[r].escalated = "no"
  /\ row[r].resp = "none" /\ row[r].late

\* _needs_escalation: rejected, or not answered in time; an acceptance never.
NeedsEscalation(r) ==
  /\ CalledOut(r)
  /\ row[r].link = None
  /\ row[r].escalated = "no"
  /\ row[r].resp = "REJECTED" \/ (row[r].resp = "none" /\ row[r].late)

\* _escalate_company_standby: one read of every row of the company ...
EscalateRead(w) ==
  /\ At(w, "idle")
  /\ \E r \in Rows : NeedsEscalation(r)
  /\ Become(w, [Idle EXCEPT !.pc = "escalate",
                            !.todo = {r \in Rows : NeedsEscalation(r)},
                            !.seen = [r \in Rows |-> row[r].flight]])
  /\ UNCHANGED <<row, tasked, history>>

\* The pool of GET /suggest; the ranking and the compliance verdict choose from it.
Available == {c \in Rows : row[c].status = "ACTIVE" /\ ~row[c].ended}

\* ... for each failed call-out the best candidate is read, if it names a flight ...
EscalatePick(w, r, c) ==
  /\ At(w, "escalate")
  /\ r \in worker[w].todo
  /\ c = None \/ (worker[w].seen[r] # None /\ c \in Available)
  /\ Become(w, [worker[w] EXCEPT !.pc = "stamp", !.row = r, !.cand = c,
                                 !.flight = worker[w].seen[r]])
  /\ UNCHANGED <<row, tasked, history>>

Stamped(w) ==
  LET r == worker[w].row
  IN  /\ stamps' = OneMore(stamps, r)
      /\ handover' = [handover EXCEPT ![r] = worker[w].cand]
      /\ IF worker[w].cand = None THEN Next1(w, "escalate", r) ELSE Goto(w, "call")
      /\ UNCHANGED <<tasked, alerts, cut>>

\* Mutant: only an exhausted pool is stamped.
EscalateStampExhausted(w) ==
  /\ At(w, "stamp")
  /\ IF worker[w].cand = None
     THEN Update(worker[w].row, [row[worker[w].row] EXCEPT !.escalated = "EXHAUSTED"])
     ELSE UNCHANGED row
  /\ Stamped(w)

\* ... "Stamp the failed callout FIRST so a re-run never reprocesses it" ...
EscalateStamp(w) ==
  /\ At(w, "stamp")
  /\ Update(worker[w].row,
            [row[worker[w].row] EXCEPT
               !.escalated = IF worker[w].cand = None THEN "EXHAUSTED" ELSE "ESCALATED"])
  /\ Stamped(w)

\* Mutant: the candidate's update targets the failed row.
EscalateCallFailed(w) ==
  /\ At(w, "call")
  /\ Update(worker[w].row, CalledFor(row[worker[w].row], worker[w].flight))
  /\ Goto(w, "callNotify")
  /\ UNCHANGED <<tasked, history>>

\* ... the candidate is called out ...
EscalateCall(w) ==
  /\ At(w, "call")
  /\ Update(worker[w].cand, CalledFor(row[worker[w].cand], worker[w].flight))
  /\ Goto(w, "callNotify")
  /\ UNCHANGED <<tasked, history>>

\* ... and notified.
EscalateNotify(w) ==
  /\ At(w, "callNotify")
  /\ alerts' = OneMore(alerts, worker[w].cand)
  /\ Next1(w, "escalate", worker[w].row)
  /\ UNCHANGED <<row, tasked, stamps, handover, cut>>

----------------------------------------------------------------------------
(* The rest of the world.                                                  *)

\* The desk assigns the reserve directly, or removes an assignment of his.
AssignDirectly(r, f) ==
  /\ Exists(r)
  /\ <<r, f>> \notin tasked
  /\ tasked' = tasked \cup {<<r, f>>}
  /\ UNCHANGED <<row, worker, history>>

RemoveAssignment(r, f) ==
  /\ <<r, f>> \in tasked
  /\ tasked' = tasked \ {<<r, f>>}
  /\ UNCHANGED <<row, worker, history>>

\* Time matters to a row that awaits an answer, and to one in the pool.
ResponseDeadlinePasses(r) ==
  /\ CalledOut(r) /\ row[r].resp = "none" /\ ~row[r].late
  /\ row' = [row EXCEPT ![r].late = TRUE]
  /\ UNCHANGED <<tasked, worker, history>>

WindowEnds(r) ==
  /\ row[r].status = "ACTIVE" /\ ~row[r].ended
  /\ row' = [row EXCEPT ![r].ended = TRUE]
  /\ UNCHANGED <<tasked, worker, history>>

\* A call raises or the instance is killed: the rest of the handler is lost.
Crash(w) ==
  /\ Faults
  /\ ~At(w, "idle")
  /\ Finish(w)
  /\ cut' = TRUE
  /\ UNCHANGED <<row, tasked, alerts, stamps, handover>>

----------------------------------------------------------------------------
Init ==
  /\ row = [r \in Rows |-> Absent]
  /\ tasked = {}
  /\ worker = [w \in Workers |-> Idle]
  /\ alerts = [r \in Rows |-> 0]
  /\ stamps = [r \in Rows |-> 0]
  /\ handover = [r \in Rows |-> None]
  /\ cut = FALSE

Request(w) ==
  \/ \E r \in Rows, ended \in BOOLEAN : CreateStandby(w, r, ended)
  \/ \E r \in Rows, f \in Flights \cup {None} : CalloutRead(w, r, f)
  \/ \E r \in Rows : CancelStandby(w, r) \/ DeleteStandby(w, r)
                     \/ RejectRead(w, r) \/ AcceptRead(w, r)
  \/ ExpireRead(w) \/ EscalateRead(w)

Continue(w) ==
  \/ CalloutWrite(w) \/ CalloutNotify(w)
  \/ RejectWrite(w) \/ AcceptRecord(w)
  \/ AssignCheck(w) \/ AssignInsert(w) \/ AcceptFail(w) \/ AcceptLink(w)
  \/ \E r \in Rows : ExpireWrite(w, r)
  \/ \E r \in Rows, c \in Rows \cup {None} : EscalatePick(w, r, c)
  \/ EscalateStamp(w) \/ EscalateCall(w) \/ EscalateNotify(w)

\* The rest of the API runs in the same process: between handlers, too.
World ==
  \/ \E w \in Workers, r \in Rows, f \in Flights :
        At(w, "idle") /\ (AssignDirectly(r, f) \/ RemoveAssignment(r, f))
  \/ \E r \in Rows : ResponseDeadlinePasses(r) \/ WindowEnds(r)

Next ==
  \/ \E w \in Workers : Request(w) \/ Continue(w) \/ Crash(w)
  \/ World

Spec == Init /\ [][Next]_vars
----------------------------------------------------------------------------
(* Properties.                                                             *)

TypeOK ==
  /\ row \in [Rows -> StandbyRow]
  /\ tasked \subseteq Rows \X Flights
  /\ worker \in [Workers -> LocalState]
  /\ alerts \in [Rows -> 0..2] /\ stamps \in [Rows -> 0..2]
  /\ handover \in [Rows -> Rows \cup {None}]
  /\ cut \in BOOLEAN

\* "notify the reserve ... ONCE", "repeated runs never re-escalate": no row's
\* reserve is told twice and no row is escalated twice, through repeated
\* call-outs, sweeps and crashes.
CalledOnce == \A r \in Rows : alerts[r] <= 1 /\ stamps[r] <= 1

\* The expiry sweep "NEVER touches CALLED_OUT / ASSIGNED / CANCELLED /
\* already-EXPIRED rows"; of the escalation, "a real R2 acceptance ... and an
\* accepted-but-failed row ... are deliberately NOT escalated".
SweepsSpareTheCalled ==
  [][\A r \in Rows :
       /\ row'[r].status = "EXPIRED" => row[r].status \in {"ACTIVE", "EXPIRED"}
       /\ stamps'[r] # stamps[r] => row[r].resp # "ACCEPTED"]_vars

\* A link is of the flight the reserve is called out for.
TaskingMatchesCall ==
  \A r \in Rows : CalledOut(r) /\ row[r].resp = "ACCEPTED" /\ row[r].link # None
                    => row[r].link = row[r].flight

\* A call-out that was "NOT ANSWERED in time moves to the next candidate": the
\* reserve it moved away from is not assigned to the flight as well.
MovedCallIsClosed ==
  [][\A r \in Rows : row'[r].link # row[r].link /\ row'[r].link # None
                       => row[r].escalated # "ESCALATED"]_vars

\* "a callout that was REJECTED or NOT ANSWERED in time moves to the next
\* best-ranked candidate": a sweep that runs to its end leaves no rejected
\* call-out behind, be it only as exhausted.
SweepHandlesRejections ==
  [][\A w \in Workers :
       worker[w].pc \in SweepPCs /\ worker'[w].pc = "idle" /\ ~cut' =>
         \A r \in Rows : (CalledOut(r) /\ row[r].resp = "REJECTED")'
                           => row'[r].escalated # "no"]_vars

\* "stamp the failed callout FIRST": unless a handler was cut off, the candidate
\* each stamped row was to move to has been called out once the sweep is over.
HandoverHappens ==
  (~cut /\ \A w \in Workers : At(w, "idle")) =>
    \A r \in Rows : \/ handover[r] = None
                    \/ row[handover[r]].called
                    \/ row[handover[r]].status = "deleted"
=============================================================================
