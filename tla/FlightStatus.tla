---------------------------- MODULE FlightStatus ----------------------------
(***************************************************************************)
(* The operational status of one flight: moved by hand (PATCH /status),    *)
(* cancelled in bulk, delayed by two endpoints, and advanced by the clock  *)
(* when somebody lists the flights (_advance_due_statuses).  The advance   *)
(* is a read of the candidates followed by an unconditional update and a   *)
(* notification, each of which may fail.  Workers are as in module Gendec; *)
(* how many are deployed is chosen at the start.  The clock counts half    *)
(* hours.                                                                  *)
(***************************************************************************)
EXTENDS Integers

CONSTANTS
  Dep, Arr,    \* departure_time and arrival_time (delays do not touch them)
  Lead,        \* _BOARDING_LEAD
  MaxDelay,    \* bound of delay_minutes
  MaxTime,     \* bound of the clock
  Workers

\* Assumed of the constants by CrewDesk, which gives them values.
TimeAssumption ==
  /\ {Dep, Arr, Lead, MaxDelay, MaxTime} \subseteq Nat
  /\ Dep < Arr

VARIABLES
  now,
  pub,        \* publish_status = 'published'
  status,
  delay,      \* delay_minutes
  worker,     \* for each instance, where its advance is and to which status
  moved,      \* history: the statuses the clock has moved the flight to ...
  told,       \* ... the status notices sent, 2 for more than one ...
  lost        \* ... and those that were not, since it was last moved by hand

vars == <<now, pub, status, delay, worker, moved, told, lost>>

VALID_STATUSES == {"scheduled", "boarding", "departed", "landed", "cancelled",
                   "diverted", "delayed"}
Advanceable    == {"scheduled", "boarding", "departed"}    \* _ADVANCEABLE
DelayBlocked   == {"cancelled", "departed", "landed", "arrived", "diverted"}

Order == [s \in {"scheduled", "boarding", "departed", "arrived"} |->
            CASE s = "scheduled" -> 0 [] s = "boarding" -> 1
              [] s = "departed"  -> 2 [] s = "arrived"  -> 3]

\* _due_status: what the flight should be by now, "none" if nothing is due.
DueStatus ==
  IF now >= Arr + delay THEN "arrived"
  ELSE IF now >= Dep + delay THEN "departed"
  ELSE IF now >= Dep + delay - Lead THEN "boarding"
  ELSE "none"

Moves == {"boarding", "departed", "arrived"}

Idle == [pc |-> "idle", to |-> "boarding"]

At(w, pc)    == w \in DOMAIN worker /\ worker[w].pc = pc
Become(w, s) == worker' = [worker EXCEPT ![w] = s]

----------------------------------------------------------------------------
(* The clock's advance.                                                    *)

Find(w, candidate) ==
  /\ At(w, "idle")
  /\ pub /\ candidate
  /\ Become(w, [pc |-> "write", to |-> DueStatus])
  /\ UNCHANGED <<now, pub, status, delay, moved, told, lost>>

\* Mutant: a flight already at its due status is a candidate.
AdvanceReadAgain(w) == Find(w, status \in Advanceable /\ DueStatus # "none")

\* Mutant: a boarding flight waits for a hand.
AdvanceReadScheduled(w) ==
  Find(w, status \in {"scheduled", "departed"} /\ DueStatus \notin {"none", status})

\* The candidates are read; a flight already at its due status is left alone.
AdvanceRead(w) == Find(w, status \in Advanceable /\ DueStatus \notin {"none", status})

\* The update is by id, whatever the status is by now.
AdvanceWrite(w) ==
  /\ At(w, "write")
  /\ status' = worker[w].to
  /\ moved' = moved \cup {worker[w].to}
  /\ Become(w, [worker[w] EXCEPT !.pc = "tell"])
  /\ UNCHANGED <<now, pub, delay, told, lost>>

\* The crew is looked up and told.
AdvanceTell(w) ==
  /\ At(w, "tell")
  /\ told' = [told EXCEPT ![worker[w].to] = IF @ = 0 THEN 1 ELSE 2]
  /\ Become(w, Idle)
  /\ UNCHANGED <<now, pub, status, delay, moved, lost>>

\* A call raises, which list_flights logs, or the instance is killed: a flight
\* whose status is written is no candidate any more, and nobody is told.
AdvanceFail(w) ==
  /\ At(w, "write") \/ At(w, "tell")
  /\ lost' = IF At(w, "tell") THEN lost \cup {worker[w].to} ELSE lost
  /\ Become(w, Idle)
  /\ UNCHANGED <<now, pub, status, delay, moved, told>>

----------------------------------------------------------------------------
(* Moved by hand.                                                          *)

Untold == [s \in Moves |-> 0]

\* The process serves one request at a time: a lone worker runs its advance to
\* the end before anyone else's request.
Served == \E w \in DOMAIN worker : At(w, "idle")

SetByHand(s, d) ==
  /\ Served
  /\ status' = s
  /\ delay' = d
  /\ told' = Untold /\ moved' = {} /\ lost' = {}
  /\ UNCHANGED <<now, pub, worker>>

\* PATCH /status: any status of VALID_STATUSES from any other; only a delay may
\* bring delay_minutes with it (any integer).
UpdateStatus(s, d) ==
  /\ s \in VALID_STATUSES
  /\ d # delay => s = "delayed"
  /\ SetByHand(s, d)

\* POST /flights/{id}/delay: a positive delay, whatever the status.
DelayFlight(d) ==
  /\ d > 0
  /\ SetByHand("delayed", d)

\* POST /occ/flights/{id}/delay: not once it has left; ETD after STD and after now.
OccDelayFlight(d) ==
  /\ status \notin DelayBlocked
  /\ d > 0 /\ Dep + d > now
  /\ SetByHand("delayed", d)

\* POST /irops/bulk-cancel, of this flight among others: an update by id, and
\* neither the crew are told nor the GD marked.
BulkCancel ==
  /\ Served
  /\ status' = "cancelled"
  /\ UNCHANGED <<now, pub, delay, worker, moved, told, lost>>

Publish ==
  /\ Served
  /\ pub' = ~pub
  /\ UNCHANGED <<now, status, delay, worker, moved, told, lost>>

Tick ==
  /\ now < MaxTime
  /\ now' = now + 1
  /\ UNCHANGED <<pub, status, delay, worker, moved, told, lost>>

Init ==
  /\ now = 0
  /\ pub = FALSE
  /\ status = "scheduled"
  /\ delay = 0
  /\ worker \in {[w \in W |-> Idle] : W \in (SUBSET Workers) \ {{}}}
  /\ moved = {} /\ lost = {}
  /\ told = Untold

Advance(w) == AdvanceRead(w) \/ AdvanceWrite(w) \/ AdvanceTell(w)

Next ==
  \/ \E w \in Workers : Advance(w) \/ AdvanceFail(w)
  \/ \E s \in VALID_STATUSES \cup {"arrived", "other"}, d \in 0..MaxDelay : UpdateStatus(s, d)
  \/ \E d \in 0..MaxDelay : DelayFlight(d) \/ OccDelayFlight(d)
  \/ BulkCancel \/ Publish \/ Tick

Spec == Init /\ [][Next]_vars

\* Time passes, the apps keep polling the flight list, and the update of a status
\* does not fail for ever.
FairSpec ==
  Spec /\ WF_vars(Tick)
       /\ \A w \in Workers : WF_vars(Advance(w)) /\ SF_vars(AdvanceWrite(w))
----------------------------------------------------------------------------
(* Properties.                                                             *)

TypeOK ==
  /\ now \in 0..MaxTime /\ pub \in BOOLEAN
  /\ status \in VALID_STATUSES \cup {"arrived"}
  /\ delay \in 0..MaxDelay
  /\ DOMAIN worker \in (SUBSET Workers) \ {{}}
  /\ worker \in [DOMAIN worker -> [pc : {"idle", "write", "tell"}, to : Moves]]
  /\ moved \subseteq Moves /\ lost \subseteq Moves
  /\ told \in [Moves -> 0..2]

OneClock == \A v, w \in DOMAIN worker : v = w
AllIdle  == \A w \in DOMAIN worker : At(w, "idle")

\* "Best-effort and idempotent: ... it can't be re-notified": with one clock the
\* crew is told once of each status it has moved the flight to since a hand did,
\* and of no other, whatever fails, but for a notice that was itself lost.
ToldOnce ==
  OneClock => \A s \in Moves : /\ told[s] <= 1
                               /\ AllIdle => (told[s] = 1 <=> s \in moved \ lost)

\* "scheduled -> boarding (T-30m) -> departed (at dep) -> arrived (at arr)": the
\* clock never moves a flight back.
ClockMovesForward ==
  [][\A w \in DOMAIN worker :
       AdvanceWrite(w) => status \in Advanceable /\ Order[status] < Order[status']]_vars

\* What was set by hand stays until a hand sets it anew: the clock moves what it may
\* advance, and a cancelled flight is not brought back.
HandsStand ==
  [][\A w \in DOMAIN worker : AdvanceWrite(w) => status \in Advanceable]_vars

\* "A published flight advances on its own as wall-clock time crosses its ...
\* arrival": an advanceable one whose arrival has passed arrives, unless it is
\* moved by hand or withdrawn, however many instances write over one another and
\* whichever of their calls fail.
OverdueArrives ==
  (pub /\ status \in Advanceable /\ DueStatus = "arrived") ~>
    (status \notin Advanceable \/ ~pub)

\* The same of "(delay-adjusted)" times: a delayed flight leaves at last.
DelayedLeaves ==
  (pub /\ status = "delayed" /\ now >= Dep + delay) ~> (status # "delayed" \/ ~pub)
=============================================================================
