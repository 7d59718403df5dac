---------------------------- MODULE Maintenance ----------------------------
(***************************************************************************)
(* The defects of one tail (endpoints/maintenance.py) and the status they  *)
(* give the aircraft (also written by endpoints/aircraft.py).  Logging a   *)
(* defect and resolving one each take several calls, between which other   *)
(* instances run and after which a killed request does not go on.          *)
(***************************************************************************)
EXTENDS FiniteSets

CONSTANTS
  Defects,     \* defect records
  Engineers    \* the instances there may be

VARIABLES
  defect,      \* each record, NoDefect if not logged (or deleted)
  tail,        \* aircraft.operational_status; is_active follows it, unless edited alone
  job,         \* what each deployed worker is doing
  lapse        \* history: something the code does not follow up has been done

vars == <<defect, tail, job, lapse>>

NoDefect  == [status |-> "none", grounding |-> FALSE]
Statuses  == {"open", "deferred", "resolved"}
TailStatuses == {"active", "maintenance", "aog", "grounded"}
OneEngineer == \A v, w \in DOMAIN job : v = w

Logged(d) == defect[d] # NoDefect
Grounds(d) == defect[d].grounding /\ defect[d].status # "resolved"

Goto(w, pc) == job' = [job EXCEPT ![w] = pc]

----------------------------------------------------------------------------
(* POST /maintenance/defects: "critical" grounds like an explicit flag.    *)

CreateDefect(w) ==
  /\ job[w] = "idle"
  /\ \E d \in Defects, grounding \in BOOLEAN :
       /\ ~Logged(d)
       /\ defect' = [defect EXCEPT ![d] = [status |-> "open", grounding |-> grounding]]
       /\ IF grounding THEN Goto(w, "ground") ELSE UNCHANGED job
  /\ UNCHANGED <<tail, lapse>>

GroundTail(w) ==
  /\ job[w] = "ground"
  /\ tail' = "aog"
  /\ Goto(w, "idle")
  /\ lapse' = FALSE
  /\ UNCHANGED defect

----------------------------------------------------------------------------
(* PATCH /maintenance/defects/{id}: any status and any flag may be given;  *)
(* only a status of "resolved" has consequences for the tail.              *)

UpdateDefect(w) ==
  /\ job[w] = "idle"
  /\ \E d \in Defects, status \in Statuses, grounding \in BOOLEAN :
       /\ Logged(d)
       /\ defect' = [defect EXCEPT ![d] = [status |-> status, grounding |-> grounding]]
       /\ lapse' = (lapse \/ (~Grounds(d) /\ grounding /\ status # "resolved"))
       /\ IF status = "resolved" THEN Goto(w, "count") ELSE UNCHANGED job
  /\ UNCHANGED tail

\* Mutant: only open defects are counted.
CountOpenOnly(w) ==
  /\ job[w] = "count"
  /\ Goto(w, IF \E d \in Defects : Grounds(d) /\ defect[d].status = "open" THEN "idle" ELSE "release")
  /\ UNCHANGED <<defect, tail, lapse>>

\* The grounding defects that are left, deferred ones included.
CountGrounding(w) ==
  /\ job[w] = "count"
  /\ Goto(w, IF \E d \in Defects : Grounds(d) THEN "idle" ELSE "release")
  /\ UNCHANGED <<defect, tail, lapse>>

\* The tail returns to "active", whatever it was.
ReleaseTail(w) ==
  /\ job[w] = "release"
  /\ tail' = "active"
  /\ Goto(w, "idle")
  /\ lapse' = FALSE
  /\ UNCHANGED defect

\* DELETE: the tail is left as it is.
DeleteDefect(w) ==
  /\ job[w] = "idle"
  /\ \E d \in Defects : Logged(d) /\ defect' = [defect EXCEPT ![d] = NoDefect]
  /\ UNCHANGED <<tail, job, lapse>>

----------------------------------------------------------------------------
\* PATCH /aircraft/{id}: the status is set by hand, whatever defects there are.
UpdateAircraft(w) ==
  /\ job[w] = "idle"
  /\ \E status \in TailStatuses :
       /\ tail' = status
       /\ lapse' = (lapse \/ (status = "active" /\ \E d \in Defects : Grounds(d)))
  /\ UNCHANGED <<defect, job>>

\* A request that raises or is killed between two calls; only the one about to
\* ground the tail leaves something undone.
Killed(w) ==
  /\ job[w] # "idle"
  /\ Goto(w, "idle")
  /\ lapse' = (lapse \/ job[w] = "ground")
  /\ UNCHANGED <<defect, tail>>

Init ==
  /\ defect = [d \in Defects |-> NoDefect]
  /\ tail \in TailStatuses
  /\ \E deployed \in SUBSET Engineers : deployed # {} /\ job = [w \in deployed |-> "idle"]
  /\ lapse = FALSE

Handler(w) ==
  \/ CreateDefect(w) \/ GroundTail(w)
  \/ UpdateDefect(w) \/ CountGrounding(w) \/ ReleaseTail(w)
  \/ DeleteDefect(w) \/ UpdateAircraft(w) \/ Killed(w)

Next == \E w \in DOMAIN job : Handler(w)

Spec == Init /\ [][Next]_vars
----------------------------------------------------------------------------
(* Properties.                                                             *)

\* "Engineering and dispatch should never disagree on whether a tail can fly":
\* with one process, between requests, a tail with an unresolved grounding defect
\* is not active, unless a defect was made grounding or reopened by PATCH, the
\* tail was released by hand, or a request was cut off before it grounded it.
GroundedTailsStay ==
  OneEngineer /\ ~lapse /\ (\A w \in DOMAIN job : job[w] = "idle")
    => ((\E d \in Defects : Grounds(d)) => tail # "active")
=============================================================================
