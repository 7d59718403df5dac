------------------------------ MODULE CrewDesk ------------------------------
(***************************************************************************)
(* One flight as its crew meet it: their answers (Acceptance),             *)
(* the clock of the flight (FlightStatus), what they are told of their     *)
(* duty (CrewNotices) and the record of one notice (Delivery).  These      *)
(* write different rows and columns and read nothing of one another's, so  *)
(* a behaviour runs one of them, chosen at the start, and the rest rest:   *)
(* the states are those of the four machines, not of their product.        *)
(***************************************************************************)
EXTENDS Acceptance

CONSTANTS
  Dep, Arr, Lead, MaxDelay, MaxTime, ClockWorkers,   \* FlightStatus
  Crew, NoticeWorkers,                               \* CrewNotices
  ConfirmBy, ReadBy, Dashboards                      \* Delivery

VARIABLES
  now, status, delay, moved, live, clock, rung, lost, \* FlightStatus
  on, shown, told, caller, lapse,                    \* CrewNotices
  notice, record, since_sent, since_ack, board,      \* Delivery
  machine                                            \* the one that runs

FS == INSTANCE FlightStatus WITH
        Workers <- ClockWorkers, pub <- live, worker <- clock, told <- rung
CN == INSTANCE CrewNotices WITH Workers <- NoticeWorkers, pub <- shown, worker <- caller
DL == INSTANCE Delivery

ASSUME FlightTimes == FS!TimeAssumption

clockVars    == <<now, live, status, delay, clock, moved, rung, lost>>
noticeVars   == <<on, shown, told, caller, lapse>>
deliveryVars == <<notice, record, since_sent, since_ack, board>>
deskVars     == <<vars, clockVars, noticeVars, deliveryVars, machine>>

\* The machines that do not run are in one of their initial states.
DeskInit ==
  /\ machine \in {"answers", "clock", "notices", "delivery"}
  /\ Init /\ FS!Init /\ CN!Init /\ DL!Init
  /\ machine # "answers"  => pub /\ ~departed /\ DOMAIN worker = Workers
  /\ machine # "clock"    => DOMAIN clock = ClockWorkers
  /\ machine # "delivery" => DOMAIN board = Dashboards

Answering ==
  /\ machine = "answers"
  /\ Next
  /\ UNCHANGED <<clockVars, noticeVars, deliveryVars, machine>>

Clocked(A) ==
  /\ machine = "clock"
  /\ A
  /\ UNCHANGED <<vars, noticeVars, deliveryVars, machine>>

Announcing ==
  /\ machine = "notices"
  /\ CN!Next
  /\ UNCHANGED <<vars, clockVars, deliveryVars, machine>>

Delivering ==
  /\ machine = "delivery"
  /\ DL!Next
  /\ UNCHANGED <<vars, clockVars, noticeVars, machine>>

DeskNext == Answering \/ Clocked(FS!Next) \/ Announcing \/ Delivering

\* Time passes, the apps keep polling the flight list, and the update of a status
\* does not fail for ever (FS!FairSpec).
DeskSpec ==
  /\ DeskInit /\ [][DeskNext]_deskVars
  /\ WF_deskVars(Clocked(FS!Tick))
  /\ \A w \in ClockWorkers : /\ WF_deskVars(Clocked(FS!Advance(w)))
                             /\ SF_deskVars(Clocked(FS!AdvanceWrite(w)))
----------------------------------------------------------------------------
(* The properties of the instances, stated in their modules.               *)

\* FlightStatus: the crew is told of each status the clock sets, and once.
ToldOnce == FS!ToldOnce

\* FlightStatus: an overdue flight arrives at last.
OverdueArrives == FS!OverdueArrives

\* CrewNotices: whoever sees the flight in the portal has been told, and nobody
\* is left thinking that he flies.
NoticesMatchPortal == CN!VisibleIsAnnounced /\ CN!WithdrawnIsAnnounced

\* CrewNotices: nobody is told of a duty he cannot see.
DraftStaysSilent == CN!DraftStaysSilent

\* Delivery: the status of a notice is the one its stamps call for.
StatusTellsStamps == DL!StatusTellsStamps
=============================================================================
