----------------------------- MODULE Acceptance -----------------------------
(***************************************************************************)
(* The answers given for one operating assignment: by the crew member      *)
(* (/respond, and the older /acknowledge and /decline) and by a supervisor *)
(* (/admin-confirm).  Each handler reads the row, may answer at once, and  *)
(* otherwise updates the columns of its answer whatever the row has become *)
(* meanwhile.  Workers are as in module Gendec; a handler cut off between  *)
(* its read and its write changes nothing, so faults are left out.         *)
(***************************************************************************)
EXTENDS AssignmentRow

CONSTANT Workers   \* the instances there may be

VARIABLES
  row,        \* the assignment
  pub,        \* publish_status = 'published'
  departed,   \* departure_time <= now
  worker,     \* the answer each deployed worker is about to write, or "idle"
  reply,      \* history: the last acceptance_status returned, "" once the row moves on
  restamped   \* history: an acknowledged_at was overwritten by a later one

vars == <<row, pub, departed, worker, reply, restamped>>

Answers == {"acknowledge", "decline", "accept", "reject", "confirm"}

\* A single process serves every request.
OneInstance == \A v, w \in DOMAIN worker : v = w

At(w, pc)   == worker[w] = pc
Goto(w, pc) == worker' = [worker EXCEPT ![w] = pc]

\* The row is read and no early return applies.
Read(w, answer) ==
  /\ At(w, "idle")
  /\ Goto(w, answer)
  /\ UNCHANGED <<row, pub, departed, reply, restamped>>

\* An early return: the reply is given from the row read.
Reply(w, status) ==
  /\ At(w, "idle")
  /\ reply' = status
  /\ UNCHANGED <<row, pub, departed, worker, restamped>>

\* The write of an answer and its reply.
Write(w, answer, new, status) ==
  /\ At(w, answer)
  /\ row' = new
  /\ reply' = status
  /\ Goto(w, "idle")
  /\ restamped' = (restamped \/ (answer \in {"acknowledge", "accept"} /\ row.ack))
  /\ UNCHANGED <<pub, departed>>

----------------------------------------------------------------------------
(* POST /acknowledge: no question of publication or departure.  It returns *)
(* the row, not a status.                                                  *)

AcknowledgeRead(w) ==
  /\ ~row.ack
  /\ Read(w, "acknowledge")

AcknowledgeWrite(w) == Write(w, "acknowledge", WriteAccepted(row), "")

\* POST /decline: no early return at all.
DeclineRead(w) == Read(w, "decline")

\* Mutant: the acknowledgement survives a decline.
DeclineWriteKeepsAck(w) == Write(w, "decline", [row EXCEPT !.declined = TRUE], "declined")

DeclineWrite(w) == Write(w, "decline", WriteLegacyDecline(row), "declined")

----------------------------------------------------------------------------
(* POST /respond, of a published flight.                                   *)

\* Mutant: an acceptance is recorded again.
AcceptReadAgain(w) ==
  /\ pub
  /\ ~(row.declined /\ departed)
  /\ Read(w, "accept")

\* "accepted": answered from an acknowledged row; a member who has declined may
\* come back until the flight departs.
AcceptRead(w) ==
  /\ pub
  /\ ~row.ack
  /\ ~(row.declined /\ departed)
  /\ Read(w, "accept")

\* Mutant: the supervisor's pin counts as the member's acceptance.
AcceptReplyPinned(w) ==
  /\ pub
  /\ row.ack \/ row.adm
  /\ Reply(w, "accepted")

AcceptReply(w) ==
  /\ pub
  /\ row.ack
  /\ Reply(w, "accepted")

AcceptWrite(w) == Write(w, "accept", WriteAccepted(row), "accepted")

RejectRead(w) ==
  /\ pub
  /\ ~row.declined
  /\ Read(w, "reject")

RejectReply(w) ==
  /\ pub
  /\ row.declined
  /\ Reply(w, "declined")

RejectWrite(w) == Write(w, "reject", WriteDeclined(row), "declined")

----------------------------------------------------------------------------
(* POST /admin-confirm.                                                    *)

ConfirmRead(w) ==
  /\ ~row.adm
  /\ Read(w, "confirm")

ConfirmReply(w) ==
  /\ row.adm
  /\ Reply(w, "admin_confirmed")

ConfirmWrite(w) == Write(w, "confirm", WriteConfirmed(row), "admin_confirmed")

----------------------------------------------------------------------------
(* The flight: published and withdrawn, departing and delayed.             *)
Flight ==
  /\ \/ pub' = ~pub /\ UNCHANGED departed
     \/ departed' = ~departed /\ UNCHANGED pub
  /\ UNCHANGED <<row, worker, reply, restamped>>

Init ==
  /\ row = NewRow("operating")
  /\ pub \in BOOLEAN /\ departed \in BOOLEAN
  /\ \E deployed \in SUBSET Workers : deployed # {} /\ worker = [w \in deployed |-> "idle"]
  /\ reply = ""
  /\ restamped = FALSE

Handler(w) ==
  \/ AcknowledgeRead(w) \/ AcknowledgeWrite(w)
  \/ DeclineRead(w) \/ DeclineWrite(w)
  \/ AcceptRead(w) \/ AcceptReply(w) \/ AcceptWrite(w)
  \/ RejectRead(w) \/ RejectReply(w) \/ RejectWrite(w)
  \/ ConfirmRead(w) \/ ConfirmReply(w) \/ ConfirmWrite(w)

Next == Flight \/ \E w \in DOMAIN worker : Handler(w)

Spec == Init /\ [][Next]_vars
----------------------------------------------------------------------------
(* Properties.                                                             *)

TypeOK ==
  /\ row \in Row
  /\ pub \in BOOLEAN /\ departed \in BOOLEAN
  /\ DOMAIN worker \subseteq Workers
  /\ worker \in [DOMAIN worker -> Answers \cup {"idle"}]
  /\ reply \in {"", "accepted", "declined", "admin_confirmed"}
  /\ restamped \in BOOLEAN

\* However the answers interleave, no row is both acknowledged and declined: the
\* gates read the one flag, the portal the other.
NeverBoth == ~(row.ack /\ row.declined)

\* What /respond has just replied is what the approval gate reads: "accepted"
\* rows do not block it, "declined" ones do.
RespondReplyIsTrue ==
  /\ reply = "accepted" => ~BlocksApproval(row)
  /\ reply = "declined" => BlocksApproval(row)

\* "supervisor decision supersedes a decline": a seat just reported as
\* admin_confirmed does not block the approval.
ConfirmReplyIsTrue == reply = "admin_confirmed" => ~BlocksApproval(row)

\* "accepted is idempotent (the original accepted_at is preserved)", through any
\* mixture of endpoints, where one instance serves them all.
AcceptedAtPreserved == OneInstance => ~restamped

\* "after departure-time any change needs a supervisor's admin-confirm".
DepartedNeedsSupervisor ==
  [][departed /\ row.declined /\ ~row'.declined => row'.adm]_vars
=============================================================================
