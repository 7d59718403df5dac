------------------------------ MODULE Delivery ------------------------------
(***************************************************************************)
(* The delivery record of one notice of assignment: written when the crew  *)
(* member is told (assignments.py), moved by the member's app (delivered,  *)
(* read) and by the dashboard, which applies the deadlines to the rows it  *)
(* has read, one update at a time (notifications.py).  Updates of the      *)
(* member's app carry their condition to the database; the dashboard's do  *)
(* not.                                                                    *)
(***************************************************************************)
EXTENDS Naturals

CONSTANTS
  ConfirmBy,    \* _DELIVERY_CONFIRM_DEADLINE, in ticks
  ReadBy,       \* _READ_DEADLINE, in ticks
  Dashboards    \* the instances there may be

VARIABLES
  notice,      \* "none", "unread", "read" or "deleted"
  record,      \* the row of notification_delivery, NoRecord if there is none
  since_sent,  \* ticks since sent_at, at most ConfirmBy + 1
  since_ack,   \* ticks since delivered_at, at most ReadBy + 1
  board        \* what each deployed worker is doing

vars == <<notice, record, since_sent, since_ack, board>>

NoRecord == [status |-> "none", delivered |-> FALSE, read |-> FALSE]
Resting  == [pc |-> "idle"]
OneDashboard == \A v, w \in DOMAIN board : v = w

Go(w, task) == board' = [board EXCEPT ![w] = task]

----------------------------------------------------------------------------
(* _notify_crew_assigned: the notice, a push, then the record with the     *)
(* outcome of the push.                                                    *)

NotifyInsert(w) ==
  /\ board[w] = Resting
  /\ notice = "none"
  /\ notice' = "unread"
  /\ Go(w, [pc |-> "push"])
  /\ UNCHANGED <<record, since_sent, since_ack>>

\* "failed" when every device refused the push; "sent" otherwise, also when the
\* member has no device.
NotifyRecord(w) ==
  /\ board[w].pc = "push"
  /\ \E status \in {"sent", "failed"} : record' = [NoRecord EXCEPT !.status = status]
  /\ since_sent' = 0
  /\ Go(w, Resting)
  /\ UNCHANGED <<notice, since_ack>>

----------------------------------------------------------------------------
(* The member's app.                                                       *)

\* POST /{id}/read: nothing more for a notice that was read before.
MarkRead(w) ==
  /\ board[w] = Resting
  /\ notice = "unread"
  /\ notice' = "read"
  /\ Go(w, [pc |-> "read"])
  /\ UNCHANGED <<record, since_sent, since_ack>>

\* Reading implies delivery, but delivered_at is not stamped.
MarkReadRecord(w) ==
  /\ board[w].pc = "read"
  /\ record' = IF record # NoRecord /\ ~record.read
               THEN [record EXCEPT !.status = "read", !.read = TRUE] ELSE record
  /\ Go(w, Resting)
  /\ UNCHANGED <<notice, since_sent, since_ack>>

\* Mutant: the acknowledgement is taken in any status.
AckDeliveredAny(w) ==
  /\ board[w] = Resting
  /\ record # NoRecord /\ ~record.delivered
  /\ record' = [record EXCEPT !.status = "delivered", !.delivered = TRUE]
  /\ since_ack' = 0
  /\ UNCHANGED <<notice, since_sent, board>>

\* POST /{id}/ack-delivered
AckDelivered(w) ==
  /\ board[w] = Resting
  /\ record.status \in {"sent", "failed", "delivery_not_confirmed"}
  /\ ~record.delivered
  /\ record' = [record EXCEPT !.status = "delivered", !.delivered = TRUE]
  /\ since_ack' = 0
  /\ UNCHANGED <<notice, since_sent, board>>

\* POST /read-all: the notices only.
MarkAllRead(w) ==
  /\ board[w] = Resting
  /\ notice = "unread"
  /\ notice' = "read"
  /\ UNCHANGED <<record, since_sent, since_ack, board>>

\* DELETE /{id}, and POST /clear-all of what is read.
DeleteNotification(w) ==
  /\ board[w] = Resting
  /\ notice \in {"unread", "read"}
  /\ notice' = "deleted"
  /\ UNCHANGED <<record, since_sent, since_ack, board>>

----------------------------------------------------------------------------
(* GET /delivery: the rows, then the transitions that are due.             *)

\* What the deadlines make of the row; its own status if none has passed.
TimedOut(row) ==
  IF row.status = "sent" /\ ~row.delivered /\ since_sent > ConfirmBy THEN "delivery_not_confirmed"
  ELSE IF row.status = "delivered" /\ ~row.read /\ since_ack > ReadBy THEN "unread_after_deadline"
  ELSE row.status

SweepRead(w) ==
  /\ board[w] = Resting
  /\ TimedOut(record) # record.status
  /\ Go(w, [pc |-> "sweep", status |-> TimedOut(record)])
  /\ UNCHANGED <<notice, record, since_sent, since_ack>>

SweepWrite(w) ==
  /\ board[w].pc = "sweep"
  /\ record' = [record EXCEPT !.status = board[w].status]
  /\ Go(w, Resting)
  /\ UNCHANGED <<notice, since_sent, since_ack>>

\* A call that fails is logged and the request goes on, or the request is killed.
Fails(w) ==
  /\ board[w] # Resting
  /\ Go(w, Resting)
  /\ UNCHANGED <<notice, record, since_sent, since_ack>>

Minute ==
  /\ record # NoRecord
  /\ since_sent' = IF since_sent > ConfirmBy THEN since_sent ELSE since_sent + 1
  /\ since_ack' = IF since_ack > ReadBy \/ ~record.delivered THEN since_ack ELSE since_ack + 1
  /\ UNCHANGED <<notice, record, board>>

Init ==
  /\ notice = "none" /\ record = NoRecord
  /\ since_sent = 0 /\ since_ack = 0
  /\ \E deployed \in SUBSET Dashboards : deployed # {} /\ board = [w \in deployed |-> Resting]

Handler(w) ==
  \/ NotifyInsert(w) \/ NotifyRecord(w)
  \/ MarkRead(w) \/ MarkReadRecord(w) \/ AckDelivered(w) \/ MarkAllRead(w) \/ DeleteNotification(w)
  \/ SweepRead(w) \/ SweepWrite(w) \/ Fails(w)

Next == Minute \/ \E w \in DOMAIN board : Handler(w)

Spec == Init /\ [][Next]_vars
----------------------------------------------------------------------------
(* Properties.                                                             *)

\* With one process the status the scheduler sees is the one the stamps of the
\* row call for, in whatever order the app's answers and the deadlines come.  Two
\* processes break it: a dashboard writes its deadline over a "read".
StatusTellsStamps ==
  OneDashboard =>
    /\ record.read <=> record.status = "read"
    /\ record.status \in {"delivered", "unread_after_deadline"} => record.delivered
    /\ record.status \in {"sent", "failed", "delivery_not_confirmed"} => ~record.delivered
=============================================================================
