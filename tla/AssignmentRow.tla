--------------------------- MODULE AssignmentRow ---------------------------
(***************************************************************************)
(* One row of the assignments table, reduced to what the acceptance and    *)
(* approval rules read: the duty type and the three acceptance flags.      *)
(* Every operator is the write one handler makes to the row it has read;   *)
(* a handler that returns early (idempotent answers) returns the row       *)
(* unchanged.  There is no state here: the modules that keep rosters       *)
(* EXTEND this one.                                                        *)
(***************************************************************************)

Duties == {"operating", "rider"}   \* rider: deadhead/standby/observer/training

Row == [duty     : Duties \cup {"none"},
        ack      : BOOLEAN,
        declined : BOOLEAN,
        adm      : BOOLEAN]

\* The seat of a crew member who has no row on the flight.
NoRow == [duty |-> "none", ack |-> FALSE, declined |-> FALSE, adm |-> FALSE]

\* A fresh row: "New assignments await the crew member's explicit acceptance".
NewRow(d) == [duty |-> d, ack |-> FALSE, declined |-> FALSE, adm |-> FALSE]

Present(r) == r.duty # "none"

AcceptanceStatus(r) ==
  IF r.declined THEN "declined"
  ELSE IF r.adm THEN "admin_confirmed"
  ELSE IF r.ack THEN "accepted"
  ELSE "pending_acceptance"

\* _acceptance_blockers: an operating row nobody has accepted for.
BlocksApproval(r) ==
  /\ r.duty = "operating"
  /\ AcceptanceStatus(r) \in {"pending_acceptance", "declined"}

----------------------------------------------------------------------------
\* The writes.

\* The UPDATE shared by /acknowledge and an accepting /respond.
WriteAccepted(r) == [r EXCEPT !.ack = TRUE, !.declined = FALSE]

\* The UPDATE of the legacy /decline: the administrative pin survives it.
WriteLegacyDecline(r) == [r EXCEPT !.ack = FALSE, !.declined = TRUE]

\* The UPDATE of a declining /respond: it drops the pin as well.
WriteDeclined(r) == [r EXCEPT !.ack = FALSE, !.declined = TRUE, !.adm = FALSE]

\* The UPDATE of /admin-confirm.
WriteConfirmed(r) == [r EXCEPT !.adm = TRUE, !.declined = FALSE]

----------------------------------------------------------------------------
\* The handlers as functions of the row they read, early returns included.
\* "departed" is what a declined-then-accepting member is refused on.

Acknowledge(r)   == IF r.ack THEN r ELSE WriteAccepted(r)

LegacyDecline(r) == WriteLegacyDecline(r)

RespondAccepted(r, departed) ==
  IF r.ack \/ (r.declined /\ departed) THEN r ELSE WriteAccepted(r)

RespondDeclined(r) == IF r.declined THEN r ELSE WriteDeclined(r)

AdminConfirm(r)  == IF r.adm THEN r ELSE WriteConfirmed(r)
=============================================================================
