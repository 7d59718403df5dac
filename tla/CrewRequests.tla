---------------------------- MODULE CrewRequests ----------------------------
(***************************************************************************)
(* What one crew member asks of the desk for a month: a leave request      *)
(* (endpoints/leave_requests.py) and a bid (endpoints/bidding.py).  Each   *)
(* handler reads the row, checks it and writes by id, whatever the row has *)
(* become; a killed request has written what it has written.  The notice   *)
(* to the desk of a new request is left out.                               *)
(***************************************************************************)
EXTENDS Naturals

CONSTANTS
  Wishes,     \* what a bid may say
  Clerks      \* the instances there may be

VARIABLES
  leave,      \* status of the leave request: "none" before it is made, "deleted" after
  notified,   \* the last decision the member has been notified of
  bid,        \* the member's bid of the month, NoBid if there is no row
  desk,       \* what each deployed worker is doing
  missed,     \* history: the notice of the last decision was lost, or another's crossed it
  closed      \* history: the bid has been locked

vars == <<leave, notified, bid, desk, missed, closed>>

NoBid  == [wish |-> "none", locked |-> FALSE]
AtDesk == [pc |-> "idle"]
Decided == {"approved", "rejected"}
Exists  == leave \notin {"none", "deleted"}

Start(w, task) == desk[w] = AtDesk /\ desk' = [desk EXCEPT ![w] = task]
Done(w)        == desk' = [desk EXCEPT ![w] = AtDesk]

----------------------------------------------------------------------------
(* Leave.                                                                  *)

CreateLeave(w) ==
  /\ desk[w] = AtDesk
  /\ leave = "none"
  /\ leave' = "pending"
  /\ UNCHANGED <<notified, bid, desk, missed, closed>>

\* PATCH /review: the row must exist; its status is not looked at.
ReviewRead(w) ==
  /\ Exists
  /\ \E status \in Decided : Start(w, [pc |-> "review", status |-> status])
  /\ UNCHANGED <<leave, notified, bid, missed, closed>>

\* Mutant: who has been told of a decision is not told of another.
ReviewWriteSilently(w) ==
  /\ desk[w].pc = "review"
  /\ leave' = IF Exists THEN desk[w].status ELSE leave
  /\ missed' = (\E v \in DOMAIN desk : desk[v].pc = "notify")
  /\ desk' = [desk EXCEPT ![w] = IF leave = "pending" THEN [@ EXCEPT !.pc = "notify"] ELSE AtDesk]
  /\ UNCHANGED <<notified, bid, closed>>

\* An update by id: of no row, if the request is gone meanwhile.
ReviewWrite(w) ==
  /\ desk[w].pc = "review"
  /\ leave' = IF Exists THEN desk[w].status ELSE leave
  /\ missed' = (\E v \in DOMAIN desk : desk[v].pc = "notify")
  /\ desk' = [desk EXCEPT ![w].pc = "notify"]
  /\ UNCHANGED <<notified, bid, closed>>

ReviewNotify(w) ==
  /\ desk[w].pc = "notify"
  /\ notified' = desk[w].status
  /\ Done(w)
  /\ UNCHANGED <<leave, bid, missed, closed>>

\* The notice raises, which is passed over, or the member has no account.
ReviewNotifyFails(w) ==
  /\ desk[w].pc = "notify"
  /\ missed' = TRUE
  /\ Done(w)
  /\ UNCHANGED <<leave, notified, bid, closed>>

\* DELETE: by the member only while pending, by a manager any.
CancelRead(w) ==
  /\ \E role \in {"crew", "manager"} :
       /\ IF role = "crew" THEN leave = "pending" ELSE Exists
       /\ Start(w, [pc |-> "cancel"])
  /\ UNCHANGED <<leave, notified, bid, missed, closed>>

CancelDelete(w) ==
  /\ desk[w].pc = "cancel"
  /\ leave' = "deleted"
  /\ Done(w)
  /\ UNCHANGED <<notified, bid, missed, closed>>

----------------------------------------------------------------------------
(* Bids.                                                                   *)

\* POST /bids: refused if the row read is locked.
BidRead(w) ==
  /\ ~bid.locked
  /\ \E wish \in Wishes :
       Start(w, [pc |-> "bid", wish |-> wish, known |-> bid # NoBid, late |-> closed])
  /\ UNCHANGED <<leave, notified, bid, missed, closed>>

\* Mutant: the update writes the whole row, unlocked as the request knows it.
BidWriteWhole(w) ==
  /\ desk[w].pc = "bid"
  /\ desk[w].known \/ bid = NoBid
  /\ bid' = [wish |-> desk[w].wish, locked |-> FALSE]
  /\ Done(w)
  /\ UNCHANGED <<leave, notified, missed, closed>>

\* The row is updated (its lock is not among the columns written), or inserted
\* unlocked; a second insert is refused by the table.
BidWrite(w) ==
  /\ desk[w].pc = "bid"
  /\ desk[w].known \/ bid = NoBid
  /\ bid' = [bid EXCEPT !.wish = desk[w].wish]
  /\ Done(w)
  /\ UNCHANGED <<leave, notified, missed, closed>>

\* POST /bids/lock/{month}: the rows there are.
LockBids(w) ==
  /\ desk[w] = AtDesk
  /\ bid # NoBid
  /\ bid' = [bid EXCEPT !.locked = TRUE]
  /\ closed' = TRUE
  /\ UNCHANGED <<leave, notified, desk, missed>>

Killed(w) ==
  /\ desk[w] # AtDesk
  /\ missed' = (missed \/ desk[w].pc = "notify")
  /\ Done(w)
  /\ UNCHANGED <<leave, notified, bid, closed>>

Init ==
  /\ leave = "none" /\ notified = "none"
  /\ bid = NoBid
  /\ \E deployed \in SUBSET Clerks : deployed # {} /\ desk = [w \in deployed |-> AtDesk]
  /\ missed = FALSE /\ closed = FALSE

Handler(w) ==
  \/ CreateLeave(w) \/ ReviewRead(w) \/ ReviewWrite(w)
  \/ ReviewNotify(w) \/ ReviewNotifyFails(w) \/ CancelRead(w) \/ CancelDelete(w)
  \/ BidRead(w) \/ BidWrite(w) \/ LockBids(w) \/ Killed(w)

Next == \E w \in DOMAIN desk : Handler(w)

Spec == Init /\ [][Next]_vars
----------------------------------------------------------------------------
(* Properties.                                                             *)

\* The decision a member has last been notified of is the one the desk's table holds,
\* or its notice is on the way; unless that notice was lost, or written out of order
\* with that of a review that crossed it.  Reviews may follow one another, and cross
\* cancellations, at will.
ReviewIsTold ==
  leave \in Decided /\ ~missed =>
    notified = leave \/ \E w \in DOMAIN desk : desk[w] = [pc |-> "notify", status |-> leave]

\* "Once the bid is locked, all writes are refused": to whoever reads it after the
\* lock, for no write of a request that read it before takes the lock away.
LockHolds ==
  \A w \in DOMAIN desk : desk[w].pc = "bid" => ~desk[w].late
=============================================================================
