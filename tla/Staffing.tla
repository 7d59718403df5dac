------------------------------ MODULE Staffing ------------------------------
(***************************************************************************)
(* The gates of the three ways onto one flight (POST /assignments,         *)
(* /connected-duty, /replace) and the Do-Not-Pair requests one of them     *)
(* reads.  Workers are as in module Gendec: a gate is a read, the insert   *)
(* comes later.  Only the two gates that relate a member to the rest of    *)
(* the roster are kept, Do-Not-Pair and capacity; those about the member   *)
(* alone (compliance, rank restrictions, account) may refuse any request,  *)
(* which a model in which no request need be made already allows.          *)
(***************************************************************************)
EXTENDS Naturals, FiniteSets

CONSTANTS
  Crew,
  Positions,   \* complement categories and capped operational roles
  Counted,     \* those a connected duty looks at: "pilot", "cabin", "engineer"
  Position,    \* the position of each member's rank
  Cap,         \* required_for_category / operational_expected_by_role
  Requests,    \* DNP request ids; an id is used once
  Pairs,       \* <<requestor, target>> that may be asked for
  Overrides,   \* whether supervisors may override: SUBSET BOOLEAN
  Workers      \* the instances there may be

ASSUME CrewAssumption == IsFiniteSet(Crew)
ASSUME PositionAssumption ==
  /\ Position \in [Crew -> Positions]
  /\ Counted \subseteq Positions
  /\ Cap \in [Positions -> Nat \ {0}]
ASSUME PairAssumption     == \A p \in Pairs : p \in Crew \X Crew /\ p[1] # p[2]
ASSUME OverrideAssumption == Overrides \subseteq BOOLEAN

VARIABLES
  duty,     \* duty type of each member's row on the flight, "none" without one
  req,      \* the crew_incompatibility table
  worker,   \* what each deployed worker is executing
  owner     \* history: {w} if w's last insert of the member is still there

vars == <<duty, req, worker, owner>>

Duties   == {"operating", "rider"}
DnpStatuses == {"absent", "pending", "approved", "rejected", "deleted"}

OnFlight  == {c \in Crew : duty[c] # "none"}
Operating == {c \in Crew : duty[c] = "operating"}
In(C, p)  == {c \in C : Position[c] = p}

\* get_approved_dnp_pairs, looked up in both directions.
Incompatible(a, b) ==
  \E r \in Requests : req[r].status = "approved" /\ req[r].pair \in {<<a, b>>, <<b, a>>}

LocalState == [pc   : {"idle", "assignDnp", "assignInsert", "replaceDnp", "replaceInsert",
                       "replaceDelete", "dutyRead", "dutyInsert", "dutyRollback"},
               new  : SUBSET Crew,            \* to be inserted
               old  : SUBSET Crew,            \* to be relieved
               mine : SUBSET Crew,            \* rows whose id it holds and that still exist
               duty : Duties,
               over : BOOLEAN,                \* is_override
               on   : SUBSET Crew,            \* members read as being on the flight,
               op   : SUBSET Crew]            \* and as operating it

Idle == [pc |-> "idle", new |-> {}, old |-> {}, mine |-> {}, duty |-> "operating",
         over |-> FALSE, on |-> {}, op |-> {}]

Deployed     == DOMAIN worker

At(w, pc)    == worker[w].pc = pc
Become(w, s) == worker' = [worker EXCEPT ![w] = s]
Goto(w, pc)  == Become(w, [worker[w] EXCEPT !.pc = pc])
Finish(w)    == Become(w, Idle)

InsertRow(c, d, w) ==
  /\ duty'  = [duty EXCEPT ![c] = d]
  /\ owner' = [owner EXCEPT ![c] = {w}]

\* Mutant: the rows are deleted by (flight, crew).
DeleteRowsByPair(S, w, s) ==
  /\ duty'  = [c \in Crew |-> IF c \in S THEN "none" ELSE duty[c]]
  /\ owner' = [c \in Crew |-> IF c \in S THEN {} ELSE owner[c]]
  /\ Become(w, [s EXCEPT !.mine = @ \ S])

\* DELETE of the rows of S by id: no id of theirs is held any more.
DeleteRows(S, w, s) ==
  /\ duty'  = [c \in Crew |-> IF c \in S THEN "none" ELSE duty[c]]
  /\ owner' = [c \in Crew |-> IF c \in S THEN {} ELSE owner[c]]
  /\ worker' = [x \in Deployed |->
                  IF x = w THEN [s EXCEPT !.mine = @ \ S]
                           ELSE [worker[x] EXCEPT !.mine = @ \ S]]

----------------------------------------------------------------------------
(* POST /assignments.                                                      *)

\* The flight's rows are read once, for the duplicate check and for both gates.
AssignRead(w, c, d, over) ==
  /\ At(w, "idle")
  /\ c \notin OnFlight
  /\ Become(w, [Idle EXCEPT !.pc = "assignDnp", !.new = {c}, !.duty = d, !.over = over,
                            !.on = OnFlight, !.op = Operating])
  /\ UNCHANGED <<duty, req, owner>>

\* "DNP - ALWAYS enforced, even under override", against the members read.
KeptApart(w) ==
  \A a \in worker[w].new, b \in worker[w].on : ~Incompatible(a, b)

\* "A flight takes ONLY its required complement per position", of operating crew
\* and unless overridden.
HasRoom(w) ==
  \/ worker[w].over \/ worker[w].duty # "operating"
  \/ \A c \in worker[w].new :
       Cardinality(In(worker[w].op, Position[c])) < Cap[Position[c]]

\* Mutant: an override skips the DNP gate too.
AssignGatesOverridden(w) ==
  /\ At(w, "assignDnp")
  /\ IF (worker[w].over \/ KeptApart(w)) /\ HasRoom(w) THEN Goto(w, "assignInsert") ELSE Finish(w)
  /\ UNCHANGED <<duty, req, owner>>

\* The approved pairs are read; both gates decide on the rows read before.
AssignGates(w) ==
  /\ At(w, "assignDnp")
  /\ IF KeptApart(w) /\ HasRoom(w) THEN Goto(w, "assignInsert") ELSE Finish(w)
  /\ UNCHANGED <<duty, req, owner>>

\* The insert; it raises if the pair (flight, crew) exists by now.
AssignInsert(w) ==
  /\ At(w, "assignInsert")
  /\ \E c \in worker[w].new :
       IF c \in OnFlight THEN UNCHANGED <<duty, owner>> ELSE InsertRow(c, worker[w].duty, w)
  /\ Finish(w)
  /\ UNCHANGED req

\* DELETE /assignments/{id}.
Remove(w, c) ==
  /\ At(w, "idle")
  /\ c \in OnFlight
  /\ DeleteRows({c}, w, Idle)
  /\ UNCHANGED req

----------------------------------------------------------------------------
(* POST /assignments/{id}/replace: no override and no capacity gate.       *)

\* The relieved member's row and those remaining are read.
ReplaceRead(w, old, new) ==
  /\ At(w, "idle")
  /\ old \in OnFlight /\ new \notin OnFlight
  /\ Become(w, [Idle EXCEPT !.pc = "replaceDnp", !.new = {new}, !.old = {old}, !.mine = {old},
                            !.duty = duty[old], !.on = OnFlight \ {old}])
  /\ UNCHANGED <<duty, req, owner>>

ReplaceGate(w) ==
  /\ At(w, "replaceDnp")
  /\ IF KeptApart(w) THEN Goto(w, "replaceInsert") ELSE Finish(w)
  /\ UNCHANGED <<duty, req, owner>>

ReplaceInsert(w) ==
  /\ At(w, "replaceInsert")
  /\ \E c \in worker[w].new :
       IF c \in OnFlight THEN UNCHANGED <<duty, owner>> /\ Finish(w)
       ELSE InsertRow(c, worker[w].duty, w) /\ Goto(w, "replaceDelete")
  /\ UNCHANGED req

ReplaceDelete(w) ==
  /\ At(w, "replaceDelete")
  /\ DeleteRows(worker[w].mine, w, Idle)
  /\ UNCHANGED req

----------------------------------------------------------------------------
(* POST /assignments/connected-duty, seen from one of its sectors.         *)

\* Mutant: the newcomers are forgotten.
DutyFitsNow(C) == \A p \in Counted : Cardinality(In(OnFlight, p)) <= Cap[p]

\* Everyone on the flight counts, riders too, and so does every member of the
\* request, those on the flight already included.
DutyFits(C) ==
  \A p \in Counted : Cardinality(In(OnFlight, p)) + Cardinality(In(C, p)) <= Cap[p]

\* The capacity gate; there is none for pairs.
DutyGate(w, C, over) ==
  /\ At(w, "idle")
  /\ over \/ DutyFits(C)
  /\ Become(w, [Idle EXCEPT !.pc = "dutyRead", !.new = C, !.over = over])
  /\ UNCHANGED <<duty, req, owner>>

\* The pairs (flight, crew) that exist are read, to be skipped.
DutyRead(w) ==
  /\ At(w, "dutyRead")
  /\ Become(w, [worker[w] EXCEPT !.pc = "dutyInsert", !.new = @ \ OnFlight])
  /\ UNCHANGED <<duty, req, owner>>

DutyInsert(w, c) ==
  /\ At(w, "dutyInsert")
  /\ c \in worker[w].new \ OnFlight
  /\ InsertRow(c, "operating", w)
  /\ Become(w, [worker[w] EXCEPT !.new = @ \ {c}, !.mine = @ \cup {c}])
  /\ UNCHANGED req

\* An insert raises: the (flight, crew) pair is taken meanwhile, or the call fails.
DutyFail(w) ==
  /\ At(w, "dutyInsert")
  /\ worker[w].new # {}
  /\ Goto(w, "dutyRollback")
  /\ UNCHANGED <<duty, req, owner>>

DutyRollback(w, c) ==
  /\ At(w, "dutyRollback")
  /\ c \in worker[w].mine
  /\ DeleteRows({c}, w, worker[w])
  /\ UNCHANGED req

\* All is inserted, or rolled back; a deletion that raises is passed over.
DutyEnd(w) ==
  /\ (At(w, "dutyInsert") /\ worker[w].new = {}) \/ At(w, "dutyRollback")
  /\ Finish(w)
  /\ UNCHANGED <<duty, req, owner>>

----------------------------------------------------------------------------
(* The Do-Not-Pair requests.  Each handler is taken as one step: its read  *)
(* and write race only with those of the same request.                     *)

Served == \E w \in Deployed : At(w, "idle")

Active(p) == \E r \in Requests : req[r].pair = p /\ req[r].status \in {"pending", "approved"}

\* POST /incompatibility: no active request of this pair, in this direction.
CreateRequest(r, p) ==
  /\ Served
  /\ req[r].status = "absent"
  /\ ~Active(p)
  /\ req' = [req EXCEPT ![r] = [pair |-> p, status |-> "pending"]]
  /\ UNCHANGED <<duty, worker, owner>>

\* PATCH /incompatibility/{id}/review: whatever the status.
ReviewRequest(r, verdict) ==
  /\ Served
  /\ req[r].status \in {"pending", "approved", "rejected"}
  /\ req' = [req EXCEPT ![r].status = verdict]
  /\ UNCHANGED <<duty, worker, owner>>

\* DELETE /incompatibility/{id}: an approved one too.
CancelRequest(r) ==
  /\ Served
  /\ req[r].status \in {"pending", "approved", "rejected"}
  /\ req' = [req EXCEPT ![r].status = "deleted"]
  /\ UNCHANGED <<duty, worker, owner>>

----------------------------------------------------------------------------
Init ==
  /\ duty = [c \in Crew |-> "none"]
  /\ req \in [Requests -> {[pair |-> p, status |-> "absent"] : p \in Pairs}]
  /\ \E W \in SUBSET Workers : W # {} /\ worker = [w \in W |-> Idle]
  /\ owner = [c \in Crew |-> {}]

Handler(w) ==
  \/ \E c \in Crew, d \in Duties, o \in Overrides : AssignRead(w, c, d, o)
  \/ AssignGates(w) \/ AssignInsert(w)
  \/ \E c \in Crew : Remove(w, c)
  \/ \E old, new \in Crew : ReplaceRead(w, old, new)
  \/ ReplaceGate(w) \/ ReplaceInsert(w) \/ ReplaceDelete(w)
  \/ \E C \in SUBSET Crew, o \in Overrides : C # {} /\ DutyGate(w, C, o)
  \/ DutyRead(w) \/ DutyFail(w) \/ DutyEnd(w)
  \/ \E c \in Crew : DutyInsert(w, c) \/ DutyRollback(w, c)

Desk ==
  \E r \in Requests :
    \/ \E p \in Pairs : CreateRequest(r, p)
    \/ \E v \in {"approved", "rejected"} : ReviewRequest(r, v)
    \/ CancelRequest(r)

Next == Desk \/ \E w \in Deployed : Handler(w)

Spec == Init /\ [][Next]_vars
----------------------------------------------------------------------------
(* Properties.                                                             *)

TypeOK ==
  /\ duty \in [Crew -> Duties \cup {"none"}]
  /\ req \in [Requests -> [pair : Pairs, status : DnpStatuses]]
  /\ Deployed \subseteq Workers /\ worker \in [Deployed -> LocalState]
  /\ owner \in [Crew -> SUBSET Workers]

\* A single process serves every request.
OneInstance == \A v, w \in Deployed : v = w

\* The step by which a handler leaves its result in the roster.
Lands(w, pc) == At(w, pc) /\ duty' # duty /\ worker'[w] # worker[w]

\* "must not fly together": neither an assignment, overridden or not, nor a
\* replacement leaves a member on the flight with one an approved request keeps
\* him from, where one process serves every request.
PairsKeptApart ==
  [][\A w \in Deployed : OneInstance =>
       (Lands(w, "assignInsert") \/ Lands(w, "replaceDelete") =>
         \A a \in worker[w].new, b \in Crew :
           duty'[a] # "none" /\ duty'[b] # "none" => ~Incompatible(a, b))]_vars

\* The same of a connected duty.
DutyKeepsPairsApart ==
  [][\A w \in Deployed :
       Lands(w, "dutyInsert") =>
         \A a \in worker'[w].mine, b \in Crew :
           duty'[a] # "none" /\ duty'[b] # "none" => ~Incompatible(a, b)]_vars

Crowded(p) == Cardinality({c \in Crew : duty[c] = "operating" /\ Position[c] = p}) > Cap[p]

\* "A flight takes ONLY its required complement per position": without override,
\* neither an assignment of operating crew nor a connected duty, which counts what it
\* finds by a gate of its own, exceeds the cap.
WithinCap ==
  [][\A w \in Deployed : OneInstance /\ ~worker[w].over =>
       /\ Lands(w, "assignInsert") /\ worker[w].duty = "operating" =>
            \A c \in worker[w].new : ~Crowded(Position[c])'
       /\ Lands(w, "dutyInsert") =>
            \A c \in worker'[w].mine : Position[c] \in Counted => ~Crowded(Position[c])']_vars

\* "Slot-neutral swap ... so the complement-capacity gate is deliberately not
\* re-run": without overrides, no sequence of requests overfills a position.
OperatingWithinCap ==
  (\A w \in Deployed : At(w, "idle")) => \A p \in Positions : ~Crowded(p)

\* "roll back on any failure": whatever the other instances remove and insert
\* meanwhile, the rollback of a connected duty deletes only its own rows.
RollbackIsOwn ==
  [][\A w \in Deployed, c \in Crew :
       (\E x \in Crew : DutyRollback(w, x)) /\ duty[c] # "none" /\ duty'[c] = "none" =>
         owner[c] = {w}]_vars

\* "Check for existing active request": a pair has one at most.
OneActiveRequest ==
  \A r, s \in Requests :
    /\ req[r].status \in {"pending", "approved"}
    /\ req[s].status \in {"pending", "approved"}
    /\ req[r].pair = req[s].pair
    => r = s
=============================================================================
