--------------------------- MODULE StandbyProofs ---------------------------
(***************************************************************************)
(* What the standby desk of one process guarantees, for any number of      *)
(* rows and flights, with or without faults: nobody is called out twice,   *)
(* no row is escalated twice, the sweeps keep to the rows they may touch,  *)
(* and a sweep that runs to its end handles every refusal.                 *)
(***************************************************************************)
EXTENDS Standby, TLAPS

\* The deployment the desk is written for: handlers of one process.
OneProcess == \A v, w \in Workers : v = w

----------------------------------------------------------------------------
(* The inductive invariant.                                                *)

\* A row not called out yet is blank in every column the desk writes later, and
\* has no history; a row still to be escalated has never been; only an
\* acceptance is linked.
RowSound(s, told, raised) ==
  /\ s.status \in {"absent", "ACTIVE"} =>
       /\ ~s.called /\ s.resp = "none" /\ s.link = None /\ s.escalated = "no"
       /\ told = 0 /\ raised = 0
  /\ s.status # "deleted" /\ s.escalated = "no" => raised = 0
  /\ s.link # None => s.resp = "ACCEPTED"
  /\ told <= 1 /\ raised <= 1

RowsSound == \A r \in Rows : RowSound(row[r], alerts[r], stamps[r])

\* A call-out a sweep may still escalate.
Open(s) ==
  /\ s.called /\ s.status \in {"CALLED_OUT", "ASSIGNED"}
  /\ s.escalated = "no" /\ s.resp # "ACCEPTED"

\* A refusal nobody has handled.
Refused(s) ==
  /\ s.called /\ s.status \in {"CALLED_OUT", "ASSIGNED"}
  /\ s.escalated = "no" /\ s.resp = "REJECTED"

\* What a call-out, an answer and the expiry sweep hold to be true of the table
\* between two of their calls.
DeskSound(k, rows, told) ==
  /\ k.pc \in {"callout", "calloutNotify", "reject", "accept", "assign", "insert",
               "link", "fail"} => k.row \in Rows /\ rows[k.row].status \in Live
  /\ k.pc \in {"calloutNotify", "reject", "accept", "assign", "insert", "link", "fail"} =>
       rows[k.row].status # "ACTIVE"
  /\ k.pc = "callout" /\ k.first => rows[k.row].status = "ACTIVE"
  /\ k.pc = "calloutNotify" /\ k.first => told[k.row] = 0
  /\ k.pc = "reject" => rows[k.row].resp = "none"
  /\ k.pc = "accept" /\ ~k.first => rows[k.row].resp = "ACCEPTED"
  /\ k.pc \in {"assign", "insert", "link", "fail"} => rows[k.row].resp = "ACCEPTED"
  /\ k.pc = "expire" => \A r \in k.todo : rows[r].status = "ACTIVE"

\* The rows a sweep has still to stamp.
Unstamped(k) == IF k.pc \in {"escalate", "stamp"} THEN k.todo ELSE k.todo \ {k.row}

\* What the escalation sweep holds to be true: its list is of open call-outs and
\* misses no refusal, and its candidate waits in the pool until it is called.
SweepSound(k, rows, told) ==
  k.pc \in SweepPCs =>
    /\ \A r \in Unstamped(k) : Open(rows[r])
    /\ \A r \in Rows : Refused(rows[r]) => r \in Unstamped(k)
    /\ k.pc # "escalate" => k.row \in k.todo
    /\ k.pc \in {"stamp", "call"} /\ k.cand # None => rows[k.cand].status = "ACTIVE"
    /\ k.pc \in {"call", "callNotify"} => k.cand # None
    /\ k.pc = "callNotify" => /\ told[k.cand] = 0
                              /\ rows[k.cand].status \notin {"absent", "ACTIVE"}

TasksSound == \A w \in Workers : /\ DeskSound(worker[w], row, alerts)
                                 /\ SweepSound(worker[w], row, alerts)

\* Unless a handler has been cut off, a candidate not called yet is about to be.
HandoverSound ==
  ~cut => \A r \in Rows :
            \/ handover[r] = None
            \/ row[handover[r]].called
            \/ row[handover[r]].status = "deleted"
            \/ \E w \in Workers : At(w, "call") /\ worker[w].cand = handover[r]

\* An answer in progress names a reserve and a flight.
PairsNamed == \A w \in Workers : worker[w].pc \in {"accept", "assign", "insert"} =>
                                  worker[w].row \in Rows /\ worker[w].flight \in Flights

Sound == RowsSound /\ TasksSound /\ HandoverSound

IInv == TypeOK /\ PairsNamed /\ Sound
----------------------------------------------------------------------------
(* Types.                                                                  *)

LEMMA IdleTyped == Idle \in LocalState
  BY DEF Idle, LocalState, PCs

LEMMA AbsentTyped ==
  ASSUME NEW status \in Statuses, NEW ended \in BOOLEAN
  PROVE  /\ Absent \in StandbyRow
         /\ [Absent EXCEPT !.status = status, !.ended = ended] \in StandbyRow
         /\ [Absent EXCEPT !.status = status] \in StandbyRow
  BY DEF Absent, StandbyRow, Statuses, Live

LEMMA InitTyped == Init => TypeOK
  <1>1. Absent \in StandbyRow
    BY AbsentTyped DEF Statuses
  <1>2. Init => /\ row \in [Rows -> StandbyRow]
                /\ worker \in [Workers -> LocalState]
    BY <1>1, IdleTyped DEF Init
  <1>3. Init => /\ alerts \in [Rows -> 0..2]
                /\ stamps \in [Rows -> 0..2]
    BY DEF Init
  <1>4. Init => /\ handover \in [Rows -> Rows \cup {None}]
                /\ tasked \subseteq Rows \X Flights
                /\ cut \in BOOLEAN
    BY DEF Init
  <1>5. QED
    BY <1>2, <1>3, <1>4 DEF TypeOK

\* What a handler writes to a row, and what a worker becomes, has its type.
LEMMA UpdateTyped ==
  ASSUME TypeOK, NEW r, NEW new, Update(r, new), r \in Rows => new \in StandbyRow
  PROVE  row' \in [Rows -> StandbyRow]
  BY DEF TypeOK, Update

LEMMA BecomeTyped ==
  ASSUME TypeOK, NEW w \in Workers, NEW s \in LocalState, Become(w, s)
  PROVE  worker' \in [Workers -> LocalState]
  BY DEF TypeOK, Become

LEMMA CalledForTyped ==
  ASSUME NEW s \in StandbyRow, NEW f \in Flights \cup {None}
  PROVE  CalledFor(s, f) \in StandbyRow
  BY DEF CalledFor, StandbyRow, Statuses, Live

\* A worker's step changes that worker only.
LEMMA BecomeIs ==
  ASSUME TypeOK, NEW w \in Workers, NEW s, Become(w, s)
  PROVE  /\ worker'[w] = s
         /\ \A v \in Workers : v # w => worker'[v] = worker[v]
  BY DEF TypeOK, Become

LEMMA FinishIs ==
  ASSUME TypeOK, NEW w \in Workers, Finish(w)
  PROVE  /\ worker'[w].pc = "idle"
         /\ \A v \in Workers : v # w => worker'[v] = worker[v]
  BY BecomeIs DEF Finish, Idle

LEMMA GotoIs ==
  ASSUME TypeOK, NEW w \in Workers, NEW pc, Goto(w, pc)
  PROVE  /\ worker'[w] = [worker[w] EXCEPT !.pc = pc]
         /\ worker'[w].pc = pc
         /\ worker'[w].row = worker[w].row /\ worker'[w].flight = worker[w].flight
         /\ worker'[w].first = worker[w].first /\ worker'[w].cand = worker[w].cand
         /\ worker'[w].todo = worker[w].todo /\ worker'[w].seen = worker[w].seen
         /\ \A v \in Workers : v # w => worker'[v] = worker[v]
  <1>1. worker[w] \in LocalState
    BY DEF TypeOK
  <1>2. /\ worker'[w] = [worker[w] EXCEPT !.pc = pc]
        /\ \A v \in Workers : v # w => worker'[v] = worker[v]
    BY BecomeIs DEF Goto
  <1>3. QED
    BY <1>1, <1>2 DEF LocalState

LEMMA Next1Is ==
  ASSUME TypeOK, NEW w \in Workers, NEW pc, NEW r, Next1(w, pc, r)
  PROVE  /\ worker'[w].pc \in {"idle", pc}
         /\ worker'[w].todo = worker[w].todo \ {r}
         /\ worker'[w].pc # pc => worker'[w].todo = {}
         /\ worker'[w].first = FALSE
         /\ \A v \in Workers : v # w => worker'[v] = worker[v]
  <1> DEFINE rest == worker[w].todo \ {r}
             s == [Idle EXCEPT !.pc = pc, !.todo = rest, !.seen = worker[w].seen]
  <1>1. CASE rest = {}
    BY <1>1, BecomeIs DEF Next1, Idle
  <1>2. CASE rest # {}
    <2>1. Become(w, s)
      BY <1>2 DEF Next1
    <2>2. s.pc = pc /\ s.todo = rest /\ s.first = FALSE
      BY DEF Idle
    <2>3. worker'[w] = s /\ \A v \in Workers : v # w => worker'[v] = worker[v]
      BY <2>1, BecomeIs
    <2> HIDE DEF s
    <2>4. QED
      BY <2>2, <2>3
  <1>3. QED
    BY <1>1, <1>2

LEMMA FinishTyped ==
  ASSUME TypeOK, NEW w \in Workers, Finish(w)
  PROVE  worker' \in [Workers -> LocalState]
  BY IdleTyped, BecomeTyped DEF Finish

LEMMA GotoTyped ==
  ASSUME TypeOK, NEW w \in Workers, NEW pc \in PCs, Goto(w, pc)
  PROVE  worker' \in [Workers -> LocalState]
  <1>1. [worker[w] EXCEPT !.pc = pc] \in LocalState
    BY DEF TypeOK, LocalState
  <1>2. QED
    BY <1>1, BecomeTyped DEF Goto

LEMMA Next1Typed ==
  ASSUME TypeOK, NEW w \in Workers, NEW pc \in PCs, NEW r, Next1(w, pc, r)
  PROVE  worker' \in [Workers -> LocalState]
  <1>1. [Idle EXCEPT !.pc = pc, !.todo = worker[w].todo \ {r}, !.seen = worker[w].seen]
          \in LocalState
    BY DEF TypeOK, LocalState, Idle, PCs
  <1>2. QED
    BY <1>1, IdleTyped, BecomeTyped DEF Next1

LEMMA OneMoreTyped ==
  ASSUME NEW count \in [Rows -> 0..2], NEW r
  PROVE  OneMore(count, r) \in [Rows -> 0..2]
  <1>1. \A x \in Rows : (IF count[x] = 2 THEN 2 ELSE count[x] + 1) \in 0..2
    OBVIOUS
  <1>2. QED
    BY <1>1 DEF OneMore

LEMMA RequestTyped ==
  ASSUME TypeOK, NEW w \in Workers, Request(w)
  PROVE  TypeOK'
  <1> USE DEF TypeOK
  <1>1. ASSUME NEW r \in Rows, NEW ended \in BOOLEAN, CreateStandby(w, r, ended)
        PROVE  TypeOK'
    <2>1. [Absent EXCEPT !.status = "ACTIVE", !.ended = ended] \in StandbyRow
      BY AbsentTyped DEF Statuses, Live
    <2>2. QED
      BY <1>1, <2>1 DEF CreateStandby, history
  <1>2. ASSUME NEW r \in Rows, NEW f \in Flights \cup {None}, CalloutRead(w, r, f)
        PROVE  TypeOK'
    <2> DEFINE s == [Idle EXCEPT !.pc = "callout", !.row = r, !.flight = f,
                                 !.first = ~row[r].called /\ row[r].status = "ACTIVE"]
    <2>1. s \in LocalState
      BY DEF Idle, LocalState, PCs, StandbyRow
    <2>2. QED
      BY <1>2, <2>1, BecomeTyped DEF CalloutRead, history
  <1>3. ASSUME NEW r \in Rows, CancelStandby(w, r) \/ DeleteStandby(w, r)
        PROVE  TypeOK'
    <2>1. [Absent EXCEPT !.status = "deleted"] \in StandbyRow
      BY AbsentTyped DEF Statuses
    <2>2. [row[r] EXCEPT !.status = "CANCELLED"] \in StandbyRow
      BY DEF StandbyRow, Statuses, Live
    <2>3. CASE CancelStandby(w, r)
      BY <2>2, <2>3 DEF CancelStandby, history
    <2>4. CASE DeleteStandby(w, r)
      BY <2>1, <2>4 DEF DeleteStandby, history
    <2>5. QED
      BY <1>3, <2>3, <2>4
  <1>4. ASSUME NEW r \in Rows, RejectRead(w, r)
        PROVE  TypeOK'
    <2> DEFINE s == [Idle EXCEPT !.pc = "reject", !.row = r]
    <2>1. s \in LocalState
      BY DEF Idle, LocalState, PCs
    <2>2. QED
      BY <1>4, <2>1, BecomeTyped DEF RejectRead, history
  <1>5. ASSUME NEW r \in Rows, AcceptRead(w, r)
        PROVE  TypeOK'
    <2> DEFINE s == [Idle EXCEPT !.pc = "accept", !.row = r, !.flight = row[r].flight,
                                 !.first = row[r].resp # "ACCEPTED"]
    <2>1. s \in LocalState
      BY DEF Idle, LocalState, PCs, StandbyRow
    <2>2. QED
      BY <1>5, <2>1, BecomeTyped DEF AcceptRead, history
  <1>6. ASSUME ExpireRead(w)
        PROVE  TypeOK'
    <2> DEFINE s == [Idle EXCEPT !.pc = "expire",
                        !.todo = {r \in Rows : row[r].status = "ACTIVE" /\ row[r].ended}]
    <2>1. s \in LocalState
      BY DEF Idle, LocalState, PCs
    <2>2. QED
      BY <1>6, <2>1, BecomeTyped DEF ExpireRead, history
  <1>7. ASSUME EscalateRead(w)
        PROVE  TypeOK'
    <2> DEFINE s == [Idle EXCEPT !.pc = "escalate",
                                 !.todo = {r \in Rows : NeedsEscalation(r)},
                                 !.seen = [r \in Rows |-> row[r].flight]]
    <2>1. s \in LocalState
      BY DEF Idle, LocalState, PCs, StandbyRow
    <2>2. QED
      BY <1>7, <2>1, BecomeTyped DEF EscalateRead, history
  <1>8. QED
    BY <1>1, <1>2, <1>3, <1>4, <1>5, <1>6, <1>7 DEF Request

LEMMA ContinueTyped ==
  ASSUME TypeOK, PairsNamed, NEW w \in Workers, Continue(w)
  PROVE  TypeOK'
  <1> USE DEF TypeOK, history
  <1>w. worker[w] \in LocalState
    OBVIOUS
  <1>1. ASSUME CalloutWrite(w)
        PROVE  TypeOK'
    <2>1. worker[w].row \in Rows =>
            CalledFor(row[worker[w].row], worker[w].flight) \in StandbyRow
      BY <1>w, CalledForTyped DEF LocalState
    <2>2. QED
      BY <1>1, <2>1, UpdateTyped, GotoTyped DEF CalloutWrite, PCs
  <1>2. ASSUME CalloutNotify(w)
        PROVE  TypeOK'
    BY <1>2, FinishTyped, OneMoreTyped DEF CalloutNotify
  <1>3. ASSUME RejectWrite(w)
        PROVE  TypeOK'
    <2>1. worker[w].row \in Rows =>
            [row[worker[w].row] EXCEPT !.resp = "REJECTED"] \in StandbyRow
      BY DEF StandbyRow
    <2>2. QED
      BY <1>3, <2>1, UpdateTyped, FinishTyped DEF RejectWrite
  <1>4. ASSUME AcceptRecord(w)
        PROVE  TypeOK'
    <2>1. worker[w].row \in Rows =>
            [row[worker[w].row] EXCEPT !.resp = "ACCEPTED"] \in StandbyRow
      BY DEF StandbyRow
    <2>2. QED
      BY <1>4, <2>1, UpdateTyped, GotoTyped DEF AcceptRecord, PCs
  <1>5. ASSUME AssignCheck(w)
        PROVE  TypeOK'
    BY <1>5, GotoTyped DEF AssignCheck, PCs
  <1>6. ASSUME AssignInsert(w)
        PROVE  TypeOK'
    <2>1. Pair(w) \in Rows \X Flights
      BY <1>6 DEF AssignInsert, At, Pair, PairsNamed
    <2>2. QED
      BY <1>6, <2>1, GotoTyped DEF AssignInsert, PCs
  <1>7. ASSUME AcceptFail(w)
        PROVE  TypeOK'
    BY <1>7, FinishTyped DEF AcceptFail
  <1>8. ASSUME AcceptLink(w)
        PROVE  TypeOK'
    <2> DEFINE link == IF Pair(w) \in tasked THEN worker[w].flight ELSE None
    <2>1. link \in Flights \cup {None}
      BY <1>w DEF LocalState
    <2> HIDE DEF link
    <2>2. ASSUME NEW old \in StandbyRow
          PROVE  [old EXCEPT !.status = "ASSIGNED", !.link = link] \in StandbyRow
      BY <2>1 DEF StandbyRow, Statuses, Live
    <2>3. QED
      BY <1>8, <2>2, UpdateTyped, FinishTyped DEF AcceptLink, link
  <1>9. ASSUME NEW r \in Rows, ExpireWrite(w, r)
        PROVE  TypeOK'
    <2>1. [row[r] EXCEPT !.status = "EXPIRED"] \in StandbyRow
      BY DEF StandbyRow, Statuses, Live
    <2>2. QED
      BY <1>9, <2>1, UpdateTyped, Next1Typed DEF ExpireWrite, PCs
  <1>10. ASSUME NEW r \in Rows, NEW c \in Rows \cup {None}, EscalatePick(w, r, c)
         PROVE  TypeOK'
    <2> DEFINE s == [worker[w] EXCEPT !.pc = "stamp", !.row = r, !.cand = c,
                                      !.flight = worker[w].seen[r]]
    <2>1. s \in LocalState
      BY <1>w DEF LocalState, PCs
    <2>2. QED
      BY <1>10, <2>1, BecomeTyped DEF EscalatePick
  <1>11. ASSUME EscalateStamp(w)
         PROVE  TypeOK'
    <2>1. worker[w].row \in Rows =>
            [row[worker[w].row] EXCEPT
               !.escalated = IF worker[w].cand = None THEN "EXHAUSTED" ELSE "ESCALATED"]
            \in StandbyRow
      BY DEF StandbyRow
    <2>2. row' \in [Rows -> StandbyRow]
      BY <1>11, <2>1, UpdateTyped DEF EscalateStamp
    <2>3. worker' \in [Workers -> LocalState]
      BY <1>11, GotoTyped, Next1Typed DEF EscalateStamp, Stamped, PCs
    <2>4. stamps' \in [Rows -> 0..2]
      BY <1>11, OneMoreTyped DEF EscalateStamp, Stamped
    <2>5. handover' \in [Rows -> Rows \cup {None}]
      BY <1>11, <1>w DEF EscalateStamp, Stamped, LocalState
    <2>6. QED
      BY <1>11, <2>2, <2>3, <2>4, <2>5 DEF EscalateStamp, Stamped
  <1>12. ASSUME EscalateCall(w)
         PROVE  TypeOK'
    <2>1. worker[w].cand \in Rows =>
            CalledFor(row[worker[w].cand], worker[w].flight) \in StandbyRow
      BY <1>w, CalledForTyped DEF LocalState
    <2>2. QED
      BY <1>12, <2>1, UpdateTyped, GotoTyped DEF EscalateCall, PCs
  <1>13. ASSUME EscalateNotify(w)
         PROVE  TypeOK'
    BY <1>13, Next1Typed, OneMoreTyped DEF EscalateNotify, PCs
  <1>14. QED
    BY <1>1, <1>2, <1>3, <1>4, <1>5, <1>6, <1>7, <1>8, <1>9, <1>10, <1>11, <1>12, <1>13
       DEF Continue

LEMMA WorldTyped ==
  ASSUME TypeOK, World \/ \E w \in Workers : Crash(w)
  PROVE  TypeOK'
  <1> USE DEF TypeOK, history
  <1>1. ASSUME NEW r \in Rows, NEW f \in Flights,
               AssignDirectly(r, f) \/ RemoveAssignment(r, f)
        PROVE  TypeOK'
    BY <1>1 DEF AssignDirectly, RemoveAssignment
  <1>2. ASSUME NEW r \in Rows, ResponseDeadlinePasses(r) \/ WindowEnds(r)
        PROVE  TypeOK'
    <2>1. /\ [row[r] EXCEPT !.late = TRUE] \in StandbyRow
          /\ [row[r] EXCEPT !.ended = TRUE] \in StandbyRow
      BY DEF StandbyRow
    <2>2. QED
      BY <1>2, <2>1 DEF ResponseDeadlinePasses, WindowEnds
  <1>3. ASSUME NEW w \in Workers, Crash(w)
        PROVE  TypeOK'
    BY <1>3, FinishTyped DEF Crash
  <1>4. QED
    BY <1>1, <1>2, <1>3 DEF World

LEMMA PairsNamedStep ==
  ASSUME TypeOK, PairsNamed, [Next]_vars
  PROVE  PairsNamed'
  <1> DEFINE Naming == {"accept", "assign", "insert"}
  <1> USE DEF PairsNamed
  <1>1. ASSUME NEW w \in Workers,
               \A v \in Workers : v # w => worker'[v] = worker[v],
               worker'[w].pc \notin Naming
        PROVE  PairsNamed'
    BY <1>1
  <1>2. ASSUME NEW w \in Workers, Request(w)
        PROVE  PairsNamed'
    <2>1. ASSUME NEW r \in Rows, AcceptRead(w, r)
          PROVE  PairsNamed'
      <3>1. row[r].flight \in Flights
        BY <2>1 DEF AcceptRead, TypeOK, StandbyRow
      <3> DEFINE s == [Idle EXCEPT !.pc = "accept", !.row = r, !.flight = row[r].flight,
                                   !.first = row[r].resp # "ACCEPTED"]
      <3>2. s.row = r /\ s.flight = row[r].flight
        BY DEF Idle
      <3>3. worker'[w] = s /\ \A v \in Workers : v # w => worker'[v] = worker[v]
        BY <2>1, BecomeIs DEF AcceptRead
      <3> HIDE DEF s
      <3>4. QED
        BY <3>1, <3>2, <3>3
    <2>2. ASSUME NEW s, Become(w, s), s.pc \notin Naming
          PROVE  PairsNamed'
      BY <1>1, <2>2, BecomeIs
    <2>3. CASE \E r \in Rows, f \in Flights \cup {None} : CalloutRead(w, r, f)
      BY <2>2, <2>3 DEF CalloutRead, Idle
    <2>4. CASE \E r \in Rows : RejectRead(w, r)
      BY <2>2, <2>4 DEF RejectRead, Idle
    <2>5. CASE ExpireRead(w) \/ EscalateRead(w)
      BY <2>2, <2>5 DEF ExpireRead, EscalateRead, Idle
    <2>6. CASE UNCHANGED worker
      BY <2>6
    <2>7. QED
      BY <1>2, <2>1, <2>3, <2>4, <2>5, <2>6
         DEF Request, CreateStandby, CancelStandby, DeleteStandby
  <1>3. ASSUME NEW w \in Workers, Continue(w)
        PROVE  PairsNamed'
    <2>1. ASSUME NEW pc, Goto(w, pc), pc \in Naming => worker[w].pc \in Naming
          PROVE  PairsNamed'
      <3>1. /\ worker'[w].pc = pc
            /\ worker'[w].row = worker[w].row /\ worker'[w].flight = worker[w].flight
            /\ \A v \in Workers : v # w => worker'[v] = worker[v]
        BY <2>1, GotoIs
      <3>2. QED
        BY <2>1, <3>1
    <2>2. CASE Finish(w)
      BY <1>1, <2>2, FinishIs
    <2>3. ASSUME NEW pc \in {"expire", "escalate"}, NEW r, Next1(w, pc, r)
          PROVE  PairsNamed'
      BY <1>1, <2>3, Next1Is
    <2>4. ASSUME NEW r \in Rows, NEW c \in Rows \cup {None}, EscalatePick(w, r, c)
          PROVE  PairsNamed'
      <3>1. worker[w] \in LocalState
        BY DEF TypeOK
      <3> DEFINE s == [worker[w] EXCEPT !.pc = "stamp", !.row = r, !.cand = c,
                                        !.flight = worker[w].seen[r]]
      <3>2. s.pc = "stamp"
        BY <3>1 DEF LocalState
      <3>3. worker'[w] = s /\ \A v \in Workers : v # w => worker'[v] = worker[v]
        BY <2>4, BecomeIs DEF EscalatePick
      <3> HIDE DEF s
      <3>4. QED
        BY <1>1, <3>2, <3>3
    <2>5. CASE CalloutWrite(w) \/ AcceptRecord(w) \/ AssignCheck(w) \/ AssignInsert(w)
      BY <2>1, <2>5
         DEF CalloutWrite, AcceptRecord, AssignCheck, AssignInsert, At
    <2>6. CASE EscalateStamp(w) \/ EscalateCall(w)
      BY <2>1, <2>3, <2>6 DEF EscalateStamp, Stamped, EscalateCall, At
    <2>7. CASE \/ CalloutNotify(w) \/ RejectWrite(w) \/ AcceptFail(w) \/ AcceptLink(w)
               \/ EscalateNotify(w) \/ \E r \in Rows : ExpireWrite(w, r)
      BY <2>2, <2>3, <2>7
         DEF CalloutNotify, RejectWrite, AcceptFail, AcceptLink, EscalateNotify, ExpireWrite
    <2>8. QED
      BY <1>3, <2>4, <2>5, <2>6, <2>7 DEF Continue
  <1>4. ASSUME NEW w \in Workers, Crash(w)
        PROVE  PairsNamed'
    BY <1>1, <1>4, FinishIs DEF Crash
  <1>5. CASE World \/ UNCHANGED vars
    <2>1. UNCHANGED worker
      BY <1>5 DEF World, vars, AssignDirectly, RemoveAssignment, ResponseDeadlinePasses,
                  WindowEnds
    <2>2. QED
      BY <2>1
  <1>6. QED
    BY <1>2, <1>3, <1>4, <1>5 DEF Next

LEMMA TypedStep ==
  ASSUME TypeOK, PairsNamed, [Next]_vars
  PROVE  TypeOK' /\ PairsNamed'
  <1>1. CASE UNCHANGED vars
    BY <1>1 DEF TypeOK, PairsNamed, vars, history
  <1>2. CASE Next
    BY <1>2, RequestTyped, ContinueTyped, WorldTyped, PairsNamedStep DEF Next
  <1>3. QED
    BY <1>1, <1>2

\* The type invariant of the standby desk, for any number of workers.
THEOREM StandbyTyped == Spec => [](TypeOK /\ PairsNamed)
  <1>1. Init => TypeOK /\ PairsNamed
    BY InitTyped DEF Init, PairsNamed, Idle
  <1>2. TypeOK /\ PairsNamed /\ [Next]_vars => (TypeOK /\ PairsNamed)'
    BY TypedStep
  <1>3. QED
    BY <1>1, <1>2, PTL DEF Spec

----------------------------------------------------------------------------
(* One process: the invariant is inductive.                                *)

LEMMA UpdateIs ==
  ASSUME TypeOK, NEW r \in Rows, NEW new, Update(r, new)
  PROVE  /\ \A x \in Rows : x # r => row'[x] = row[x]
         /\ row[r].status \in Live => row'[r] = new
         /\ row[r].status \notin Live => row'[r] = row[r]
  BY DEF TypeOK, Update

LEMMA WorkerTyped ==
  ASSUME TypeOK, NEW w \in Workers
  PROVE  /\ worker[w] \in LocalState
         /\ worker[w].pc \in PCs /\ worker[w].row \in Rows \cup {None}
         /\ worker[w].cand \in Rows \cup {None} /\ worker[w].todo \subseteq Rows
         /\ worker[w].first \in BOOLEAN
  BY DEF TypeOK, LocalState

\* With one process, what holds of one worker holds of all of them.
LEMMA OneIsAll ==
  ASSUME OneProcess, NEW w \in Workers, RowsSound', HandoverSound',
         DeskSound(worker[w], row, alerts)', SweepSound(worker[w], row, alerts)'
  PROVE  Sound'
  BY DEF OneProcess, Sound, TasksSound

LEMMA OneRowChanges ==
  ASSUME RowsSound, NEW r \in Rows,
         \A x \in Rows : x # r => /\ row'[x] = row[x]
                                  /\ alerts'[x] = alerts[x] /\ stamps'[x] = stamps[x],
         RowSound(row[r], alerts[r], stamps[r]) => RowSound(row[r], alerts[r], stamps[r])'
  PROVE  RowsSound'
  BY DEF RowsSound

\* A step that neither stamps nor calls out keeps every handover.
LEMMA HandoverKept ==
  ASSUME TypeOK, HandoverSound, handover' = handover, cut' = cut,
         \A x \in Rows : row[x].called => row'[x].called \/ row'[x].status = "deleted",
         \A x \in Rows : row[x].status = "deleted" => row'[x].status = "deleted",
         \A v \in Workers : At(v, "call") => worker'[v] = worker[v]
  PROVE  HandoverSound'
  <1> SUFFICES ASSUME ~cut, NEW r \in Rows, handover[r] # None
               PROVE  \/ row'[handover[r]].called
                      \/ row'[handover[r]].status = "deleted"
                      \/ \E v \in Workers : At(v, "call")' /\ worker'[v].cand = handover[r]
    BY DEF HandoverSound
  <1>1. handover[r] \in Rows
    BY DEF TypeOK
  <1>2. QED
    BY <1>1 DEF HandoverSound, At

\* A request only reads the table, or writes it at once.
LEMMA RequestSound ==
  ASSUME IInv, OneProcess, NEW w \in Workers, Request(w)
  PROVE  Sound'
  <1> USE DEF IInv, Sound, history
  <1>i. At(w, "idle")
    BY DEF Request, CreateStandby, CalloutRead, CancelStandby, DeleteStandby, RejectRead,
           AcceptRead, ExpireRead, EscalateRead
  <1>n. \A v \in Workers : ~At(v, "call")
    BY <1>i DEF OneProcess, At
  <1>1. ASSUME UNCHANGED <<row, tasked, history>>,
               NEW s, worker'[w] = s, DeskSound(s, row, alerts), SweepSound(s, row, alerts)
        PROVE  Sound'
    <2>1. HandoverSound'
      BY <1>1, <1>n, HandoverKept
    <2>2. RowsSound'
      BY <1>1 DEF RowsSound
    <2>3. QED
      BY <1>1, <2>1, <2>2, OneIsAll
  <1>2. ASSUME NEW r \in Rows, NEW ended \in BOOLEAN, CreateStandby(w, r, ended)
        PROVE  Sound'
    <2> DEFINE s == [Absent EXCEPT !.status = "ACTIVE", !.ended = ended]
    <2>1. /\ s.status = "ACTIVE" /\ ~s.called /\ s.resp = "none" /\ s.link = None
          /\ s.escalated = "no"
      BY DEF Absent
    <2>2. row'[r] = s /\ \A x \in Rows : x # r => row'[x] = row[x]
      BY <1>2 DEF CreateStandby, TypeOK
    <2>3. row[r].status = "absent"
      BY <1>2 DEF CreateStandby
    <2> HIDE DEF s
    <2>4. RowsSound'
      <3>1. RowSound(row[r], alerts[r], stamps[r]) =>
              RowSound(row[r], alerts[r], stamps[r])'
        BY <1>2, <2>1, <2>2, <2>3 DEF RowSound, CreateStandby
      <3>2. QED
        BY <1>2, <2>2, <3>1, OneRowChanges DEF CreateStandby
    <2>5. HandoverSound'
      BY <1>2, <1>n, <2>2, <2>3, HandoverKept DEF RowsSound, RowSound, CreateStandby
    <2>6. DeskSound(worker[w], row, alerts)' /\ SweepSound(worker[w], row, alerts)'
      BY <1>2, <1>i DEF CreateStandby, At, DeskSound, SweepSound, SweepPCs
    <2>7. QED
      BY <2>4, <2>5, <2>6, OneIsAll
  <1>3. ASSUME NEW r \in Rows, CancelStandby(w, r) \/ DeleteStandby(w, r)
        PROVE  Sound'
    <2>1. /\ \A x \in Rows : x # r => row'[x] = row[x]
          /\ \/ row'[r] = [row[r] EXCEPT !.status = "CANCELLED"]
             \/ row'[r] = [Absent EXCEPT !.status = "deleted"]
          /\ UNCHANGED <<worker, history>>
      BY <1>3 DEF CancelStandby, DeleteStandby, TypeOK
    <2>2. row[r] \in StandbyRow
      BY DEF TypeOK
    <2>3. row[r].status \in Live
      BY <1>3 DEF CancelStandby, DeleteStandby, Exists
    <2>4. \/ /\ row'[r].status = "CANCELLED" /\ row'[r].called = row[r].called
             /\ row'[r].resp = row[r].resp /\ row'[r].link = row[r].link
             /\ row'[r].escalated = row[r].escalated
          \/ row'[r].status = "deleted" /\ row'[r].link = None
      BY <2>1, <2>2 DEF StandbyRow, Absent
    <2>5. RowsSound'
      BY <2>1, <2>3, <2>4 DEF RowsSound, RowSound, Live
    <2>6. HandoverSound'
      BY <2>1, <2>3, <2>4, <1>n, HandoverKept DEF Live
    <2>7. DeskSound(worker[w], row, alerts)' /\ SweepSound(worker[w], row, alerts)'
      BY <2>1, <1>i DEF At, DeskSound, SweepSound, SweepPCs
    <2>8. QED
      BY <2>5, <2>6, <2>7, OneIsAll
  <1>4. ASSUME NEW r \in Rows, NEW f \in Flights \cup {None}, CalloutRead(w, r, f)
        PROVE  Sound'
    <2> DEFINE s == [Idle EXCEPT !.pc = "callout", !.row = r, !.flight = f,
                                 !.first = ~row[r].called /\ row[r].status = "ACTIVE"]
    <2>1. /\ s.pc = "callout" /\ s.row = r
          /\ s.first => row[r].status = "ACTIVE"
      BY DEF Idle
    <2>2. worker'[w] = s /\ UNCHANGED <<row, tasked, history>>
      BY <1>4, BecomeIs DEF CalloutRead
    <2> HIDE DEF s
    <2>3. DeskSound(s, row, alerts) /\ SweepSound(s, row, alerts)
      BY <1>4, <2>1 DEF CalloutRead, Exists, DeskSound, SweepSound, SweepPCs
    <2>4. QED
      BY <1>1, <2>2, <2>3
  <1>5. ASSUME NEW r \in Rows, RejectRead(w, r)
        PROVE  Sound'
    <2> DEFINE s == [Idle EXCEPT !.pc = "reject", !.row = r]
    <2>1. s.pc = "reject" /\ s.row = r
      BY DEF Idle
    <2>2. worker'[w] = s /\ UNCHANGED <<row, tasked, history>>
      BY <1>5, BecomeIs DEF RejectRead
    <2> HIDE DEF s
    <2>3. DeskSound(s, row, alerts) /\ SweepSound(s, row, alerts)
      BY <1>5, <2>1 DEF RejectRead, CalledOut, DeskSound, SweepSound, SweepPCs, Live
    <2>4. QED
      BY <1>1, <2>2, <2>3
  <1>6. ASSUME NEW r \in Rows, AcceptRead(w, r)
        PROVE  Sound'
    <2> DEFINE s == [Idle EXCEPT !.pc = "accept", !.row = r, !.flight = row[r].flight,
                                 !.first = row[r].resp # "ACCEPTED"]
    <2>1. s.pc = "accept" /\ s.row = r /\ s.first = (row[r].resp # "ACCEPTED")
      BY DEF Idle
    <2>2. worker'[w] = s /\ UNCHANGED <<row, tasked, history>>
      BY <1>6, BecomeIs DEF AcceptRead
    <2> HIDE DEF s
    <2>3. DeskSound(s, row, alerts) /\ SweepSound(s, row, alerts)
      BY <1>6, <2>1 DEF AcceptRead, CalledOut, DeskSound, SweepSound, SweepPCs, Live
    <2>4. QED
      BY <1>1, <2>2, <2>3
  <1>7. ASSUME ExpireRead(w)
        PROVE  Sound'
    <2> DEFINE s == [Idle EXCEPT !.pc = "expire",
                        !.todo = {r \in Rows : row[r].status = "ACTIVE" /\ row[r].ended}]
    <2>1. s.pc = "expire" /\ \A r \in s.todo : row[r].status = "ACTIVE"
      BY DEF Idle
    <2>2. worker'[w] = s /\ UNCHANGED <<row, tasked, history>>
      BY <1>7, BecomeIs DEF ExpireRead
    <2> HIDE DEF s
    <2>3. DeskSound(s, row, alerts) /\ SweepSound(s, row, alerts)
      BY <2>1 DEF DeskSound, SweepSound, SweepPCs
    <2>4. QED
      BY <1>1, <2>2, <2>3
  <1>8. ASSUME EscalateRead(w)
        PROVE  Sound'
    <2> DEFINE s == [Idle EXCEPT !.pc = "escalate",
                                 !.todo = {r \in Rows : NeedsEscalation(r)},
                                 !.seen = [r \in Rows |-> row[r].flight]]
    <2>1. s.pc = "escalate" /\ s.todo = {r \in Rows : NeedsEscalation(r)}
      BY DEF Idle
    <2>2. worker'[w] = s /\ UNCHANGED <<row, tasked, history>>
      BY <1>8, BecomeIs DEF EscalateRead
    <2> HIDE DEF s
    <2>3. \A r \in Rows : NeedsEscalation(r) => Open(row[r])
      BY DEF NeedsEscalation, CalledOut, Open
    <2>4. \A r \in Rows : Refused(row[r]) => NeedsEscalation(r)
      BY DEF NeedsEscalation, CalledOut, Refused, RowsSound, RowSound
    <2>5. DeskSound(s, row, alerts)
      BY <2>1 DEF DeskSound
    <2>6. Unstamped(s) = s.todo
      BY <2>1 DEF Unstamped
    <2>7. SweepSound(s, row, alerts)
      BY <2>1, <2>3, <2>4, <2>6 DEF SweepSound
    <2>8. QED
      BY <1>1, <2>2, <2>5, <2>7
  <1>9. QED
    BY <1>2, <1>3, <1>4, <1>5, <1>6, <1>7, <1>8 DEF Request

\* A desk handler's call: the call-out, its notice, and the reserve's answer.
LEMMA DeskStepSound ==
  ASSUME IInv, OneProcess, NEW w \in Workers,
         \/ CalloutWrite(w) \/ CalloutNotify(w) \/ RejectWrite(w) \/ AcceptRecord(w)
         \/ AssignCheck(w) \/ AssignInsert(w) \/ AcceptFail(w) \/ AcceptLink(w)
         \/ \E r \in Rows : ExpireWrite(w, r)
  PROVE  Sound'
  <1> USE DEF IInv, Sound, history
  <1> DEFINE k == worker[w]
  <1>k. /\ k.row \in Rows \cup {None} /\ k.cand \in Rows \cup {None}
        /\ k.todo \subseteq Rows /\ k.first \in BOOLEAN
    BY WorkerTyped
  <1>d. DeskSound(k, row, alerts)
    BY DEF TasksSound
  <1>n. \A v \in Workers : ~At(v, "call")
    BY DEF OneProcess, At, CalloutWrite, CalloutNotify, RejectWrite, AcceptRecord, AssignCheck,
           AssignInsert, AcceptFail, AcceptLink, ExpireWrite
  <1>r. ASSUME NEW x \in Rows
        PROVE  row[x] \in StandbyRow
    BY DEF TypeOK
  <1>1. CASE CalloutWrite(w)
    <2>1. k.pc = "callout" /\ k.row \in Rows /\ row[k.row].status \in Live
      BY <1>1, <1>d DEF CalloutWrite, At, DeskSound
    <2> DEFINE s == CalledFor(row[k.row], k.flight)
    <2>2. /\ s.called /\ s.status \in {"CALLED_OUT", "ASSIGNED"}
          /\ s.resp = row[k.row].resp /\ s.link = row[k.row].link
          /\ s.escalated = row[k.row].escalated
      BY <1>r, <2>1 DEF CalledFor, StandbyRow
    <2> HIDE DEF s
    <2>3. /\ row'[k.row] = s
          /\ \A x \in Rows : x # k.row => row'[x] = row[x]
      BY <1>1, <2>1, UpdateIs DEF CalloutWrite, s
    <2>4. /\ worker'[w].pc = "calloutNotify" /\ worker'[w].row = k.row
          /\ worker'[w].first = k.first
      BY <1>1, GotoIs DEF CalloutWrite
    <2>5. k.first => alerts[k.row] = 0
      BY <1>d, <2>1 DEF DeskSound, RowsSound, RowSound
    <2>6. RowsSound'
      BY <1>1, <2>1, <2>2, <2>3 DEF CalloutWrite, RowsSound, RowSound, Live
    <2>7. HandoverSound'
      BY <1>1, <1>n, <2>1, <2>2, <2>3, HandoverKept DEF CalloutWrite, Live
    <2>8. DeskSound(worker[w], row, alerts)' /\ SweepSound(worker[w], row, alerts)'
      BY <1>1, <2>1, <2>2, <2>3, <2>4, <2>5
         DEF CalloutWrite, DeskSound, SweepSound, SweepPCs, Live
    <2>9. QED
      BY <2>6, <2>7, <2>8, OneIsAll
  <1>f. ASSUME UNCHANGED <<row, alerts, stamps, handover, cut>>,
               DeskSound(worker[w], row, alerts)', SweepSound(worker[w], row, alerts)'
        PROVE  Sound'
    <2>1. HandoverSound'
      BY <1>f, <1>n, HandoverKept
    <2>2. RowsSound'
      BY <1>f DEF RowsSound
    <2>3. QED
      BY <1>f, <2>1, <2>2, OneIsAll
  <1>2. CASE CalloutNotify(w)
    <2>1. k.pc = "calloutNotify" /\ k.row \in Rows /\ (k.first => alerts[k.row] = 0)
      BY <1>2, <1>d DEF CalloutNotify, At, DeskSound
    <2>2. /\ k.first => alerts'[k.row] = 1
          /\ k.first => row[k.row].status \notin {"absent", "ACTIVE"}
          /\ ~k.first => alerts'[k.row] = alerts[k.row]
          /\ \A x \in Rows : x # k.row => alerts'[x] = alerts[x]
      BY <1>2, <1>d, <2>1 DEF CalloutNotify, DeskSound, TypeOK, OneMore, Live
    <2>3. RowsSound'
      BY <1>2, <2>1, <2>2 DEF CalloutNotify, RowsSound, RowSound
    <2>4. HandoverSound'
      BY <1>2, <1>n, HandoverKept DEF CalloutNotify
    <2>5. worker'[w].pc = "idle"
      BY <1>2, FinishIs DEF CalloutNotify
    <2>6. QED
      BY <2>3, <2>4, <2>5, OneIsAll DEF DeskSound, SweepSound, SweepPCs

  <1>3. CASE RejectWrite(w)
    <2>1. /\ k.pc = "reject" /\ k.row \in Rows /\ row[k.row].status \in Live
          /\ row[k.row].status # "ACTIVE" /\ row[k.row].resp = "none"
      BY <1>3, <1>d DEF RejectWrite, At, DeskSound
    <2>2. /\ row'[k.row] = [row[k.row] EXCEPT !.resp = "REJECTED"]
          /\ \A x \in Rows : x # k.row => row'[x] = row[x]
      BY <1>3, <2>1, UpdateIs DEF RejectWrite
    <2>3. /\ row'[k.row].status = row[k.row].status /\ row'[k.row].called = row[k.row].called
          /\ row'[k.row].link = row[k.row].link
          /\ row'[k.row].escalated = row[k.row].escalated
      BY <1>r, <2>1, <2>2 DEF StandbyRow
    <2>4. RowsSound'
      BY <1>3, <2>1, <2>2, <2>3 DEF RejectWrite, RowsSound, RowSound, Live
    <2>5. HandoverSound'
      BY <1>3, <1>n, <2>1, <2>2, <2>3, HandoverKept DEF RejectWrite, Live
    <2>6. worker'[w].pc = "idle"
      BY <1>3, FinishIs DEF RejectWrite
    <2>7. QED
      BY <2>4, <2>5, <2>6, OneIsAll DEF DeskSound, SweepSound, SweepPCs
  <1>4. CASE AcceptRecord(w)
    <2>1. /\ k.pc = "accept" /\ k.row \in Rows /\ row[k.row].status \in Live
          /\ row[k.row].status # "ACTIVE" /\ (~k.first => row[k.row].resp = "ACCEPTED")
      BY <1>4, <1>d DEF AcceptRecord, At, DeskSound
    <2>2. /\ \/ row'[k.row] = [row[k.row] EXCEPT !.resp = "ACCEPTED"]
             \/ row'[k.row] = row[k.row] /\ row[k.row].resp = "ACCEPTED"
          /\ \A x \in Rows : x # k.row => row'[x] = row[x]
      BY <1>4, <2>1, UpdateIs DEF AcceptRecord
    <2>3. /\ row'[k.row].status = row[k.row].status /\ row'[k.row].called = row[k.row].called
          /\ row'[k.row].link = row[k.row].link /\ row'[k.row].resp = "ACCEPTED"
          /\ row'[k.row].escalated = row[k.row].escalated
      BY <1>r, <2>1, <2>2 DEF StandbyRow
    <2>4. RowsSound'
      BY <1>4, <2>1, <2>2, <2>3 DEF AcceptRecord, RowsSound, RowSound, Live
    <2>5. HandoverSound'
      BY <1>4, <1>n, <2>1, <2>2, <2>3, HandoverKept DEF AcceptRecord, Live
    <2>6. worker'[w].pc = "assign" /\ worker'[w].row = k.row
      BY <1>4, GotoIs DEF AcceptRecord
    <2>7. DeskSound(worker[w], row, alerts)' /\ SweepSound(worker[w], row, alerts)'
      BY <2>1, <2>3, <2>6 DEF DeskSound, SweepSound, SweepPCs
    <2>8. QED
      BY <2>4, <2>5, <2>7, OneIsAll
  <1>5. CASE AssignCheck(w) \/ AssignInsert(w)
    <2>1. /\ k.row \in Rows /\ row[k.row].status \in Live /\ row[k.row].status # "ACTIVE"
          /\ row[k.row].resp = "ACCEPTED"
      BY <1>5, <1>d DEF AssignCheck, AssignInsert, At, DeskSound
    <2>2. worker'[w].pc \in {"fail", "link", "insert"} /\ worker'[w].row = k.row
      BY <1>5, GotoIs DEF AssignCheck, AssignInsert
    <2>3. DeskSound(worker[w], row, alerts)' /\ SweepSound(worker[w], row, alerts)'
      BY <1>5, <2>1, <2>2
         DEF AssignCheck, AssignInsert, DeskSound, SweepSound, SweepPCs
    <2>4. QED
      BY <1>5, <1>f, <2>3 DEF AssignCheck, AssignInsert
  <1>6. CASE AcceptFail(w)
    <2>1. worker'[w].pc = "idle"
      BY <1>6, FinishIs DEF AcceptFail
    <2>2. QED
      BY <1>6, <1>f, <2>1 DEF AcceptFail, DeskSound, SweepSound, SweepPCs
  <1>7. CASE AcceptLink(w)
    <2>1. /\ k.pc = "link" /\ k.row \in Rows /\ row[k.row].status \in Live
          /\ row[k.row].status # "ACTIVE" /\ row[k.row].resp = "ACCEPTED"
      BY <1>7, <1>d DEF AcceptLink, At, DeskSound
    <2> DEFINE link == IF Pair(w) \in tasked THEN k.flight ELSE None
    <2>2. /\ row'[k.row] = [row[k.row] EXCEPT !.status = "ASSIGNED", !.link = link]
          /\ \A x \in Rows : x # k.row => row'[x] = row[x]
      BY <1>7, <2>1, UpdateIs DEF AcceptLink
    <2> HIDE DEF link
    <2>3. /\ row'[k.row].status = "ASSIGNED" /\ row'[k.row].called = row[k.row].called
          /\ row'[k.row].resp = "ACCEPTED"
          /\ row'[k.row].escalated = row[k.row].escalated
      BY <1>r, <2>1, <2>2 DEF StandbyRow
    <2>4. RowsSound'
      <3>1. RowSound(row[k.row], alerts[k.row], stamps[k.row]) =>
              RowSound(row'[k.row], alerts'[k.row], stamps'[k.row])
        BY <1>7, <2>1, <2>3 DEF AcceptLink, RowSound, Live
      <3>2. QED
        BY <1>7, <2>1, <2>2, <3>1 DEF AcceptLink, RowsSound
    <2>5. HandoverSound'
      BY <1>7, <1>n, <2>1, <2>2, <2>3, HandoverKept DEF AcceptLink, Live
    <2>6. worker'[w].pc = "idle"
      BY <1>7, FinishIs DEF AcceptLink
    <2>7. QED
      BY <2>4, <2>5, <2>6, OneIsAll DEF DeskSound, SweepSound, SweepPCs
  <1>8. ASSUME NEW r \in Rows, ExpireWrite(w, r)
        PROVE  Sound'
    <2>1. k.pc = "expire" /\ r \in k.todo /\ \A x \in k.todo : row[x].status = "ACTIVE"
      BY <1>8, <1>d DEF ExpireWrite, At, DeskSound
    <2>2. /\ row'[r] = [row[r] EXCEPT !.status = "EXPIRED"]
          /\ \A x \in Rows : x # r => row'[x] = row[x]
      BY <1>8, <2>1, UpdateIs DEF ExpireWrite, Live
    <2>3. /\ row'[r].status = "EXPIRED" /\ row'[r].called = row[r].called
          /\ row'[r].resp = row[r].resp /\ row'[r].link = row[r].link
          /\ row'[r].escalated = row[r].escalated
      BY <1>r, <2>2 DEF StandbyRow
    <2>4. RowsSound'
      <3>1. row[r].status = "ACTIVE"
        BY <2>1
      <3>2. RowSound(row[r], alerts[r], stamps[r]) =>
              RowSound(row[r], alerts[r], stamps[r])'
        BY <1>8, <2>3, <3>1 DEF ExpireWrite, RowSound
      <3>3. QED
        BY <1>8, <2>2, <3>2, OneRowChanges DEF ExpireWrite
    <2>5. HandoverSound'
      BY <1>8, <1>n, <2>1, <2>2, <2>3, HandoverKept DEF ExpireWrite
    <2>6. worker'[w].pc \in {"idle", "expire"} /\ worker'[w].todo = k.todo \ {r}
      BY <1>8, Next1Is DEF ExpireWrite
    <2>7. DeskSound(worker[w], row, alerts)' /\ SweepSound(worker[w], row, alerts)'
      BY <1>k, <2>1, <2>2, <2>6 DEF DeskSound, SweepSound, SweepPCs
    <2>8. QED
      BY <2>4, <2>5, <2>7, OneIsAll
  <1>9. QED
    BY <1>1, <1>2, <1>3, <1>4, <1>5, <1>6, <1>7, <1>8

\* A call of the escalation sweep.
LEMMA SweepStepSound ==
  ASSUME IInv, OneProcess, NEW w \in Workers,
         \/ \E r \in Rows, c \in Rows \cup {None} : EscalatePick(w, r, c)
         \/ EscalateStamp(w) \/ EscalateCall(w) \/ EscalateNotify(w)
  PROVE  Sound'
  <1> USE DEF IInv, Sound, history
  <1> DEFINE k == worker[w]
  <1>k. /\ k \in LocalState
        /\ k.row \in Rows \cup {None} /\ k.cand \in Rows \cup {None} /\ k.todo \subseteq Rows
    BY WorkerTyped
  <1>s. SweepSound(k, row, alerts)
    BY DEF TasksSound
  <1>r. ASSUME NEW x \in Rows
        PROVE  row[x] \in StandbyRow
    BY DEF TypeOK
  <1>x. ASSUME NEW r, Next1(w, "escalate", r)
        PROVE  worker'[w].pc \in {"idle", "escalate"} /\ worker'[w].todo = k.todo \ {r}
    BY <1>x, Next1Is
  <1>1. ASSUME NEW r \in Rows, NEW c \in Rows \cup {None}, EscalatePick(w, r, c)
        PROVE  Sound'
    <2> DEFINE s == [k EXCEPT !.pc = "stamp", !.row = r, !.cand = c, !.flight = k.seen[r]]
    <2>1. s.pc = "stamp" /\ s.row = r /\ s.cand = c /\ s.todo = k.todo
      BY <1>k DEF LocalState
    <2>2. worker'[w] = s /\ UNCHANGED <<row, tasked, history>>
      BY <1>1, BecomeIs DEF EscalatePick
    <2> HIDE DEF s
    <2>3. /\ k.pc = "escalate" /\ r \in k.todo
          /\ c # None => row[c].status = "ACTIVE"
      BY <1>1 DEF EscalatePick, At, Available
    <2>4. Unstamped(k) = k.todo /\ Unstamped(s) = k.todo
      BY <2>1, <2>3 DEF Unstamped
    <2>5. SweepSound(s, row, alerts)
      BY <1>s, <2>1, <2>3, <2>4 DEF SweepSound, SweepPCs
    <2>6. DeskSound(s, row, alerts)
      BY <2>1 DEF DeskSound
    <2>7. \A v \in Workers : ~At(v, "call")
      BY <2>3 DEF OneProcess, At
    <2>8. HandoverSound'
      BY <2>2, <2>7, HandoverKept
    <2>9. RowsSound'
      BY <2>2 DEF RowsSound
    <2>10. QED
      BY <2>2, <2>5, <2>6, <2>8, <2>9, OneIsAll
  <1>2. CASE EscalateStamp(w)
    <2>1. /\ k.pc = "stamp" /\ k.row \in k.todo
          /\ k.cand # None => row[k.cand].status = "ACTIVE"
      BY <1>2, <1>s DEF EscalateStamp, At, SweepSound, SweepPCs
    <2>2. Unstamped(k) = k.todo
      BY <2>1 DEF Unstamped
    <2>3. /\ \A r \in k.todo : Open(row[r])
          /\ \A r \in Rows : Refused(row[r]) => r \in k.todo
      BY <1>s, <2>1, <2>2 DEF SweepSound, SweepPCs
    <2> DEFINE verdict == IF k.cand = None THEN "EXHAUSTED" ELSE "ESCALATED"
    <2>4. verdict # "no"
      OBVIOUS
    <2>5. k.row \in Rows /\ Open(row[k.row])
      BY <1>k, <2>1, <2>3
    <2>6. /\ row'[k.row] = [row[k.row] EXCEPT !.escalated = verdict]
          /\ \A x \in Rows : x # k.row => row'[x] = row[x]
      BY <1>2, <2>5, UpdateIs DEF EscalateStamp, Open, Live
    <2> HIDE DEF verdict
    <2>7. /\ row'[k.row].status = row[k.row].status /\ row'[k.row].called
          /\ row'[k.row].resp = row[k.row].resp /\ row'[k.row].link = row[k.row].link
          /\ row'[k.row].escalated = verdict
      BY <1>r, <2>5, <2>6 DEF StandbyRow, Open
    <2>8. RowSound(row[k.row], alerts[k.row], stamps[k.row])
      BY <2>5 DEF RowsSound
    <2>9. /\ stamps'[k.row] = 1
          /\ \A x \in Rows : x # k.row => stamps'[x] = stamps[x]
          /\ alerts' = alerts /\ cut' = cut
      <3>1. stamps[k.row] = 0
        BY <2>5, <2>8 DEF RowSound, Open
      <3>2. QED
        BY <1>2, <2>5, <3>1 DEF EscalateStamp, Stamped, OneMore, TypeOK
    <2>10. RowSound(row'[k.row], alerts'[k.row], stamps'[k.row])
      BY <2>4, <2>5, <2>7, <2>8, <2>9 DEF RowSound, Open
    <2>11. RowsSound'
      BY <2>5, <2>6, <2>9, <2>10 DEF RowsSound
    <2>12. /\ \A r \in k.todo \ {k.row} : Open(row'[r])
           /\ \A r \in Rows : Refused(row'[r]) => r \in k.todo \ {k.row}
      BY <1>k, <2>3, <2>4, <2>6, <2>7 DEF Refused
    <2>13. /\ handover'[k.row] = k.cand
           /\ \A x \in Rows : x # k.row => handover'[x] = handover[x]
      BY <1>2, <2>5 DEF EscalateStamp, Stamped, TypeOK
    <2>14. \A x \in Rows : (row[x].called => row'[x].called)
                           /\ (row[x].status = "deleted" => row'[x].status = "deleted")
      BY <2>5, <2>6, <2>7
    <2>15. \A r \in Rows : ~cut => \/ handover[r] = None
                                   \/ row[handover[r]].called
                                   \/ row[handover[r]].status = "deleted"
      BY <2>1 DEF HandoverSound, OneProcess, At
    <2>16. \A r \in Rows \ {k.row} : ~cut' => \/ handover'[r] = None
                                            \/ row'[handover'[r]].called
                                            \/ row'[handover'[r]].status = "deleted"
      BY <2>9, <2>13, <2>14, <2>15 DEF TypeOK
    <2>17. CASE k.cand = None
      <3>1. Next1(w, "escalate", k.row)
        BY <1>2, <2>17 DEF EscalateStamp, Stamped
      <3>2. worker'[w].pc \in {"idle", "escalate"} /\ worker'[w].todo = k.todo \ {k.row}
        BY <1>x, <3>1
      <3>3. DeskSound(worker[w], row, alerts)'
        BY <3>2 DEF DeskSound
      <3>4. worker'[w].pc = "escalate" => Unstamped(worker'[w]) = k.todo \ {k.row}
        BY <3>2 DEF Unstamped
      <3>5. SweepSound(worker[w], row, alerts)'
        BY <2>12, <3>2, <3>4 DEF SweepSound, SweepPCs
      <3>6. HandoverSound'
        BY <2>13, <2>16, <2>17 DEF HandoverSound
      <3>7. QED
        BY <2>11, <3>3, <3>5, <3>6, OneIsAll
    <2>18. CASE k.cand # None
      <3>1. Goto(w, "call")
        BY <1>2, <2>18 DEF EscalateStamp, Stamped
      <3>2. /\ worker'[w].pc = "call" /\ worker'[w].todo = k.todo
            /\ worker'[w].row = k.row /\ worker'[w].cand = k.cand
        BY <3>1, GotoIs
      <3>3. DeskSound(worker[w], row, alerts)'
        BY <3>2 DEF DeskSound
      <3>4. Unstamped(worker'[w]) = k.todo \ {k.row}
        BY <3>2 DEF Unstamped
      <3>5. k.cand \in Rows /\ row'[k.cand].status = "ACTIVE"
        BY <1>k, <2>1, <2>5, <2>6, <2>7, <2>18
      <3>6. SweepSound(worker[w], row, alerts)'
        BY <2>1, <2>12, <2>18, <3>2, <3>4, <3>5 DEF SweepSound, SweepPCs
      <3>7. HandoverSound'
        BY <2>13, <2>16, <3>2 DEF HandoverSound, At
      <3>8. QED
        BY <2>11, <3>3, <3>6, <3>7, OneIsAll
    <2>19. QED
      BY <2>17, <2>18

  <1>3. CASE EscalateCall(w)
    <2>1. /\ k.pc = "call" /\ k.row \in k.todo /\ k.cand \in Rows
          /\ row[k.cand].status = "ACTIVE"
      BY <1>3, <1>k, <1>s DEF EscalateCall, At, SweepSound, SweepPCs
    <2>2. Unstamped(k) = k.todo \ {k.row}
      BY <2>1 DEF Unstamped
    <2>3. /\ \A r \in k.todo \ {k.row} : Open(row[r])
          /\ \A r \in Rows : Refused(row[r]) => r \in k.todo \ {k.row}
      BY <1>s, <2>1, <2>2 DEF SweepSound, SweepPCs
    <2>4. RowSound(row[k.cand], alerts[k.cand], stamps[k.cand])
      BY <2>1 DEF RowsSound
    <2> DEFINE s == CalledFor(row[k.cand], k.flight)
    <2>5. /\ s.called /\ s.status \in {"CALLED_OUT", "ASSIGNED"}
          /\ s.resp = row[k.cand].resp /\ s.link = row[k.cand].link
          /\ s.escalated = row[k.cand].escalated
      BY <1>r, <2>1 DEF CalledFor, StandbyRow
    <2> HIDE DEF s
    <2>6. /\ row'[k.cand] = s
          /\ \A x \in Rows : x # k.cand => row'[x] = row[x]
      BY <1>3, <2>1, UpdateIs DEF EscalateCall, s, Live
    <2>7. /\ worker'[w].pc = "callNotify" /\ worker'[w].todo = k.todo
          /\ worker'[w].row = k.row /\ worker'[w].cand = k.cand
      BY <1>3, GotoIs DEF EscalateCall
    <2>8. RowsSound'
      <3>1. RowSound(row'[k.cand], alerts'[k.cand], stamps'[k.cand])
        BY <1>3, <2>1, <2>4, <2>5, <2>6 DEF EscalateCall, RowSound
      <3>2. QED
        BY <1>3, <2>1, <2>6, <3>1 DEF EscalateCall, RowsSound
    <2>9. HandoverSound'
      <3>1. \A x \in Rows : /\ row[x].called => row'[x].called
                            /\ row[x].status = "deleted" => row'[x].status = "deleted"
        BY <2>1, <2>5, <2>6
      <3>2. \A v \in Workers : worker[v].cand = k.cand
        BY DEF OneProcess
      <3>3. row'[k.cand].called
        BY <2>5, <2>6
      <3>4. UNCHANGED <<handover, cut>>
        BY <1>3 DEF EscalateCall
      <3>5. QED
        BY <3>1, <3>2, <3>3, <3>4 DEF HandoverSound, TypeOK
    <2>10. DeskSound(worker[w], row, alerts)'
      BY <2>7 DEF DeskSound
    <2>11. Unstamped(worker'[w]) = k.todo \ {k.row}
      BY <2>7 DEF Unstamped
    <2>12. \A r \in k.todo \ {k.row} : Open(row'[r])
      BY <1>k, <2>1, <2>3, <2>6 DEF Open
    <2>13. \A r \in Rows : Refused(row'[r]) => r \in k.todo \ {k.row}
      <3>1. row'[k.cand].resp = "none"
        BY <2>1, <2>4, <2>5, <2>6 DEF RowSound
      <3>2. QED
        BY <2>3, <2>6, <3>1 DEF Refused
    <2>14. alerts'[k.cand] = 0 /\ row'[k.cand].status \in {"CALLED_OUT", "ASSIGNED"}
      BY <1>3, <2>1, <2>4, <2>5, <2>6 DEF EscalateCall, RowSound
    <2>15. k.cand # None
      BY <2>1, NoneAssumption
    <2>16. SweepSound(worker[w], row, alerts)'
      BY <2>1, <2>7, <2>11, <2>12, <2>13, <2>14, <2>15 DEF SweepSound, SweepPCs
    <2>17. QED
      BY <2>8, <2>9, <2>10, <2>16, OneIsAll
  <1>4. CASE EscalateNotify(w)
    <2>1. /\ k.pc = "callNotify" /\ k.row \in k.todo /\ k.cand \in Rows
          /\ alerts[k.cand] = 0 /\ row[k.cand].status \notin {"absent", "ACTIVE"}
      BY <1>4, <1>k, <1>s DEF EscalateNotify, At, SweepSound, SweepPCs
    <2>2. Unstamped(k) = k.todo \ {k.row}
      BY <2>1 DEF Unstamped
    <2>3. /\ \A r \in k.todo \ {k.row} : Open(row[r])
          /\ \A r \in Rows : Refused(row[r]) => r \in k.todo \ {k.row}
      BY <1>s, <2>1, <2>2 DEF SweepSound, SweepPCs
    <2>4. /\ alerts'[k.cand] = 1
          /\ \A x \in Rows : x # k.cand => alerts'[x] = alerts[x]
          /\ UNCHANGED <<row, stamps, handover, cut>>
      BY <1>4, <2>1 DEF EscalateNotify, OneMore, TypeOK
    <2>5. RowsSound'
      <3>1. RowSound(row[k.cand], alerts[k.cand], stamps[k.cand])
        BY <2>1 DEF RowsSound
      <3>2. RowSound(row'[k.cand], alerts'[k.cand], stamps'[k.cand])
        BY <2>1, <2>4, <3>1 DEF RowSound
      <3>3. QED
        BY <2>1, <2>4, <3>2 DEF RowsSound
    <2>6. \A v \in Workers : ~At(v, "call")
      BY <2>1 DEF OneProcess, At
    <2>7. HandoverSound'
      BY <2>4, <2>6, HandoverKept
    <2>8. worker'[w].pc \in {"idle", "escalate"} /\ worker'[w].todo = k.todo \ {k.row}
      BY <1>4, <1>x DEF EscalateNotify
    <2>9. DeskSound(worker[w], row, alerts)'
      BY <2>8 DEF DeskSound
    <2>10. worker'[w].pc = "escalate" => Unstamped(worker'[w]) = k.todo \ {k.row}
      BY <2>8 DEF Unstamped
    <2>11. SweepSound(worker[w], row, alerts)'
      BY <2>3, <2>4, <2>8, <2>10 DEF SweepSound, SweepPCs
    <2>12. QED
      BY <2>5, <2>7, <2>9, <2>11, OneIsAll
  <1>5. QED
    BY <1>1, <1>2, <1>3, <1>4

\* Time passes during a handler, too; the rest of the API waits for it.
LEMMA WorldSound ==
  ASSUME IInv, OneProcess, World
  PROVE  Sound'
  <1> USE DEF IInv, Sound, history
  <1>1. ASSUME UNCHANGED <<worker, history>>,
               \A x \in Rows : /\ row'[x].status = row[x].status
                               /\ row'[x].called = row[x].called
                               /\ row'[x].resp = row[x].resp /\ row'[x].link = row[x].link
                               /\ row'[x].escalated = row[x].escalated
        PROVE  Sound'
    <2>1. RowsSound'
      BY <1>1 DEF RowsSound, RowSound
    <2>2. HandoverSound'
      BY <1>1 DEF HandoverSound, TypeOK, At
    <2>3. ASSUME NEW w \in Workers
          PROVE  DeskSound(worker[w], row, alerts)'
      <3>1. DeskSound(worker[w], row, alerts) /\ worker[w].todo \subseteq Rows
        BY WorkerTyped DEF TasksSound
      <3>2. QED
        BY <1>1, <3>1 DEF DeskSound
    <2>4. ASSUME NEW w \in Workers
          PROVE  SweepSound(worker[w], row, alerts)'
      <3>1. /\ SweepSound(worker[w], row, alerts)
            /\ worker[w].todo \subseteq Rows /\ worker[w].cand \in Rows \cup {None}
        BY WorkerTyped DEF TasksSound
      <3>2. /\ Unstamped(worker'[w]) = Unstamped(worker[w])
            /\ Unstamped(worker[w]) \subseteq Rows
        BY <1>1, <3>1 DEF Unstamped
      <3>3. \A x \in Rows : (Open(row[x]) => Open(row'[x]))
                            /\ (Refused(row'[x]) => Refused(row[x]))
        BY <1>1 DEF Open, Refused
      <3>4. QED
        BY <1>1, <3>1, <3>2, <3>3, NoneAssumption DEF SweepSound, SweepPCs
    <2>5. QED
      BY <2>1, <2>2, <2>3, <2>4 DEF TasksSound
  <1>2. CASE \E r \in Rows, f \in Flights : AssignDirectly(r, f) \/ RemoveAssignment(r, f)
    BY <1>1, <1>2 DEF AssignDirectly, RemoveAssignment
  <1>3. ASSUME NEW r \in Rows, ResponseDeadlinePasses(r) \/ WindowEnds(r)
        PROVE  Sound'
    <2>1. /\ UNCHANGED <<worker, history>>
          /\ \A x \in Rows : x # r => row'[x] = row[x]
          /\ \/ row'[r] = [row[r] EXCEPT !.late = TRUE]
             \/ row'[r] = [row[r] EXCEPT !.ended = TRUE]
      BY <1>3 DEF ResponseDeadlinePasses, WindowEnds, TypeOK
    <2>2. row[r] \in StandbyRow
      BY DEF TypeOK
    <2>3. /\ row'[r].status = row[r].status /\ row'[r].called = row[r].called
          /\ row'[r].resp = row[r].resp /\ row'[r].link = row[r].link
          /\ row'[r].escalated = row[r].escalated
      BY <2>1, <2>2 DEF StandbyRow
    <2>4. QED
      BY <1>1, <2>1, <2>3
  <1>4. QED
    BY <1>2, <1>3 DEF World

LEMMA CrashSound ==
  ASSUME IInv, OneProcess, NEW w \in Workers, Crash(w)
  PROVE  Sound'
  <1>1. /\ worker'[w].pc = "idle" /\ cut' = TRUE
        /\ UNCHANGED <<row, tasked, alerts, stamps, handover>>
    BY FinishIs DEF Crash, IInv
  <1>2. RowsSound' /\ HandoverSound'
    BY <1>1 DEF IInv, Sound, RowsSound, HandoverSound
  <1>3. DeskSound(worker[w], row, alerts)' /\ SweepSound(worker[w], row, alerts)'
    BY <1>1 DEF DeskSound, SweepSound, SweepPCs
  <1>4. QED
    BY <1>2, <1>3, OneIsAll

LEMMA InitSound == Init => IInv
  <1> SUFFICES ASSUME Init
               PROVE  IInv
    OBVIOUS
  <1>1. TypeOK
    BY InitTyped
  <1>2. PairsNamed /\ TasksSound
    BY DEF Init, PairsNamed, TasksSound, DeskSound, SweepSound, SweepPCs, Idle
  <1>3. RowsSound
    BY DEF Init, RowsSound, RowSound, Absent
  <1>4. HandoverSound
    BY DEF Init, HandoverSound
  <1>5. QED
    BY <1>1, <1>2, <1>3, <1>4 DEF IInv, Sound

LEMMA StepSound ==
  ASSUME IInv, OneProcess, [Next]_vars
  PROVE  IInv'
  <1>1. TypeOK' /\ PairsNamed'
    BY TypedStep DEF IInv
  <1>2. CASE UNCHANGED vars
    BY <1>1, <1>2
       DEF IInv, Sound, RowsSound, TasksSound, HandoverSound, At, vars, history
  <1>3. ASSUME NEW w \in Workers, Continue(w)
        PROVE  Sound'
    BY <1>3, DeskStepSound, SweepStepSound DEF Continue
  <1>4. CASE Next
    <2>1. Sound'
      BY <1>3, <1>4, RequestSound, CrashSound, WorldSound DEF Next
    <2>2. QED
      BY <1>1, <2>1 DEF IInv
  <1>5. QED
    BY <1>2, <1>4

LEMMA Invariance ==
  ASSUME OneProcess
  PROVE  Spec => []IInv
  <1>1. Init => IInv
    BY InitSound
  <1>2. IInv /\ [Next]_vars => IInv'
    BY StepSound
  <1>3. QED
    BY <1>1, <1>2, PTL DEF Spec

----------------------------------------------------------------------------
(* The theorems.                                                           *)

\* With one process nobody is notified twice of a call-out and no row is
\* escalated twice, however the desk repeats itself and wherever a handler is
\* cut off.
THEOREM NobodyIsCalledTwice ==
  ASSUME OneProcess
  PROVE  Spec => []CalledOnce
  <1>1. IInv => CalledOnce
    BY DEF IInv, Sound, RowsSound, RowSound, CalledOnce
  <1>2. QED
    BY <1>1, Invariance, PTL

\* With one process every escalation whose sweep was not cut off has called its
\* candidate.
THEOREM EscalationsHandOver ==
  ASSUME OneProcess
  PROVE  Spec => []HandoverHappens
  <1>1. IInv => HandoverHappens
    BY DEF IInv, Sound, HandoverSound, HandoverHappens, At
  <1>2. QED
    BY <1>1, Invariance, PTL

\* A row becomes EXPIRED only in the expiry sweep.
LEMMA ExpiryOfActive ==
  ASSUME IInv, [Next]_vars, NEW r \in Rows, row'[r].status = "EXPIRED"
  PROVE  row[r].status \in {"ACTIVE", "EXPIRED"}
  <1> USE DEF IInv
  <1> SUFFICES ASSUME row[r].status # "EXPIRED"
               PROVE  row[r].status = "ACTIVE"
    OBVIOUS
  <1>r. row[r] \in StandbyRow
    BY DEF TypeOK
  <1>u. ASSUME NEW y, NEW new, Update(y, new)
        PROVE  row'[r] = row[r] \/ (r = y /\ row'[r] = new)
    BY <1>u DEF TypeOK, Update
  <1>1. row' # row
    OBVIOUS
  <1>2. ASSUME NEW w \in Workers, Request(w)
        PROVE  FALSE
    <2>1. CASE \E x \in Rows, ended \in BOOLEAN : CreateStandby(w, x, ended)
      BY <2>1 DEF CreateStandby, TypeOK, Absent
    <2>2. CASE \E x \in Rows : CancelStandby(w, x) \/ DeleteStandby(w, x)
      BY <1>r, <2>2 DEF CancelStandby, DeleteStandby, TypeOK, StandbyRow, Absent
    <2>3. QED
      BY <1>1, <1>2, <2>1, <2>2
         DEF Request, CalloutRead, RejectRead, AcceptRead, ExpireRead, EscalateRead
  <1>3. ASSUME NEW w \in Workers, Continue(w)
        PROVE  row[r].status = "ACTIVE"
    <2>1. CASE CalloutWrite(w)
      BY <1>r, <1>u, <2>1 DEF CalloutWrite, CalledFor, StandbyRow
    <2>2. CASE RejectWrite(w)
      BY <1>r, <1>u, <2>2 DEF RejectWrite, StandbyRow
    <2>3. CASE AcceptRecord(w)
      BY <1>r, <1>u, <2>3 DEF AcceptRecord, StandbyRow
    <2>4. CASE AcceptLink(w)
      <3> DEFINE link == IF Pair(w) \in tasked THEN worker[w].flight ELSE None
      <3>1. Update(worker[w].row,
                   [row[worker[w].row] EXCEPT !.status = "ASSIGNED", !.link = link])
        BY <2>4 DEF AcceptLink
      <3> HIDE DEF link
      <3>2. row'[r] = [row[r] EXCEPT !.status = "ASSIGNED", !.link = link]
        BY <1>u, <3>1
      <3>3. QED
        BY <1>r, <3>2 DEF StandbyRow
    <2>5. ASSUME NEW x \in Rows, ExpireWrite(w, x)
          PROVE  row[r].status = "ACTIVE"
      <3>1. x = r
        BY <1>u, <2>5 DEF ExpireWrite
      <3>2. QED
        BY <2>5, <3>1 DEF ExpireWrite, At, Sound, TasksSound, DeskSound
    <2>6. CASE EscalateStamp(w)
      <3> DEFINE verdict == IF worker[w].cand = None THEN "EXHAUSTED" ELSE "ESCALATED"
      <3>1. Update(worker[w].row, [row[worker[w].row] EXCEPT !.escalated = verdict])
        BY <2>6 DEF EscalateStamp
      <3> HIDE DEF verdict
      <3>2. row'[r] = [row[r] EXCEPT !.escalated = verdict]
        BY <1>u, <3>1
      <3>3. QED
        BY <1>r, <3>2 DEF StandbyRow
    <2>7. CASE EscalateCall(w)
      BY <1>r, <1>u, <2>7 DEF EscalateCall, CalledFor, StandbyRow
    <2>8. QED
      BY <1>1, <1>3, <2>1, <2>2, <2>3, <2>4, <2>5, <2>6, <2>7
         DEF Continue, CalloutNotify, AssignCheck, AssignInsert, AcceptFail, EscalatePick,
             EscalateNotify
  <1>4. CASE World
    <2>1. ASSUME NEW x \in Rows, ResponseDeadlinePasses(x) \/ WindowEnds(x)
          PROVE  FALSE
      <3>1. \/ row'[r] = row[r]
            \/ row'[r] = [row[r] EXCEPT !.late = TRUE]
            \/ row'[r] = [row[r] EXCEPT !.ended = TRUE]
        BY <2>1 DEF ResponseDeadlinePasses, WindowEnds, TypeOK
      <3>2. QED
        BY <1>r, <3>1 DEF StandbyRow
    <2>2. QED
      BY <1>1, <1>4, <2>1 DEF World, AssignDirectly, RemoveAssignment
  <1>5. QED
    BY <1>1, <1>2, <1>3, <1>4 DEF Next, Crash, vars

\* What an EscalateStamp leaves: it stamps one open call-out of its list, and no
\* refusal but those still on the list.
LEMMA StampIs ==
  ASSUME IInv, NEW w \in Workers, EscalateStamp(w)
  PROVE  /\ \A r \in Rows : stamps'[r] # stamps[r] => Open(row[r])
         /\ \A r \in Rows : Refused(row'[r]) => r \in worker[w].todo \ {worker[w].row}
  <1> USE DEF IInv, Sound
  <1> DEFINE k == worker[w]
             verdict == IF k.cand = None THEN "EXHAUSTED" ELSE "ESCALATED"
  <1>1. k.todo \subseteq Rows
    BY WorkerTyped
  <1>2. k.pc = "stamp" /\ k.row \in k.todo
    BY DEF EscalateStamp, At, TasksSound, SweepSound, SweepPCs
  <1>3. /\ \A r \in k.todo : Open(row[r])
        /\ \A r \in Rows : Refused(row[r]) => r \in k.todo
    BY <1>2 DEF TasksSound, SweepSound, SweepPCs, Unstamped
  <1>4. \A r \in Rows : stamps'[r] # stamps[r] => r = k.row
    BY DEF EscalateStamp, Stamped, OneMore, TypeOK
  <1>5. verdict # "no"
    OBVIOUS
  <1>6. /\ row'[k.row] = [row[k.row] EXCEPT !.escalated = verdict]
        /\ \A x \in Rows : x # k.row => row'[x] = row[x]
    BY <1>1, <1>2, <1>3, UpdateIs DEF EscalateStamp, Open, Live
  <1> HIDE DEF verdict
  <1>7. row[k.row] \in StandbyRow
    BY <1>1, <1>2 DEF TypeOK
  <1>8. row'[k.row].escalated # "no"
    BY <1>5, <1>6, <1>7 DEF StandbyRow
  <1>9. QED
    BY <1>2, <1>3, <1>4, <1>6, <1>8 DEF Refused

\* With one process the expiry sweep expires nobody who has been called, and the
\* escalation sweep stamps nobody who has accepted.
THEOREM SweepsSpare ==
  ASSUME OneProcess
  PROVE  Spec => SweepsSpareTheCalled
  <1>1. ASSUME IInv, [Next]_vars, NEW r \in Rows, stamps'[r] # stamps[r]
        PROVE  row[r].resp # "ACCEPTED"
    <2>1. stamps' # stamps
      BY <1>1
    <2>2. \E w \in Workers : EscalateStamp(w)
      BY <1>1, <2>1
         DEF Next, vars, history, Request, CreateStandby, CalloutRead, CancelStandby,
             DeleteStandby, RejectRead, AcceptRead, ExpireRead, EscalateRead,
             Continue, CalloutWrite, CalloutNotify, RejectWrite, AcceptRecord, AssignCheck,
             AssignInsert, AcceptFail, AcceptLink, ExpireWrite, EscalatePick, EscalateCall,
             EscalateNotify, World, AssignDirectly, RemoveAssignment,
             ResponseDeadlinePasses, WindowEnds, Crash
    <2>3. QED
      BY <1>1, <2>2, StampIs DEF Open
  <1>2. IInv /\ [Next]_vars =>
          [\A r \in Rows :
             /\ row'[r].status = "EXPIRED" => row[r].status \in {"ACTIVE", "EXPIRED"}
             /\ stamps'[r] # stamps[r] => row[r].resp # "ACCEPTED"]_vars
    BY <1>1, ExpiryOfActive
  <1>3. QED
    BY <1>2, Invariance, PTL DEF SweepsSpareTheCalled, Spec

\* With one process an escalation sweep that runs to its end leaves no refused
\* call-out unhandled.
THEOREM SweepsHandleRefusals ==
  ASSUME OneProcess
  PROVE  Spec => SweepHandlesRejections
  <1>1. ASSUME IInv, [Next]_vars, NEW w \in Workers, worker[w].pc \in SweepPCs,
               worker'[w].pc = "idle", ~cut'
        PROVE  \A r \in Rows : ~Refused(row'[r])
    <2>t. TypeOK
      BY <1>1 DEF IInv
    <2>g. ASSUME NEW pc, Goto(w, pc), pc # "idle"
          PROVE  FALSE
      BY <1>1, <2>t, <2>g, GotoIs
    <2>n. ASSUME NEW r, Next1(w, "escalate", r)
          PROVE  worker[w].todo \ {r} = {}
      <3>1. worker'[w].pc # "escalate"
        BY <1>1
      <3>2. /\ worker'[w].todo = worker[w].todo \ {r}
            /\ worker'[w].pc # "escalate" => worker'[w].todo = {}
        BY <2>t, <2>n, Next1Is
      <3>3. QED
        BY <3>1, <3>2
    <2>1. worker' # worker
      BY <1>1 DEF SweepPCs
    <2>2. Continue(w)
      <3>1. ~(\E v \in Workers : Request(v) \/ Crash(v))
        BY <1>1 DEF Request, CreateStandby, CalloutRead, CancelStandby, DeleteStandby,
                    RejectRead, AcceptRead, ExpireRead, EscalateRead, Crash, OneProcess, At,
                    SweepPCs
      <3>2. ~World
        BY <2>1 DEF World, AssignDirectly, RemoveAssignment, ResponseDeadlinePasses,
                    WindowEnds
      <3>3. QED
        BY <1>1, <2>1, <3>1, <3>2 DEF Next, vars, OneProcess
    <2>3. EscalateStamp(w) \/ EscalateNotify(w)
      <3>1. ~EscalateCall(w)
        BY <2>g DEF EscalateCall
      <3>2. ASSUME NEW r \in Rows, NEW c \in Rows \cup {None}, EscalatePick(w, r, c)
            PROVE  FALSE
        <4> DEFINE s == [worker[w] EXCEPT !.pc = "stamp", !.row = r, !.cand = c,
                                          !.flight = worker[w].seen[r]]
        <4>1. worker'[w] = s
          BY <1>1, <3>2, BecomeIs DEF EscalatePick, IInv
        <4>2. s.pc = "stamp"
          BY <1>1, WorkerTyped DEF LocalState, IInv
        <4> HIDE DEF s
        <4>3. QED
          BY <1>1, <4>1, <4>2
      <3>3. QED
        BY <1>1, <2>2, <3>1, <3>2
           DEF Continue, CalloutWrite, CalloutNotify, RejectWrite, AcceptRecord, AssignCheck,
               AssignInsert, AcceptFail, AcceptLink, ExpireWrite, At, SweepPCs
    <2>4. CASE EscalateStamp(w)
      <3>1. Next1(w, "escalate", worker[w].row)
        BY <2>4, <2>g DEF EscalateStamp, Stamped
      <3>2. worker[w].todo \ {worker[w].row} = {}
        BY <2>n, <3>1
      <3>3. QED
        BY <1>1, <2>4, <3>2, StampIs
    <2>5. CASE EscalateNotify(w)
      <3>1. Next1(w, "escalate", worker[w].row) /\ row' = row /\ worker[w].pc = "callNotify"
        BY <2>5 DEF EscalateNotify, At
      <3>2. worker[w].todo \ {worker[w].row} = {}
        BY <2>n, <3>1
      <3>3. \A r \in Rows : Refused(row[r]) => r \in worker[w].todo \ {worker[w].row}
        BY <1>1, <3>1 DEF IInv, Sound, TasksSound, SweepSound, SweepPCs, Unstamped
      <3>4. QED
        BY <3>1, <3>2, <3>3
    <2>6. QED
      BY <2>3, <2>4, <2>5
  <1>2. IInv /\ [Next]_vars =>
          [\A w \in Workers :
             worker[w].pc \in SweepPCs /\ worker'[w].pc = "idle" /\ ~cut' =>
               \A r \in Rows : (CalledOut(r) /\ row[r].resp = "REJECTED")'
                                 => row'[r].escalated # "no"]_vars
    BY <1>1 DEF Refused, CalledOut
  <1>3. QED
    BY <1>2, Invariance, PTL DEF SweepHandlesRejections, Spec

=============================================================================
