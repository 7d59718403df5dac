--------------------------- MODULE StaffingProofs ---------------------------
(***************************************************************************)
(* The rollback of a connected duty, for any number of instances, crew and *)
(* requests interleaving at every call.                                    *)
(***************************************************************************)
EXTENDS Staffing, FiniteSetTheorems, TLAPS

Connected == {"dutyRead", "dutyInsert", "dutyRollback"}

\* A row whose id a handler holds exists, and it is the handler's own while that
\* is serving a connected duty: nobody inserts a pair that exists, and whoever
\* deletes a row takes its id from everybody.
HeldRows(w) ==
  \A c \in worker[w].mine : duty[c] # "none" /\ (worker[w].pc \in Connected => owner[c] = {w})

HeldInv == \A w \in Deployed : HeldRows(w)

\* The part of TypeOK the desk of the do-not-pair requests leaves alone.
RowsOK ==
  /\ duty \in [Crew -> Duties \cup {"none"}]
  /\ Deployed \subseteq Workers /\ worker \in [Deployed -> LocalState]
  /\ owner \in [Crew -> SUBSET Workers]

----------------------------------------------------------------------------
LEMMA IdleState == Idle \in LocalState
BY DEF Idle, LocalState, Duties

\* A step that leaves the roster alone.
LEMMA MoveStep ==
  ASSUME RowsOK, HeldInv, NEW w \in Deployed, NEW s \in LocalState, Become(w, s),
         UNCHANGED <<duty, owner>>,
         s.mine # {} => HeldRows(w) /\ s.mine \subseteq worker[w].mine
                         /\ (s.pc \in Connected => worker[w].pc \in Connected)
  PROVE  RowsOK' /\ HeldInv'
BY DEF RowsOK, HeldInv, HeldRows, Deployed, Become

\* The insert of a row whose pair does not exist.
LEMMA InsertStep ==
  ASSUME RowsOK, HeldInv, NEW w \in Deployed, NEW s \in LocalState, Become(w, s),
         NEW c \in Crew \ OnFlight, NEW d \in Duties, InsertRow(c, d, w),
         s.mine \subseteq worker[w].mine \cup {c},
         s.pc \in Connected => worker[w].pc \in Connected
  PROVE  RowsOK' /\ HeldInv'
<1>1. /\ duty' = [duty EXCEPT ![c] = d] /\ d # "none"
      /\ owner' = [owner EXCEPT ![c] = {w}]
      /\ worker' = [worker EXCEPT ![w] = s] /\ Deployed' = Deployed
      /\ w \in Workers
  BY DEF InsertRow, Become, RowsOK, Deployed, Duties
<1>2. \A x \in Deployed : c \notin worker[x].mine
  BY DEF HeldInv, HeldRows, OnFlight
<1>3. RowsOK'
  BY <1>1 DEF RowsOK
<1>4. ASSUME NEW x \in Deployed' PROVE HeldRows(x)'
  <2>1. CASE x = w
    BY <1>1, <2>1 DEF HeldInv, HeldRows, RowsOK
  <2>2. CASE x # w
    BY <1>1, <1>2, <2>2 DEF HeldInv, HeldRows, RowsOK
  <2> QED BY <2>1, <2>2
<1> QED BY <1>3, <1>4 DEF HeldInv

\* The deletion of rows.
LEMMA DeleteStep ==
  ASSUME RowsOK, HeldInv, NEW w \in Deployed, NEW s \in LocalState, NEW S \in SUBSET Crew,
         DeleteRows(S, w, s), s.mine \subseteq worker[w].mine,
         s.pc \in Connected => worker[w].pc \in Connected
  PROVE  RowsOK' /\ HeldInv'
<1> DEFINE after(x) == IF x = w THEN [s EXCEPT !.mine = @ \ S]
                                ELSE [worker[x] EXCEPT !.mine = @ \ S]
<1>1. /\ duty' = [c \in Crew |-> IF c \in S THEN "none" ELSE duty[c]]
      /\ owner' = [c \in Crew |-> IF c \in S THEN {} ELSE owner[c]]
      /\ worker' = [x \in Deployed |-> after(x)] /\ Deployed' = Deployed
  BY DEF DeleteRows, Deployed
<1>2. \A x \in Deployed : worker[x] \in LocalState /\ after(x) \in LocalState
  BY DEF RowsOK, LocalState
<1>3. RowsOK'
  BY <1>1, <1>2 DEF RowsOK
<1>4. ASSUME NEW x \in Deployed PROVE HeldRows(x)'
  <2>1. worker'[x].mine \subseteq worker[x].mine \ S
    BY <1>1, <1>2 DEF LocalState
  <2>2. worker'[x].pc \in Connected => worker[x].pc \in Connected
    BY <1>1, <1>2 DEF LocalState
  <2>3. worker[x].mine \subseteq Crew
    BY <1>2 DEF LocalState
  <2>4. \A c \in Crew \ S : duty'[c] = duty[c] /\ owner'[c] = owner[c]
    BY <1>1
  <2>5. \A c \in worker[x].mine : duty[c] # "none" /\ (worker[x].pc \in Connected => owner[c] = {x})
    BY DEF HeldInv, HeldRows
  <2> HIDE DEF after
  <2> QED BY <2>1, <2>2, <2>3, <2>4, <2>5 DEF HeldRows
<1> QED BY <1>1, <1>3, <1>4 DEF HeldInv

----------------------------------------------------------------------------
LEMMA HandlerStep ==
  ASSUME RowsOK, HeldInv, NEW w \in Deployed, Handler(w)
  PROVE  RowsOK' /\ HeldInv' /\ UNCHANGED req
<1> worker[w] \in LocalState /\ HeldRows(w)
  BY DEF RowsOK, HeldInv
<1> USE IdleState DEF At, Goto, Finish
<1>1. ASSUME NEW c \in Crew, NEW d \in Duties, NEW o \in Overrides, AssignRead(w, c, d, o)
      PROVE  RowsOK' /\ HeldInv' /\ UNCHANGED req
  <2> DEFINE s == [Idle EXCEPT !.pc = "assignDnp", !.new = {c}, !.duty = d, !.over = o,
                               !.on = OnFlight, !.op = Operating]
  <2>1. s \in LocalState /\ s.mine = {}
    BY OverrideAssumption DEF Idle, LocalState, OnFlight, Operating
  <2>2. Become(w, s) /\ UNCHANGED <<duty, req, owner>>
    BY <1>1 DEF AssignRead
  <2> QED BY <2>1, <2>2, MoveStep
<1>2. CASE AssignGates(w) \/ ReplaceGate(w) \/ DutyFail(w) \/ DutyRead(w) \/ DutyEnd(w)
  <2>1. PICK s \in LocalState :
          /\ Become(w, s) /\ UNCHANGED <<duty, req, owner>>
          /\ s.mine # {} => s.mine = worker[w].mine /\ (s.pc \in Connected => worker[w].pc \in Connected)
    <3>1. \A p \in {"assignInsert", "replaceInsert", "dutyRollback"} :
            LET s == [worker[w] EXCEPT !.pc = p]
            IN  s \in LocalState /\ s.mine = worker[w].mine /\ s.pc = p
      BY DEF LocalState
    <3>2. LET s == [worker[w] EXCEPT !.pc = "dutyInsert", !.new = @ \ OnFlight]
          IN  s \in LocalState /\ s.mine = worker[w].mine
      BY DEF LocalState
    <3>3. Idle.mine = {}
      BY DEF Idle
    <3> QED BY <1>2, <3>1, <3>2, <3>3 DEF AssignGates, ReplaceGate, DutyFail, DutyRead, DutyEnd, Connected
  <2> QED BY <2>1, MoveStep
<1>3. CASE AssignInsert(w)
  <2>1. PICK c \in worker[w].new :
          IF c \in OnFlight THEN UNCHANGED <<duty, owner>> ELSE InsertRow(c, worker[w].duty, w)
    BY <1>3 DEF AssignInsert
  <2>2. c \in Crew /\ worker[w].duty \in Duties /\ Become(w, Idle) /\ UNCHANGED req
    BY <1>3, <2>1 DEF AssignInsert, LocalState
  <2>3. Idle.mine = {} /\ Idle.pc \notin Connected
    BY DEF Idle, Connected
  <2> QED BY <2>1, <2>2, <2>3, MoveStep, InsertStep
<1>4. ASSUME NEW c \in Crew, Remove(w, c)
      PROVE  RowsOK' /\ HeldInv' /\ UNCHANGED req
  <2>1. Idle.mine = {} /\ Idle.pc \notin Connected
    BY DEF Idle, Connected
  <2> QED BY <1>4, <2>1, DeleteStep DEF Remove
<1>5. ASSUME NEW old \in Crew, NEW new \in Crew, ReplaceRead(w, old, new)
      PROVE  RowsOK' /\ HeldInv' /\ UNCHANGED req
  <2> DEFINE s == [Idle EXCEPT !.pc = "replaceDnp", !.new = {new}, !.old = {old}, !.mine = {old},
                               !.duty = duty[old], !.on = OnFlight \ {old}]
  <2>1. duty[old] \in Duties /\ s \in LocalState /\ s.mine = {old} /\ s.pc \notin Connected
    BY <1>5 DEF ReplaceRead, Idle, LocalState, OnFlight, RowsOK, Connected
  <2>2. Become(w, s) /\ UNCHANGED <<duty, req, owner>> /\ duty[old] # "none"
    BY <1>5 DEF ReplaceRead, OnFlight
  <2> QED BY <2>1, <2>2 DEF RowsOK, HeldInv, HeldRows, Deployed, Become
<1>6. CASE ReplaceInsert(w)
  <2>1. PICK c \in worker[w].new :
          IF c \in OnFlight THEN UNCHANGED <<duty, owner>> /\ Finish(w)
          ELSE InsertRow(c, worker[w].duty, w) /\ Goto(w, "replaceDelete")
    BY <1>6 DEF ReplaceInsert
  <2> DEFINE s == [worker[w] EXCEPT !.pc = "replaceDelete"]
  <2>2. c \in Crew /\ worker[w].duty \in Duties /\ UNCHANGED req
    BY <1>6, <2>1 DEF ReplaceInsert, LocalState
  <2>3. s \in LocalState /\ s.mine = worker[w].mine /\ s.pc \notin Connected /\ Idle.mine = {}
    BY DEF LocalState, Connected, Idle
  <2> QED BY <2>1, <2>2, <2>3, MoveStep, InsertStep
<1>7. CASE ReplaceDelete(w)
  <2>1. DeleteRows(worker[w].mine, w, Idle) /\ UNCHANGED req
    BY <1>7 DEF ReplaceDelete
  <2>2. worker[w].mine \in SUBSET Crew /\ Idle.mine = {} /\ Idle.pc \notin Connected
    BY DEF LocalState, Idle, Connected
  <2> QED BY <2>1, <2>2, DeleteStep
<1>8. ASSUME NEW C \in SUBSET Crew, NEW o \in Overrides, DutyGate(w, C, o)
      PROVE  RowsOK' /\ HeldInv' /\ UNCHANGED req
  <2> DEFINE s == [Idle EXCEPT !.pc = "dutyRead", !.new = C, !.over = o]
  <2>1. s \in LocalState /\ s.mine = {}
    BY OverrideAssumption DEF Idle, LocalState
  <2>2. Become(w, s) /\ UNCHANGED <<duty, req, owner>>
    BY <1>8 DEF DutyGate
  <2> QED BY <2>1, <2>2, MoveStep
<1>9. ASSUME NEW c \in Crew, DutyInsert(w, c)
      PROVE  RowsOK' /\ HeldInv' /\ UNCHANGED req
  <2> DEFINE s == [worker[w] EXCEPT !.new = @ \ {c}, !.mine = @ \cup {c}]
  <2>1. s \in LocalState /\ s.mine = worker[w].mine \cup {c} /\ s.pc = worker[w].pc
    BY DEF LocalState
  <2>2. /\ c \in Crew \ OnFlight /\ InsertRow(c, "operating", w) /\ Become(w, s)
        /\ UNCHANGED req /\ "operating" \in Duties
    BY <1>9 DEF DutyInsert, Duties
  <2> QED BY <2>1, <2>2, InsertStep
<1>10. ASSUME NEW c \in Crew, DutyRollback(w, c)
       PROVE  RowsOK' /\ HeldInv' /\ UNCHANGED req
  BY <1>10, DeleteStep DEF DutyRollback
<1> QED BY <1>1, <1>2, <1>3, <1>4, <1>5, <1>6, <1>7, <1>8, <1>9, <1>10 DEF Handler

LEMMA StepInv ==
  ASSUME TypeOK, HeldInv, [Next]_vars
  PROVE  TypeOK' /\ HeldInv'
<1> RowsOK /\ req \in [Requests -> [pair : Pairs, status : DnpStatuses]]
  BY DEF TypeOK, RowsOK
<1>1. CASE Desk
  <2>1. UNCHANGED <<duty, worker, owner>>
    BY <1>1 DEF Desk, CreateRequest, ReviewRequest, CancelRequest
  <2>2. req' \in [Requests -> [pair : Pairs, status : DnpStatuses]]
    BY <1>1 DEF Desk, CreateRequest, ReviewRequest, CancelRequest, DnpStatuses
  <2> QED BY <2>1, <2>2 DEF TypeOK, RowsOK, HeldInv, HeldRows, Deployed
<1>2. CASE \E w \in Deployed : Handler(w)
  BY <1>2, HandlerStep DEF TypeOK, RowsOK
<1>3. CASE UNCHANGED vars
  BY <1>3 DEF vars, TypeOK, HeldInv, HeldRows, Deployed
<1> QED BY <1>1, <1>2, <1>3 DEF Next

LEMMA InitInv == Init => TypeOK /\ HeldInv
<1> SUFFICES ASSUME Init PROVE TypeOK /\ HeldInv
  OBVIOUS
<1>1. PICK W \in SUBSET Workers : worker = [w \in W |-> Idle]
  BY DEF Init
<1>2. Deployed = W /\ \A w \in Deployed : worker[w] = Idle
  BY <1>1 DEF Deployed
<1>3. TypeOK
  BY <1>1, <1>2, IdleState DEF Init, TypeOK, DnpStatuses
<1> QED BY <1>2, <1>3 DEF HeldInv, HeldRows, Idle

----------------------------------------------------------------------------
\* Every variable of the roster model keeps its type.
THEOREM TypeCorrect == Spec => []TypeOK
<1>1. TypeOK /\ HeldInv /\ [Next]_vars => TypeOK' /\ HeldInv'
  BY StepInv
<1> QED BY <1>1, InitInv, PTL DEF Spec

\* The rollback of POST /connected-duty: however many instances assign, replace
\* and remove meanwhile, it deletes only rows that very request inserted.
THEOREM RollbackDeletesOwnRows == Spec => RollbackIsOwn
<1> DEFINE own == \A w \in Deployed, c \in Crew :
                   (\E x \in Crew : DutyRollback(w, x)) /\ duty[c] # "none" /\ duty'[c] = "none" =>
                     owner[c] = {w}
<1>1. TypeOK /\ HeldInv /\ [Next]_vars => TypeOK' /\ HeldInv'
  BY StepInv
<1>2. HeldInv => own
  <2> SUFFICES ASSUME HeldInv, NEW w \in Deployed, NEW c \in Crew, NEW x \in Crew,
                      DutyRollback(w, x), duty[c] # "none", duty'[c] = "none"
               PROVE  owner[c] = {w}
    OBVIOUS
  <2>1. x \in worker[w].mine /\ worker[w].pc \in Connected /\ c = x
    BY DEF DutyRollback, DeleteRows, At, Connected
  <2> QED BY <2>1 DEF HeldInv, HeldRows
<1> HIDE DEF own
<1>3. HeldInv => [own]_vars
  BY <1>2
<1>4. Spec => [][own]_vars
  BY <1>1, <1>3, InitInv, PTL DEF Spec
<1> QED BY <1>4 DEF RollbackIsOwn, own

----------------------------------------------------------------------------
(* The two gates, where one process serves every request.                  *)

Apart(A, B) == \A a \in A, b \in B : ~Incompatible(a, b)

Single(C) == \E c \in Crew : C = {c}

\* What a handler has read or decided is so when it writes: k is what it executes,
\* on and op are the members on the flight and those operating it.
GateSound(k, on, op) ==
  /\ k.pc \in {"assignDnp", "assignInsert"} => Single(k.new) /\ k.on = on /\ k.op = op
  /\ k.pc = "assignInsert" =>
       /\ Apart(k.new, on)
       /\ \/ k.over \/ k.duty # "operating"
          \/ \A c \in k.new : Cardinality(In(op, Position[c])) < Cap[Position[c]]
  /\ k.pc \in {"replaceDnp", "replaceInsert"} => Single(k.new) /\ k.on = on \ k.mine
  /\ k.pc = "replaceInsert" => Apart(k.new, k.on)
  /\ k.pc = "replaceDelete" =>
       Single(k.new) /\ on \ k.mine \subseteq k.on \cup k.new /\ Apart(k.new, k.on)
  /\ k.pc = "dutyRead" /\ ~k.over =>
       \A p \in Counted : Cardinality(In(on, p)) + Cardinality(In(k.new, p)) <= Cap[p]
  /\ k.pc = "dutyInsert" /\ ~k.over =>
       \A p \in Counted : Cardinality(In(on \cup k.new, p)) <= Cap[p]

GateInv ==
  /\ TypeOK /\ HeldInv
  /\ OneInstance => \A w \in Deployed : GateSound(worker[w], OnFlight, Operating)

LEMMA FiniteIn ==
  ASSUME NEW C \in SUBSET Crew, NEW p
  PROVE  IsFiniteSet(In(C, p)) /\ Cardinality(In(C, p)) \in Nat
<1>1. In(C, p) \in SUBSET Crew
  BY DEF In
<1> QED BY <1>1, CrewAssumption, FS_Subset, FS_CardinalityType

LEMMA LessIn ==
  ASSUME NEW C \in SUBSET Crew, NEW D \in SUBSET C, NEW p
  PROVE  Cardinality(In(D, p)) <= Cardinality(In(C, p))
<1>1. In(D, p) \in SUBSET In(C, p)
  BY DEF In
<1> QED BY <1>1, FiniteIn, FS_Subset

LEMMA SumIn ==
  ASSUME NEW C \in SUBSET Crew, NEW D \in SUBSET Crew, NEW p
  PROVE  Cardinality(In(C \cup D, p)) <= Cardinality(In(C, p)) + Cardinality(In(D, p))
<1>1. In(C \cup D, p) = In(C, p) \cup In(D, p)
  BY DEF In
<1>2. /\ IsFiniteSet(In(C, p)) /\ IsFiniteSet(In(D, p))
      /\ Cardinality(In(C, p)) \in Nat /\ Cardinality(In(D, p)) \in Nat
  BY FiniteIn
<1>3. Cardinality(In(C, p) \cap In(D, p)) \in Nat
  BY <1>2, FS_Intersection, FS_CardinalityType
<1>4. Cardinality(In(C, p) \cup In(D, p)) =
        Cardinality(In(C, p)) + Cardinality(In(D, p)) - Cardinality(In(C, p) \cap In(D, p))
  BY <1>2, FS_Union
<1>5. \A a, b, i \in Nat : a + b - i <= a + b
  OBVIOUS
<1> QED BY <1>1, <1>2, <1>3, <1>4, <1>5, Zenon

\* One member more.
LEMMA OneMoreIn ==
  ASSUME NEW C \in SUBSET Crew, NEW c \in Crew
  PROVE  Cardinality(In(C \cup {c}, Position[c])) <= Cardinality(In(C, Position[c])) + 1
<1>1. In(C \cup {c}, Position[c]) = In(C, Position[c]) \cup {c}
  BY DEF In
<1>2. IsFiniteSet(In(C, Position[c])) /\ Cardinality(In(C, Position[c])) \in Nat
  BY FiniteIn
<1>3. \A n \in Nat : n <= n + 1 /\ n + 1 <= n + 1
  OBVIOUS
<1>4. Cardinality(In(C, Position[c]) \cup {c}) \in
        {Cardinality(In(C, Position[c])), Cardinality(In(C, Position[c])) + 1}
  BY <1>2, FS_AddElement
<1> QED BY <1>1, <1>2, <1>3, <1>4, Zenon

\* A handler's moves that leave the roster as it is.
LEMMA GateMoves ==
  ASSUME GateInv, OneInstance, NEW w \in Deployed,
         \/ \E c \in Crew, d \in Duties, o \in Overrides : AssignRead(w, c, d, o)
         \/ AssignGates(w)
         \/ \E old, new \in Crew : ReplaceRead(w, old, new)
         \/ ReplaceGate(w)
         \/ \E C \in SUBSET Crew, o \in Overrides : C # {} /\ DutyGate(w, C, o)
         \/ DutyRead(w) \/ DutyFail(w) \/ DutyEnd(w)
  PROVE  GateSound(worker[w], OnFlight, Operating)'
<1> USE DEF GateInv
<1>t. /\ worker[w] \in LocalState
      /\ GateSound(worker[w], OnFlight, Operating)
      /\ OnFlight \subseteq Crew /\ Operating \subseteq Crew
  BY DEF TypeOK, OnFlight, Operating
<1>b. ASSUME NEW s, Become(w, s) PROVE worker'[w] = s
  BY <1>b DEF TypeOK, Become
<1>u. ASSUME UNCHANGED <<duty, req, owner>>
      PROVE  OnFlight' = OnFlight /\ Operating' = Operating /\ \A A, B : Apart(A, B)' = Apart(A, B)
  BY <1>u DEF OnFlight, Operating, Apart, Incompatible
<1>f. Idle.pc = "idle"
  BY DEF Idle
<1>1. ASSUME NEW c \in Crew, NEW d \in Duties, NEW o \in Overrides, AssignRead(w, c, d, o)
      PROVE  GateSound(worker[w], OnFlight, Operating)'
  <2> DEFINE s == [Idle EXCEPT !.pc = "assignDnp", !.new = {c}, !.duty = d, !.over = o,
                               !.on = OnFlight, !.op = Operating]
  <2>1. s.pc = "assignDnp" /\ s.new = {c} /\ s.on = OnFlight /\ s.op = Operating
    BY DEF Idle
  <2>2. Become(w, s) /\ UNCHANGED <<duty, req, owner>>
    BY <1>1 DEF AssignRead
  <2> HIDE DEF s
  <2>3. worker'[w] = s
    BY <2>2, <1>b
  <2>4. QED
    BY <2>1, <2>2, <2>3, <1>u DEF GateSound, Single
<1>2. CASE AssignGates(w)
  <2>1. worker[w].pc = "assignDnp" /\ UNCHANGED <<duty, req, owner>>
    BY <1>2 DEF AssignGates, At
  <2>2. CASE Finish(w)
    BY <2>2, <1>b, <1>f DEF GateSound, Finish
  <2>3. CASE KeptApart(w) /\ HasRoom(w) /\ Goto(w, "assignInsert")
    <3> DEFINE s == [worker[w] EXCEPT !.pc = "assignInsert"]
    <3>1. /\ s.pc = "assignInsert" /\ s.new = worker[w].new /\ s.on = worker[w].on
          /\ s.op = worker[w].op /\ s.over = worker[w].over /\ s.duty = worker[w].duty
      BY <1>t DEF LocalState
    <3>2. Become(w, s)
      BY <2>3 DEF Goto
    <3> HIDE DEF s
    <3>3. worker'[w] = s
      BY <3>2, <1>b
    <3>4. /\ Single(worker[w].new) /\ worker[w].on = OnFlight /\ worker[w].op = Operating
          /\ Apart(worker[w].new, OnFlight)
      BY <1>t, <2>1, <2>3 DEF GateSound, KeptApart, Apart
    <3>5. QED
      BY <2>1, <2>3, <3>1, <3>3, <3>4, <1>u DEF GateSound, HasRoom, Single
  <2>4. QED
    BY <1>2, <2>2, <2>3 DEF AssignGates
<1>3. ASSUME NEW old \in Crew, NEW new \in Crew, ReplaceRead(w, old, new)
      PROVE  GateSound(worker[w], OnFlight, Operating)'
  <2> DEFINE s == [Idle EXCEPT !.pc = "replaceDnp", !.new = {new}, !.old = {old}, !.mine = {old},
                               !.duty = duty[old], !.on = OnFlight \ {old}]
  <2>1. s.pc = "replaceDnp" /\ s.new = {new} /\ s.mine = {old} /\ s.on = OnFlight \ {old}
    BY DEF Idle
  <2>2. Become(w, s) /\ UNCHANGED <<duty, req, owner>>
    BY <1>3 DEF ReplaceRead
  <2> HIDE DEF s
  <2>3. worker'[w] = s
    BY <2>2, <1>b
  <2>4. QED
    BY <2>1, <2>2, <2>3, <1>u DEF GateSound, Single
<1>4. CASE ReplaceGate(w)
  <2>1. worker[w].pc = "replaceDnp" /\ UNCHANGED <<duty, req, owner>>
    BY <1>4 DEF ReplaceGate, At
  <2>2. CASE Finish(w)
    BY <2>2, <1>b, <1>f DEF GateSound, Finish
  <2>3. CASE KeptApart(w) /\ Goto(w, "replaceInsert")
    <3> DEFINE s == [worker[w] EXCEPT !.pc = "replaceInsert"]
    <3>1. /\ s.pc = "replaceInsert" /\ s.new = worker[w].new /\ s.on = worker[w].on
          /\ s.mine = worker[w].mine
      BY <1>t DEF LocalState
    <3>2. Become(w, s)
      BY <2>3 DEF Goto
    <3> HIDE DEF s
    <3>3. worker'[w] = s
      BY <3>2, <1>b
    <3>4. /\ Single(worker[w].new) /\ worker[w].on = OnFlight \ worker[w].mine
          /\ Apart(worker[w].new, worker[w].on)
      BY <1>t, <2>1, <2>3 DEF GateSound, KeptApart, Apart
    <3>5. QED
      BY <2>1, <3>1, <3>3, <3>4, <1>u DEF GateSound, Single
  <2>4. QED
    BY <1>4, <2>2, <2>3 DEF ReplaceGate
<1>5. ASSUME NEW C \in SUBSET Crew, NEW o \in Overrides, DutyGate(w, C, o)
      PROVE  GateSound(worker[w], OnFlight, Operating)'
  <2> DEFINE s == [Idle EXCEPT !.pc = "dutyRead", !.new = C, !.over = o]
  <2>1. s.pc = "dutyRead" /\ s.new = C /\ s.over = o
    BY DEF Idle
  <2>2. Become(w, s) /\ UNCHANGED <<duty, req, owner>> /\ (o \/ DutyFits(C))
    BY <1>5 DEF DutyGate
  <2> HIDE DEF s
  <2>3. worker'[w] = s
    BY <2>2, <1>b
  <2>4. QED
    BY <2>1, <2>2, <2>3, <1>u DEF GateSound, DutyFits
<1>6. CASE DutyRead(w)
  <2> DEFINE s == [worker[w] EXCEPT !.pc = "dutyInsert", !.new = @ \ OnFlight]
  <2>1. s.pc = "dutyInsert" /\ s.new = worker[w].new \ OnFlight /\ s.over = worker[w].over
    BY <1>t DEF LocalState
  <2>2. worker[w].pc = "dutyRead" /\ Become(w, s) /\ UNCHANGED <<duty, req, owner>>
    BY <1>6 DEF DutyRead, At
  <2> HIDE DEF s
  <2>3. worker'[w] = s
    BY <2>2, <1>b
  <2>4. ASSUME ~worker[w].over, NEW p \in Counted
        PROVE  Cardinality(In(OnFlight \cup s.new, p)) <= Cap[p]
    <3>1. worker[w].new \subseteq Crew /\ OnFlight \cup s.new = OnFlight \cup worker[w].new
      BY <1>t, <2>1 DEF LocalState
    <3>2. Cardinality(In(OnFlight, p)) + Cardinality(In(worker[w].new, p)) <= Cap[p]
      BY <1>t, <2>2, <2>4 DEF GateSound
    <3>3. Cardinality(In(OnFlight \cup worker[w].new, p))
            <= Cardinality(In(OnFlight, p)) + Cardinality(In(worker[w].new, p))
      BY <1>t, <3>1, SumIn
    <3>4. /\ Cardinality(In(OnFlight, p)) \in Nat /\ Cardinality(In(worker[w].new, p)) \in Nat
          /\ Cardinality(In(OnFlight \cup worker[w].new, p)) \in Nat /\ Cap[p] \in Nat
      BY <1>t, <3>1, FiniteIn, PositionAssumption
    <3>5. \A a, b, n, m \in Nat : n <= a + b /\ a + b <= m => n <= m
      OBVIOUS
    <3>6. QED BY <3>1, <3>2, <3>3, <3>4, <3>5, Zenon
  <2>5. QED
    BY <2>1, <2>2, <2>3, <2>4, <1>u DEF GateSound
<1>7. CASE DutyFail(w)
  <2> DEFINE s == [worker[w] EXCEPT !.pc = "dutyRollback"]
  <2>1. s.pc = "dutyRollback"
    BY <1>t DEF LocalState
  <2>2. Become(w, s)
    BY <1>7 DEF DutyFail, Goto
  <2> HIDE DEF s
  <2>3. QED
    BY <2>1, <2>2, <1>b DEF GateSound
<1>8. CASE DutyEnd(w)
  BY <1>8, <1>b, <1>f DEF DutyEnd, Finish, GateSound
<1> QED BY <1>1, <1>2, <1>3, <1>4, <1>5, <1>6, <1>7, <1>8

\* A handler's writes.
LEMMA GateWrites ==
  ASSUME GateInv, OneInstance, NEW w \in Deployed,
         \/ AssignInsert(w) \/ ReplaceInsert(w) \/ ReplaceDelete(w)
         \/ \E c \in Crew : Remove(w, c) \/ DutyInsert(w, c) \/ DutyRollback(w, c)
  PROVE  GateSound(worker[w], OnFlight, Operating)'
<1> USE DEF GateInv
<1>t. /\ worker[w] \in LocalState
      /\ GateSound(worker[w], OnFlight, Operating)
      /\ duty \in [Crew -> Duties \cup {"none"}]
  BY DEF TypeOK
<1>b. ASSUME NEW s, Become(w, s) PROVE worker'[w] = s
  BY <1>b DEF TypeOK, Become
<1>f. Idle.pc = "idle"
  BY DEF Idle
<1>i. ASSUME NEW c \in Crew, NEW d \in Duties, InsertRow(c, d, w)
      PROVE  OnFlight' = OnFlight \cup {c}
  BY <1>t, <1>i DEF InsertRow, OnFlight, Duties
<1>a. ASSUME UNCHANGED req PROVE \A A, B : Apart(A, B)' = Apart(A, B)
  BY <1>a DEF Apart, Incompatible
<1>1. CASE AssignInsert(w)
  BY <1>1, <1>b, <1>f DEF AssignInsert, Finish, GateSound
<1>2. ASSUME NEW S, NEW s, s \in LocalState, s.pc \in {"idle", "dutyRollback"},
             DeleteRows(S, w, s)
      PROVE  GateSound(worker[w], OnFlight, Operating)'
  <2>1. worker'[w] = [s EXCEPT !.mine = @ \ S]
    BY <1>2 DEF DeleteRows
  <2>2. worker'[w].pc \in {"idle", "dutyRollback"}
    BY <1>2, <2>1 DEF LocalState
  <2>3. QED
    BY <2>2 DEF GateSound
<1>3. CASE ReplaceDelete(w) \/ \E c \in Crew : Remove(w, c) \/ DutyRollback(w, c)
  <2>1. CASE ReplaceDelete(w)
    BY <2>1, <1>2, <1>f, IdleState DEF ReplaceDelete
  <2>2. ASSUME NEW c \in Crew, Remove(w, c) PROVE GateSound(worker[w], OnFlight, Operating)'
    BY <2>2, <1>2, <1>f, IdleState DEF Remove
  <2>3. ASSUME NEW c \in Crew, DutyRollback(w, c)
        PROVE  GateSound(worker[w], OnFlight, Operating)'
    BY <2>3, <1>2, <1>t DEF DutyRollback, At
  <2>4. QED BY <1>3, <2>1, <2>2, <2>3
<1>4. CASE ReplaceInsert(w)
  <2>1. worker[w].pc = "replaceInsert" /\ UNCHANGED req
    BY <1>4 DEF ReplaceInsert, At
  <2>2. PICK c \in worker[w].new :
          IF c \in OnFlight THEN UNCHANGED <<duty, owner>> /\ Finish(w)
          ELSE InsertRow(c, worker[w].duty, w) /\ Goto(w, "replaceDelete")
    BY <1>4 DEF ReplaceInsert
  <2>3. CASE c \in OnFlight
    BY <2>2, <2>3, <1>b, <1>f DEF Finish, GateSound
  <2>4. CASE c \notin OnFlight
    <3> DEFINE s == [worker[w] EXCEPT !.pc = "replaceDelete"]
    <3>1. /\ s.pc = "replaceDelete" /\ s.new = worker[w].new /\ s.on = worker[w].on
          /\ s.mine = worker[w].mine
      BY <1>t DEF LocalState
    <3>2. Become(w, s) /\ InsertRow(c, worker[w].duty, w)
      BY <2>2, <2>4 DEF Goto
    <3> HIDE DEF s
    <3>3. worker'[w] = s
      BY <3>2, <1>b
    <3>4. OnFlight' = OnFlight \cup {c}
      BY <1>t, <2>2, <3>2, <1>i DEF LocalState
    <3>5. /\ Single(worker[w].new) /\ worker[w].on = OnFlight \ worker[w].mine
          /\ Apart(worker[w].new, worker[w].on)
      BY <1>t, <2>1 DEF GateSound
    <3>6. QED
      BY <2>1, <2>2, <3>1, <3>3, <3>4, <3>5, <1>a DEF GateSound, Single
  <2>5. QED BY <2>3, <2>4
<1>5. ASSUME NEW c \in Crew, DutyInsert(w, c)
      PROVE  GateSound(worker[w], OnFlight, Operating)'
  <2> DEFINE s == [worker[w] EXCEPT !.new = @ \ {c}, !.mine = @ \cup {c}]
  <2>1. /\ worker[w].pc = "dutyInsert" /\ c \in worker[w].new
        /\ InsertRow(c, "operating", w) /\ Become(w, s)
    BY <1>5 DEF DutyInsert, At
  <2>2. s.pc = "dutyInsert" /\ s.new = worker[w].new \ {c} /\ s.over = worker[w].over
    BY <1>t, <2>1 DEF LocalState
  <2> HIDE DEF s
  <2>3. worker'[w] = s
    BY <2>1, <1>b
  <2>4. OnFlight' = OnFlight \cup {c}
    BY <2>1, <1>i DEF Duties
  <2>5. OnFlight' \cup s.new = OnFlight \cup worker[w].new
    BY <2>1, <2>2, <2>4
  <2>6. QED
    BY <1>t, <2>1, <2>2, <2>3, <2>5 DEF GateSound
<1> QED BY <1>1, <1>3, <1>4, <1>5

\* No handler changes which instances are deployed.
LEMMA HandlerDeployed ==
  ASSUME TypeOK, NEW w \in Deployed, Handler(w)
  PROVE  Deployed' = Deployed
<1>1. worker \in [Deployed -> LocalState]
  BY DEF TypeOK
<1>2. ASSUME NEW s, Become(w, s) PROVE DOMAIN worker' = DOMAIN worker
  BY <1>1, <1>2 DEF Become
<1>3. ASSUME NEW S, NEW s, DeleteRows(S, w, s) PROVE DOMAIN worker' = DOMAIN worker
  BY <1>3 DEF DeleteRows, Deployed
<1>4. \/ \E s : Become(w, s)
      \/ \E S, s : DeleteRows(S, w, s)
  BY DEF Handler, AssignRead, AssignGates, AssignInsert, Remove, ReplaceRead, ReplaceGate,
         ReplaceInsert, ReplaceDelete, DutyGate, DutyRead, DutyFail, DutyEnd, DutyInsert,
         DutyRollback, Goto, Finish, At
<1> QED BY <1>2, <1>3, <1>4 DEF Deployed

LEMMA GateInvariant == Spec => []GateInv
<1>1. Init => GateInv
  <2> SUFFICES ASSUME Init PROVE GateInv
    OBVIOUS
  <2>1. \A w \in Deployed : worker[w].pc = "idle"
    BY DEF Init, Deployed, Idle
  <2>2. QED
    BY <2>1, InitInv DEF GateInv, GateSound
<1>2. GateInv /\ [Next]_vars => GateInv'
  <2> SUFFICES ASSUME GateInv, [Next]_vars PROVE GateInv'
    OBVIOUS
  <2>1. TypeOK' /\ HeldInv'
    BY StepInv DEF GateInv
  <2>2. ASSUME OneInstance', NEW v \in Deployed' PROVE GateSound(worker[v], OnFlight, Operating)'
    <3>1. CASE UNCHANGED vars
      <4>1. OneInstance /\ v \in Deployed
        BY <3>1, <2>2 DEF vars, OneInstance, Deployed
      <4>2. QED
        BY <3>1, <4>1 DEF GateInv, GateSound, Apart, Incompatible, OnFlight, Operating, vars
    <3>2. CASE Desk
      <4>1. worker' = worker /\ \E w \in Deployed : worker[w].pc = "idle"
        BY <3>2 DEF Desk, CreateRequest, ReviewRequest, CancelRequest, Served, At
      <4>2. worker'[v].pc = "idle"
        BY <2>2, <4>1 DEF OneInstance, Deployed
      <4>3. QED
        BY <4>2 DEF GateSound
    <3>3. ASSUME NEW w \in Deployed, Handler(w)
          PROVE  GateSound(worker[v], OnFlight, Operating)'
      <4>1. Deployed' = Deployed
        BY <3>3, HandlerDeployed DEF GateInv
      <4>2. OneInstance /\ v = w
        BY <2>2, <4>1 DEF OneInstance
      <4>3. QED
        BY <3>3, <4>2, GateMoves, GateWrites DEF Handler
    <3>4. QED BY <3>1, <3>2, <3>3 DEF Next
  <2>3. QED
    BY <2>1, <2>2 DEF GateInv
<1> QED BY <1>1, <1>2, PTL DEF Spec

\* The step that changes the roster is one of the only process there is.
LEMMA Landing ==
  ASSUME GateInv, OneInstance, Next, NEW w \in Deployed, duty' # duty
  PROVE  Handler(w)
<1>1. ~Desk
  BY DEF Desk, CreateRequest, ReviewRequest, CancelRequest
<1> QED BY <1>1 DEF Next, OneInstance

LEMMA NobodyIsKeptFromHimself ==
  ASSUME TypeOK, NEW c \in Crew
  PROVE  ~Incompatible(c, c)
<1> SUFFICES ASSUME NEW r \in Requests, req[r].pair = <<c, c>> PROVE FALSE
  BY DEF Incompatible
<1>1. req[r].pair \in Pairs
  BY DEF TypeOK
<1> QED BY <1>1, PairAssumption

\* With one process, no assignment, overridden or not, and no replacement leaves a
\* member on the flight with one whom an approved request keeps him from
\* (create_assignment, replace_crew).
THEOREM PairsStayApart == Spec => PairsKeptApart
<1> DEFINE apart == \A w \in Deployed : OneInstance =>
       (Lands(w, "assignInsert") \/ Lands(w, "replaceDelete") =>
         \A a \in worker[w].new, b \in Crew :
           duty'[a] # "none" /\ duty'[b] # "none" => ~Incompatible(a, b))
<1>1. GateInv /\ [Next]_vars => [apart]_vars
  <2> SUFFICES ASSUME GateInv, Next, NEW w \in Deployed, OneInstance,
                      Lands(w, "assignInsert") \/ Lands(w, "replaceDelete"),
                      NEW a \in worker[w].new, NEW b \in Crew,
                      duty'[a] # "none", duty'[b] # "none"
               PROVE  ~Incompatible(a, b)
    OBVIOUS
  <2> USE DEF GateInv
  <2>1. Handler(w) /\ duty' # duty /\ worker[w].pc \in {"assignInsert", "replaceDelete"}
    BY Landing DEF Lands, At
  <2>2. GateSound(worker[w], OnFlight, Operating) /\ worker[w] \in LocalState
    BY DEF TypeOK
  <2>3. Single(worker[w].new)
    BY <2>1, <2>2 DEF GateSound
  <2>4. a \in Crew /\ worker[w].new = {a} /\ ~Incompatible(a, a)
    BY <2>3, NobodyIsKeptFromHimself DEF Single
  <2>5. CASE worker[w].pc = "assignInsert"
    <3>1. AssignInsert(w)
      BY <2>1, <2>5 DEF Handler, At, AssignRead, AssignGates, Remove, ReplaceRead, ReplaceGate,
            ReplaceInsert, ReplaceDelete, DutyGate, DutyRead, DutyFail, DutyEnd, DutyInsert,
            DutyRollback
    <3>2. duty' = [duty EXCEPT ![a] = worker[w].duty]
      BY <2>1, <2>4, <3>1 DEF AssignInsert, InsertRow
    <3>3. b = a \/ b \in OnFlight
      BY <3>2 DEF TypeOK, OnFlight
    <3>4. QED
      BY <2>2, <2>4, <2>5, <3>3 DEF GateSound, Apart
  <2>6. CASE worker[w].pc = "replaceDelete"
    <3>1. ReplaceDelete(w)
      BY <2>1, <2>6 DEF Handler, At, AssignRead, AssignGates, Remove, ReplaceRead, ReplaceGate,
            ReplaceInsert, AssignInsert, DutyGate, DutyRead, DutyFail, DutyEnd, DutyInsert,
            DutyRollback
    <3>2. duty' = [c \in Crew |-> IF c \in worker[w].mine THEN "none" ELSE duty[c]]
      BY <3>1 DEF ReplaceDelete, DeleteRows
    <3>3. b \in OnFlight \ worker[w].mine
      BY <3>2 DEF OnFlight
    <3>4. QED
      BY <2>2, <2>4, <2>6, <3>3 DEF GateSound, Apart
  <2>7. QED BY <2>1, <2>5, <2>6
<1> HIDE DEF apart
<1>2. Spec => [][apart]_vars
  BY <1>1, GateInvariant, PTL DEF Spec
<1> QED BY <1>2 DEF PairsKeptApart, apart

\* With one process, whoever is put on the flight without an override, by an
\* assignment or in a connected duty, keeps his position within the complement,
\* for any positions, ranks and caps (create_assignment, batch_connected_duty).
THEOREM PositionsKeepTheirCap == Spec => WithinCap
<1> DEFINE within == \A w \in Deployed : OneInstance /\ ~worker[w].over =>
       /\ Lands(w, "assignInsert") /\ worker[w].duty = "operating" =>
            \A c \in worker[w].new : ~Crowded(Position[c])'
       /\ Lands(w, "dutyInsert") =>
            \A c \in worker'[w].mine : Position[c] \in Counted => ~Crowded(Position[c])'
<1>1. GateInv /\ [Next]_vars => [within]_vars
  <2> SUFFICES ASSUME GateInv, Next, NEW w \in Deployed, OneInstance, ~worker[w].over,
                      duty' # duty
               PROVE  /\ At(w, "assignInsert") /\ worker[w].duty = "operating" =>
                           \A c \in worker[w].new : ~Crowded(Position[c])'
                      /\ At(w, "dutyInsert") =>
                           \A c \in worker'[w].mine :
                             Position[c] \in Counted => ~Crowded(Position[c])'
    BY DEF Lands
  <2> USE DEF GateInv
  <2>1. Handler(w)
    BY Landing
  <2>2. /\ GateSound(worker[w], OnFlight, Operating) /\ worker[w] \in LocalState
        /\ duty \in [Crew -> Duties \cup {"none"}]
        /\ OnFlight \subseteq Crew /\ Operating \subseteq Crew
    BY DEF TypeOK, OnFlight, Operating
  <2>c. \A p : Crowded(p)' <=> Cardinality(In(Operating', p)) > Cap[p]
    <3>1. \A p : In(Operating', p) = {c \in Crew : duty'[c] = "operating" /\ Position[c] = p}
      BY DEF In, Operating
    <3>2. QED BY <3>1 DEF Crowded
  <2>3. ASSUME At(w, "assignInsert"), worker[w].duty = "operating", NEW c \in worker[w].new
        PROVE  ~Crowded(Position[c])'
    <3>1. AssignInsert(w)
      BY <2>1, <2>3 DEF Handler, At, AssignRead, AssignGates, Remove, ReplaceRead, ReplaceGate,
            ReplaceInsert, ReplaceDelete, DutyGate, DutyRead, DutyFail, DutyEnd, DutyInsert,
            DutyRollback
    <3>2. Single(worker[w].new) /\ Cardinality(In(Operating, Position[c])) < Cap[Position[c]]
      BY <2>2, <2>3 DEF GateSound, At
    <3>3. c \in Crew /\ worker[w].new = {c}
      BY <3>2 DEF Single
    <3>4. duty' = [duty EXCEPT ![c] = "operating"]
      BY <2>3, <3>1, <3>3 DEF AssignInsert, InsertRow
    <3>5. Operating' = Operating \cup {c}
      BY <2>2, <3>3, <3>4 DEF Operating
    <3>6. Cardinality(In(Operating', Position[c])) <= Cardinality(In(Operating, Position[c])) + 1
      BY <2>2, <3>3, <3>5, OneMoreIn
    <3>7. /\ Operating' \subseteq Crew /\ Cap[Position[c]] \in Nat
          /\ Cardinality(In(Operating', Position[c])) \in Nat
          /\ Cardinality(In(Operating, Position[c])) \in Nat
      BY <2>2, <3>3, <3>5, FiniteIn, PositionAssumption
    <3>8. \A a, b, n \in Nat : a <= b + 1 /\ b < n => ~(a > n)
      OBVIOUS
    <3>9. QED BY <2>c, <3>2, <3>6, <3>7, <3>8, Zenon
  <2>4. ASSUME At(w, "dutyInsert"), NEW c \in worker'[w].mine, Position[c] \in Counted
        PROVE  ~Crowded(Position[c])'
    <3>1. PICK d \in Crew : DutyInsert(w, d)
      BY <2>1, <2>4 DEF Handler, At, AssignRead, AssignGates, AssignInsert, Remove, ReplaceRead,
            ReplaceGate, ReplaceInsert, ReplaceDelete, DutyGate, DutyRead, DutyFail, DutyEnd,
            DutyRollback
    <3>2. duty' = [duty EXCEPT ![d] = "operating"] /\ d \in worker[w].new
      BY <3>1 DEF DutyInsert, InsertRow
    <3> DEFINE C == OnFlight \cup worker[w].new
    <3>3. Operating' \subseteq C /\ C \subseteq Crew
      BY <2>2, <3>2 DEF Operating, OnFlight, LocalState
    <3>4. Cardinality(In(C, Position[c])) <= Cap[Position[c]]
      BY <2>2, <2>4 DEF GateSound, At
    <3> HIDE DEF C
    <3>5. Cardinality(In(Operating', Position[c])) <= Cardinality(In(C, Position[c]))
      BY <3>3, LessIn
    <3>6. /\ Cap[Position[c]] \in Nat
          /\ Cardinality(In(Operating', Position[c])) \in Nat
          /\ Cardinality(In(C, Position[c])) \in Nat
      BY <2>4, <3>3, FiniteIn, PositionAssumption
    <3>7. \A a, b, n \in Nat : a <= b /\ b <= n => ~(a > n)
      OBVIOUS
    <3>8. QED BY <2>c, <3>4, <3>5, <3>6, <3>7, Zenon
  <2>5. QED BY <2>3, <2>4
<1> HIDE DEF within
<1>2. Spec => [][within]_vars
  BY <1>1, GateInvariant, PTL DEF Spec
<1> QED BY <1>2 DEF WithinCap, within
=============================================================================
