--------------------------- MODULE PayrollProofs ---------------------------
(***************************************************************************)
(* A final payslip stands and every payslip adds up, for any crew,         *)
(* flights, rates and amounts, while one process serves every request.     *)
(***************************************************************************)
EXTENDS Payroll, Sums

SlipFields == {"pay", "additions", "deductions", "tax", "gross", "net", "finalized"}

IsSlip(s) == /\ DOMAIN s = SlipFields
             /\ s = [x \in SlipFields |-> s[x]]
             /\ s.finalized \in BOOLEAN

GenerateTasks ==
  [doing : {"generate"}, rates : [Staff -> Rates \cup {NoRate}], known : SUBSET Staff, todo : SUBSET Staff]

\* What a worker holds.
TasksOK ==
  /\ payer = [w \in DOMAIN payer |-> payer[w]]
  /\ \A w \in DOMAIN payer :
       /\ payer[w].doing = "generate" => payer[w] \in GenerateTasks
       /\ payer[w].doing = "patch" =>
            payer[w].crew \in Staff /\ payer[w].field \in Editable /\ Exists(payer[w].crew)

SlipsOK ==
  /\ slip = [c \in Staff |-> slip[c]]
  /\ \A c \in Staff : Exists(c) => IsSlip(slip[c])

\* The only worker holds no payslip that has become final since it read it.
NothingFinalHeld ==
  OnePayer =>
    \A w \in DOMAIN payer :
      /\ payer[w].doing = "generate" => \A c \in payer[w].todo : ~Final(c)
      /\ payer[w].doing = "patch" => ~Final(payer[w].crew)

FinalInv == /\ TasksOK /\ SlipsOK /\ NothingFinalHeld
            /\ active \subseteq Staff
            /\ rate \in [Staff -> Rates \cup {NoRate}]

----------------------------------------------------------------------------
LEMMA SlipIsNot == \A s : IsSlip(s) => s # NoSlip
<1> SUFFICES ASSUME NEW s, IsSlip(s), s = NoSlip PROVE FALSE
  OBVIOUS
<1>1. DOMAIN s = {"none"}
  BY DEF NoSlip
<1>2. "pay" \in DOMAIN s
  BY DEF IsSlip, SlipFields
<1> QED BY <1>1, <1>2

LEMMA NewIsSlip == \A pay : IsSlip(NewSlip(pay)) /\ ~NewSlip(pay).finalized
BY DEF IsSlip, SlipFields, NewSlip

\* An update of columns other than finalized leaves a payslip one, and final or not.
LEMMA UpdatedSlip ==
  ASSUME NEW s, IsSlip(s), NEW field \in Editable, NEW amount, NEW g, NEW n
  PROVE  LET u == [Edited(s, field, amount) EXCEPT !.gross = g, !.net = n]
         IN IsSlip(u) /\ u.finalized = s.finalized
<1> DEFINE e == Edited(s, field, amount)
           u == [e EXCEPT !.gross = g, !.net = n]
<1>1. IsSlip(e) /\ e.finalized = s.finalized
  BY DEF Edited, IsSlip, SlipFields, Editable
<1> HIDE DEF e
<1>2. IsSlip(u) /\ u.finalized = e.finalized
  BY <1>1 DEF IsSlip, SlipFields
<1> QED BY <1>1, <1>2 DEF e

LEMMA InitFinal == Init => FinalInv
<1> SUFFICES ASSUME Init PROVE FinalInv
  OBVIOUS
<1>1. \A w \in DOMAIN payer : payer[w].doing = "idle"
  BY DEF Init, Idle
<1>2. TasksOK
  <2>1. payer = [w \in DOMAIN payer |-> payer[w]]
    BY DEF Init
  <2> QED BY <1>1, <2>1 DEF TasksOK
<1>3. SlipsOK
  BY DEF SlipsOK, Init, Exists
<1> QED BY <1>1, <1>2, <1>3 DEF FinalInv, NothingFinalHeld, Init

----------------------------------------------------------------------------
\* One process, one step: what is final stays as it is.
LEMMA FinalStays ==
  ASSUME FinalInv, NEW w \in DOMAIN payer, Handler(w), OnePayer,
         NEW c \in Staff, Final(c)
  PROVE  slip'[c] = slip[c]
<1> USE DEF FinalInv, TasksOK, SlipsOK, NothingFinalHeld
<1>1. CASE GenerateSlip(w)
  <2>1. PICK d \in payer[w].todo : slip' = [slip EXCEPT ![d] = NewSlip(Components(d, payer[w].rates[d]))]
    BY <1>1 DEF GenerateSlip
  <2>2. d # c
    BY <1>1 DEF GenerateSlip
  <2> QED BY <2>1, <2>2
<1>2. CASE PatchWrite(w)
  <2>1. payer[w].crew # c
    BY <1>2 DEF PatchWrite
  <2> QED BY <1>2, <2>1 DEF PatchWrite
<1>3. CASE Finalize(w)
  <2>1. PICK d \in Staff : Exists(d) /\ slip' = [slip EXCEPT ![d].finalized = TRUE]
    BY <1>3 DEF Finalize
  <2>2. CASE d # c
    BY <2>1, <2>2
  <2>3. CASE d = c
    <3>1. slip'[c] = [slip[c] EXCEPT !.finalized = TRUE]
      BY <2>1, <2>3
    <3>2. IsSlip(slip[c]) /\ slip[c].finalized
      BY DEF Final
    <3> QED BY <3>1, <3>2 DEF IsSlip, SlipFields
  <2> QED BY <2>2, <2>3
<1>4. CASE slip' = slip
  BY <1>4
<1> QED BY <1>1, <1>2, <1>3, <1>4 DEF Handler, GenerateRead, GenerateMark, PatchRead, SetRate,
           SetCrewStatus, ChangeRoster, Killed

LEMMA SlipsKept ==
  ASSUME FinalInv, NEW w \in DOMAIN payer, Handler(w)
  PROVE  SlipsOK' /\ (\A c \in Staff : Exists(c) => Exists(c)')
<1> USE DEF FinalInv, TasksOK, SlipsOK
<1>1. CASE GenerateSlip(w)
  <2>1. PICK d \in payer[w].todo : slip' = [slip EXCEPT ![d] = NewSlip(Components(d, payer[w].rates[d]))]
    BY <1>1 DEF GenerateSlip
  <2>2. slip' = [c \in Staff |-> slip'[c]] /\ \A c \in Staff : slip'[c] = slip[c] \/ \E p : slip'[c] = NewSlip(p)
    BY <2>1
  <2> QED BY <2>2, NewIsSlip, SlipIsNot DEF Exists
<1>2. CASE PatchWrite(w)
  <2> DEFINE t == payer[w]
             new == Totals(Edited(t.row, t.field, t.amount))
             u == [Edited(slip[t.crew], t.field, t.amount) EXCEPT !.gross = new.gross, !.net = new.net]
  <2>1. t.crew \in Staff /\ t.field \in Editable /\ IsSlip(slip[t.crew])
    BY <1>2 DEF PatchWrite
  <2>2. slip' = [slip EXCEPT ![t.crew] = u]
    BY <1>2 DEF PatchWrite
  <2>3. IsSlip(u)
    BY <2>1, UpdatedSlip
  <2> HIDE DEF u, t
  <2>4. slip' = [c \in Staff |-> slip'[c]] /\ \A c \in Staff : slip'[c] = slip[c] \/ slip'[c] = u
    BY <2>1, <2>2
  <2> QED BY <2>3, <2>4, SlipIsNot DEF Exists
<1>3. CASE Finalize(w)
  <2>1. PICK d \in Staff : Exists(d) /\ slip' = [slip EXCEPT ![d].finalized = TRUE]
    BY <1>3 DEF Finalize
  <2>2. IsSlip([slip[d] EXCEPT !.finalized = TRUE])
    BY <2>1 DEF IsSlip, SlipFields
  <2>3. slip' = [c \in Staff |-> slip'[c]]
        /\ \A c \in Staff : slip'[c] = slip[c] \/ slip'[c] = [slip[d] EXCEPT !.finalized = TRUE]
    BY <2>1
  <2> QED BY <2>2, <2>3, SlipIsNot DEF Exists
<1>4. CASE slip' = slip
  BY <1>4 DEF Exists
<1> QED BY <1>1, <1>2, <1>3, <1>4 DEF Handler, GenerateRead, GenerateMark, PatchRead, SetRate,
           SetCrewStatus, ChangeRoster, Killed

\* A step changes one worker's task, or none.
LEMMA OneTask ==
  ASSUME FinalInv, NEW w \in DOMAIN payer, Handler(w)
  PROVE  \/ payer' = payer
         \/ \E task : /\ payer' = [payer EXCEPT ![w] = task]
                      /\ \/ task = Idle
                         \/ /\ task \in GenerateTasks
                            /\ \A c \in task.todo : ~Final(c)' \/ (payer[w].doing = "generate" /\ c \in payer[w].todo /\ slip'[c] = slip[c])
                         \/ /\ task.doing = "patch"
                            /\ task.crew \in Staff /\ task.field \in Editable
                            /\ Exists(task.crew)' /\ ~Final(task.crew)'
<1> USE DEF FinalInv
<1>1. CASE GenerateRead(w)
  <2> DEFINE task == [doing |-> "generate", rates |-> rate, known |-> {c \in Staff : Exists(c)},
                      todo |-> {c \in active : rate[c] # NoRate /\ ~Final(c)}]
  <2>1. task \in GenerateTasks
    BY DEF GenerateTasks
  <2>2. payer' = [payer EXCEPT ![w] = task] /\ slip' = slip
    BY <1>1 DEF GenerateRead, Begin
  <2>3. \A c \in task.todo : ~Final(c)'
    BY <2>2 DEF Final, Exists
  <2> QED BY <2>1, <2>2, <2>3
<1>2. CASE GenerateSlip(w)
  <2>1. PICK d \in payer[w].todo :
          /\ slip' = [slip EXCEPT ![d] = NewSlip(Components(d, payer[w].rates[d]))]
          /\ payer' = [payer EXCEPT ![w].todo = @ \ {d}]
    BY <1>2 DEF GenerateSlip
  <2>2. payer[w] \in GenerateTasks
    BY <1>2 DEF GenerateSlip, TasksOK
  <2> DEFINE task == [payer[w] EXCEPT !.todo = @ \ {d}]
  <2>3. task \in GenerateTasks /\ task.todo = payer[w].todo \ {d}
    BY <2>2 DEF GenerateTasks
  <2>4. payer' = [payer EXCEPT ![w] = task]
    BY <2>1
  <2>5. \A c \in task.todo : c \in payer[w].todo /\ slip'[c] = slip[c]
    BY <2>1, <2>3
  <2>6. payer[w].doing = "generate"
    BY <1>2 DEF GenerateSlip
  <2> HIDE DEF task
  <2> QED BY <2>3, <2>4, <2>5, <2>6
<1>3. CASE PatchRead(w)
  <2>1. PICK c \in Staff, field \in Editable, amount \in Amounts :
          /\ Exists(c) /\ ~Final(c)
          /\ Begin(w, [doing |-> "patch", crew |-> c, row |-> slip[c], field |-> field, amount |-> amount])
    BY <1>3 DEF PatchRead
  <2> DEFINE task == [doing |-> "patch", crew |-> c, row |-> slip[c], field |-> field, amount |-> amount]
  <2>2. payer' = [payer EXCEPT ![w] = task] /\ slip' = slip
    BY <1>3, <2>1 DEF PatchRead, Begin
  <2>3. task.doing = "patch" /\ task.crew = c /\ task.field = field
    OBVIOUS
  <2>4. slip'[task.crew] # NoSlip /\ ~slip'[task.crew].finalized
    BY <2>1, <2>2, <2>3 DEF Final, Exists
  <2>5. task.crew \in Staff /\ task.field \in Editable
    BY <2>3
  <2> HIDE DEF task
  <2>6. task.doing = "patch"
    BY <2>3
  <2>7. payer' = [payer EXCEPT ![w] = task]
    BY <2>2
  <2>8. \E t : /\ payer' = [payer EXCEPT ![w] = t] /\ t.doing = "patch"
              /\ t.crew \in Staff /\ t.field \in Editable
              /\ slip'[t.crew] # NoSlip /\ ~slip'[t.crew].finalized
    BY <2>4, <2>5, <2>6, <2>7
  <2> QED BY <2>8 DEF Final, Exists
<1>4. CASE payer' = [payer EXCEPT ![w] = Idle]
  BY <1>4
<1>5. CASE payer' = payer
  BY <1>5
<1> QED BY <1>1, <1>2, <1>3, <1>4, <1>5 DEF Handler, GenerateMark, PatchWrite, Finalize, SetRate,
           SetCrewStatus, ChangeRoster, Killed, End

LEMMA TasksKept ==
  ASSUME FinalInv, NEW w \in DOMAIN payer, Handler(w)
  PROVE  TasksOK' /\ NothingFinalHeld' /\ DOMAIN payer' = DOMAIN payer
<1>0. (\A c \in Staff : Exists(c) => Exists(c)') /\ SlipsOK'
  BY SlipsKept
<1> USE DEF FinalInv
<1>1. CASE payer' = payer
  <2>1. TasksOK'
    BY <1>0, <1>1 DEF TasksOK
  <2>2. NothingFinalHeld'
    <3> SUFFICES ASSUME OnePayer PROVE NothingFinalHeld'
      BY <1>1 DEF NothingFinalHeld, OnePayer
    <3>1. \A v \in DOMAIN payer : v = w
      BY DEF OnePayer
    <3>2. payer[w] = Idle \/ slip' = slip
      <4>1. ASSUME GenerateSlip(w) PROVE FALSE
        <5>1. PICK d \in payer[w].todo : payer' = [payer EXCEPT ![w].todo = @ \ {d}]
          BY <4>1 DEF GenerateSlip
        <5>2. payer[w] \in GenerateTasks
          BY <4>1 DEF GenerateSlip, TasksOK
        <5>3. payer'[w].todo = payer[w].todo \ {d}
          BY <5>1, <5>2 DEF GenerateTasks
        <5> QED BY <1>1, <5>1, <5>3
      <4>2. CASE PatchWrite(w)
        <5>1. payer'[w] = Idle
          BY <4>2 DEF PatchWrite, End
        <5> QED BY <1>1, <5>1
      <4> QED BY <1>1, <4>1, <4>2 DEF Handler, GenerateRead, GenerateMark, PatchRead, Finalize,
                 SetRate, SetCrewStatus, ChangeRoster, Killed
    <3>3. CASE payer[w] = Idle
      <4>1. \A v \in DOMAIN payer' : payer'[v].doing = "idle"
        BY <1>1, <3>1, <3>3 DEF Idle
      <4> QED BY <4>1 DEF NothingFinalHeld
    <3>4. CASE slip' = slip
      BY <1>1, <3>4 DEF NothingFinalHeld, OnePayer, Final, Exists
    <3> QED BY <3>2, <3>3, <3>4
  <2> QED BY <1>1, <2>1, <2>2
<1>2. ASSUME NEW task, payer' = [payer EXCEPT ![w] = task],
             \/ task = Idle
             \/ /\ task \in GenerateTasks
                /\ \A c \in task.todo : ~Final(c)' \/ (payer[w].doing = "generate" /\ c \in payer[w].todo /\ slip'[c] = slip[c])
             \/ /\ task.doing = "patch"
                /\ task.crew \in Staff /\ task.field \in Editable
                /\ Exists(task.crew)' /\ ~Final(task.crew)'
      PROVE  TasksOK' /\ NothingFinalHeld' /\ DOMAIN payer' = DOMAIN payer
  <2>1. /\ DOMAIN payer' = DOMAIN payer /\ payer'[w] = task
        /\ \A v \in DOMAIN payer : v # w => payer'[v] = payer[v]
        /\ payer' = [v \in DOMAIN payer' |-> payer'[v]]
    BY <1>2 DEF TasksOK
  <2>2. TasksOK'
    BY <1>0, <1>2, <2>1 DEF TasksOK, GenerateTasks, Idle
  <2>3. ASSUME OnePayer', NEW c \in Staff, task \in GenerateTasks, c \in task.todo, Final(c)'
        PROVE  FALSE
    <3>1. payer[w].doing = "generate" /\ c \in payer[w].todo /\ slip'[c] = slip[c]
      BY <1>2, <2>3 DEF GenerateTasks, Idle
    <3>2. ~Final(c)
      BY <2>1, <2>3, <3>1 DEF NothingFinalHeld, OnePayer
    <3> QED BY <2>3, <3>1, <3>2 DEF Final, Exists
  <2>4. NothingFinalHeld'
    <3> SUFFICES ASSUME OnePayer' PROVE NothingFinalHeld'
      BY DEF NothingFinalHeld
    <3>1. \A v \in DOMAIN payer' : v = w
      BY <2>1 DEF OnePayer
    <3>2. task \in GenerateTasks \/ task = Idle \/ (task.doing = "patch" /\ ~Final(task.crew)')
      BY <1>2
    <3>3. CASE task \in GenerateTasks
      BY <2>1, <2>3, <3>1, <3>3 DEF NothingFinalHeld, GenerateTasks
    <3>4. CASE task = Idle
      BY <2>1, <3>1, <3>4 DEF NothingFinalHeld, Idle
    <3>5. CASE task.doing = "patch" /\ ~Final(task.crew)'
      <4>1. \A v \in DOMAIN payer' : payer'[v] = task
        BY <2>1, <3>1
      <4>2. \A v \in DOMAIN payer' : payer'[v].doing = "patch" /\ payer'[v].crew = task.crew
        BY <3>5, <4>1
      <4>3. ~(slip'[task.crew] # NoSlip /\ slip'[task.crew].finalized)
        BY <3>5 DEF Final, Exists
      <4> QED BY <4>2, <4>3 DEF NothingFinalHeld, Final, Exists
    <3> QED BY <3>2, <3>3, <3>4, <3>5
  <2> QED BY <2>1, <2>2, <2>4
<1> QED BY <1>1, <1>2, OneTask

LEMMA OthersKept ==
  ASSUME FinalInv, NEW w \in DOMAIN payer, Handler(w)
  PROVE  active' \subseteq Staff /\ rate' \in [Staff -> Rates \cup {NoRate}]
<1> USE DEF FinalInv
<1>1. CASE SetRate(w)
  BY <1>1 DEF SetRate
<1>2. CASE SetCrewStatus(w)
  BY <1>2 DEF SetCrewStatus
<1>3. CASE UNCHANGED <<active, rate>>
  BY <1>3
<1> QED BY <1>1, <1>2, <1>3 DEF Handler, GenerateRead, GenerateSlip, GenerateMark, PatchRead,
           PatchWrite, Finalize, ChangeRoster, Killed

LEMMA FinalInvHolds == Spec => []FinalInv
<1>1. FinalInv /\ [Next]_vars => FinalInv'
  <2> SUFFICES ASSUME FinalInv, [Next]_vars PROVE FinalInv'
    OBVIOUS
  <2>1. ASSUME NEW w \in DOMAIN payer, Handler(w) PROVE FinalInv'
    BY <2>1, SlipsKept, TasksKept, OthersKept DEF FinalInv
  <2>2. CASE UNCHANGED vars
    BY <2>2 DEF vars, FinalInv, TasksOK, SlipsOK, NothingFinalHeld, OnePayer, Final, Exists
  <2> QED BY <2>1, <2>2 DEF Next
<1> QED BY <1>1, InitFinal, PTL DEF Spec

\* What an accountant has finalized is never rewritten, whatever runs of the
\* generator and edits one process serves, cut off or not (payroll.py 226-228).
THEOREM FinalPayslipsStand == Spec => FinalizedStands
<1>1. FinalInv /\ [Next]_vars =>
        [OnePayer => \A c \in Staff : Final(c) => slip'[c] = slip[c]]_vars
  <2> SUFFICES ASSUME FinalInv, Next, OnePayer, NEW c \in Staff, Final(c)
               PROVE  slip'[c] = slip[c]
    OBVIOUS
  <2> QED BY FinalStays DEF Next
<1> QED BY <1>1, FinalInvHolds, PTL DEF Spec, FinalizedStands

----------------------------------------------------------------------------
(* What a payslip is computed from is a whole number.                      *)

LEMMA NightIsInt == \A f \in Legs : NightMinutes(f) \in Int
<1> SUFFICES ASSUME NEW f \in Legs PROVE NightMinutes(f) \in Int
  OBVIOUS
<1> DEFINE last  == (Arr[f] - Dep[f] - 1) \div 30
           steps == {k \in 0..last : IsNight(Dep[f] + 30 * k)}
<1>1. last \in Int
  BY PayAssumption DEF PayAssumption
<1> HIDE DEF last
<1>2. IsFiniteSet(0..last) /\ steps \in SUBSET (0..last)
  BY <1>1, FS_Interval
<1> HIDE DEF steps
<1>3. Cardinality(steps) \in Nat
  BY <1>2, FS_Subset, FS_CardinalityType
<1>4. NightMinutes(f) = 30 * Cardinality(steps)
  BY DEF NightMinutes, steps, last
<1> QED BY <1>3, <1>4

LEMMA DaysAreFinite ==
  ASSUME NEW legs \in SUBSET Legs
  PROVE  Cardinality(DutyDays(legs)) \in Int
<1> DEFINE span(f) == (Dep[f] \div 1440)..(Arr[f] \div 1440)
           spans   == {span(f) : f \in legs}
           of      == [f \in legs |-> span(f)]
<1>1. IsFiniteSet(legs)
  BY PayAssumption, FS_Subset DEF PayAssumption
<1>2. of \in Surjection(legs, spans)
  <2>1. of \in [legs -> spans] /\ \A t \in spans : \E f \in legs : of[f] = t
    OBVIOUS
  <2> HIDE DEF of, spans
  <2>2. QED
    BY <2>1 DEF Surjection
<1>3. \A t \in spans : IsFiniteSet(t)
  <2> SUFFICES ASSUME NEW f \in legs PROVE IsFiniteSet(span(f))
    OBVIOUS
  <2>1. Dep[f] \div 1440 \in Int /\ Arr[f] \div 1440 \in Int
    BY PayAssumption DEF PayAssumption
  <2>2. QED
    BY <2>1, FS_Interval
<1>4. DutyDays(legs) = UNION spans
  BY DEF DutyDays
<1> HIDE DEF of, spans
<1>5. IsFiniteSet(spans)
  BY <1>1, <1>2, FS_Surjection
<1>6. IsFiniteSet(UNION spans)
  BY <1>3, <1>5, FS_UNION
<1> QED BY <1>4, <1>6, FS_CardinalityType

\* Pay comes out whole for any roster (_compute_components).
LEMMA PayIsInt ==
  ASSUME NEW c \in Staff, NEW r \in Rates
  PROVE  Components(c, r) \in Int
<1> DEFINE legs   == PaidLegs(c)
           abroad == legs \cap Abroad
           block  == [f \in Legs |-> Arr[f] - Dep[f]]
           night  == [f \in Legs |-> NightMinutes(f)]
           m      == FlightMetrics(c)
<1>1. legs \in SUBSET Legs /\ abroad \in SUBSET Legs /\ legs \ Abroad \in SUBSET Legs
  BY DEF PaidLegs
<1>2. IsFiniteSet(legs) /\ IsFiniteSet(abroad)
  BY <1>1, PayAssumption, FS_Subset DEF PayAssumption
<1>3. \A f \in Legs : block[f] \in Int /\ night[f] \in Int
  BY PayAssumption, NightIsInt DEF PayAssumption
<1>4. m = [ total |-> SumFunctionOnSet(block, legs), international |-> SumFunctionOnSet(block, abroad),
            night |-> SumFunctionOnSet(night, legs), days_dom |-> Cardinality(DutyDays(legs \ Abroad)),
            days_int |-> Cardinality(DutyDays(abroad)) ]
  BY Zenon DEF FlightMetrics
<1> HIDE DEF block, night, m
<1>5. /\ SumFunctionOnSet(block, legs) \in Int
      /\ SumFunctionOnSet(block, abroad) \in Int
      /\ SumFunctionOnSet(night, legs) \in Int
  <2>1. \A f \in legs : block[f] \in Int /\ night[f] \in Int
    BY <1>1, <1>3
  <2>2. \A f \in abroad : block[f] \in Int
    BY <1>1, <1>3
  <2> HIDE DEF legs, abroad
  <2>3. QED
    BY <1>2, <2>1, <2>2, SumIsInt
<1>6. /\ Cardinality(DutyDays(legs \ Abroad)) \in Int
      /\ Cardinality(DutyDays(abroad)) \in Int
  BY <1>1, DaysAreFinite
<1>7. /\ m.total \in Int /\ m.international \in Int /\ m.night \in Int
      /\ m.days_dom \in Int /\ m.days_int \in Int
  <2> HIDE DEF legs, abroad
  <2>1. QED
    BY <1>4, <1>5, <1>6
<1>8. /\ r.base \in Int /\ r.hour \in Int /\ r.intl \in Int /\ r.night \in Int
      /\ r.diem_dom \in Int /\ r.diem_int \in Int
  BY PayAssumption DEF PayAssumption
<1>9. Components(c, r) = r.base + r.hour * m.total + r.intl * m.international + r.night * m.night
                           + r.diem_dom * m.days_dom + r.diem_int * m.days_int
  BY DEF Components, m
<1> QED BY <1>7, <1>8, <1>9
----------------------------------------------------------------------------
(* The totals of a payslip.                                                *)

\* The amounts of a payslip are whole.
Paid(s) == s.pay \in Int /\ s.additions \in Int /\ s.deductions \in Int /\ s.tax \in Int

\* What a worker carries, and that the row of an edit is the one there is while one
\* process serves.
TasksPay ==
  \A w \in DOMAIN payer :
    /\ payer[w].doing = "generate" => \A c \in payer[w].todo : payer[w].rates[c] \in Rates
    /\ payer[w].doing = "patch" =>
         /\ payer[w].amount \in Amounts
         /\ OnePayer => payer[w].row = slip[payer[w].crew]

SlipsPaid == \A c \in Staff : Exists(c) => Paid(slip[c])

AddUpInv == TasksPay /\ SlipsPaid /\ SlipAddsUp

LEMMA NewSlipAdds == \A pay \in Int : Paid(NewSlip(pay)) /\ NewSlip(pay) = Totals(NewSlip(pay))
<1> SUFFICES ASSUME NEW pay \in Int
             PROVE  Paid(NewSlip(pay)) /\ NewSlip(pay) = Totals(NewSlip(pay))
  OBVIOUS
<1>1. Paid(NewSlip(pay))
  BY DEF Paid, NewSlip
<1>2. pay + 0 = pay /\ pay - 0 - 0 = pay
  OBVIOUS
<1>3. Totals(NewSlip(pay)) = [NewSlip(pay) EXCEPT !.gross = pay, !.net = pay]
  BY <1>2 DEF Totals, NewSlip
<1>4. [NewSlip(pay) EXCEPT !.gross = pay, !.net = pay] = NewSlip(pay)
  <2>1. IsSlip(NewSlip(pay)) /\ NewSlip(pay).gross = pay /\ NewSlip(pay).net = pay
    BY NewIsSlip DEF NewSlip
  <2> QED BY <2>1 DEF IsSlip, SlipFields
<1> QED BY <1>1, <1>3, <1>4

\* The totals are written with the amounts of the row they were computed from.
LEMMA EditAdds ==
  ASSUME NEW s, IsSlip(s), Paid(s), NEW field \in Editable, NEW amount \in Int
  PROVE  LET e == Edited(s, field, amount)
             u == [e EXCEPT !.gross = Totals(e).gross, !.net = Totals(e).net]
         IN u = Totals(u)
<1> DEFINE e == Edited(s, field, amount)
           g == Totals(e).gross
           n == Totals(e).net
           u == [e EXCEPT !.gross = g, !.net = n]
<1>1. IsSlip(e)
  BY DEF Edited, IsSlip, SlipFields, Editable
<1>2. g = e.pay + e.additions /\ n = g - e.deductions - e.tax
  <2> HIDE DEF e
  <2>1. QED
    BY <1>1 DEF Totals, IsSlip, SlipFields
<1> HIDE DEF e, g, n
<1>3. /\ u.gross = g /\ u.net = n /\ u.pay = e.pay /\ u.additions = e.additions
      /\ u.deductions = e.deductions /\ u.tax = e.tax /\ DOMAIN u = SlipFields
      /\ u = [x \in SlipFields |-> u[x]]
  BY <1>1 DEF IsSlip, SlipFields
<1> HIDE DEF u
<1>4. Totals(u) = [u EXCEPT !.gross = g, !.net = n]
  BY <1>2, <1>3 DEF Totals
<1>5. [u EXCEPT !.gross = g, !.net = n] = u
  BY <1>3 DEF SlipFields
<1> QED BY <1>4, <1>5 DEF u, g, n, e

\* A payslip that is edited, on any row, keeps whole amounts.
LEMMA EditIsPaid ==
  ASSUME NEW s, IsSlip(s), Paid(s), NEW field \in Editable, NEW amount \in Int, NEW g, NEW n
  PROVE  Paid([Edited(s, field, amount) EXCEPT !.gross = g, !.net = n])
<1> DEFINE e == Edited(s, field, amount)
<1>1. IsSlip(e)
  BY DEF Edited, IsSlip, SlipFields, Editable
<1>2. Paid(e)
  BY DEF Edited, Paid, IsSlip, SlipFields, Editable
<1> HIDE DEF e
<1>3. Paid([e EXCEPT !.gross = g, !.net = n])
  BY <1>1, <1>2 DEF Paid, IsSlip, SlipFields
<1> QED BY <1>3 DEF e

\* To finalize changes no amount.
LEMMA FinalAdds ==
  ASSUME NEW s, IsSlip(s), Paid(s)
  PROVE  LET u == [s EXCEPT !.finalized = TRUE]
         IN Paid(u) /\ (s = Totals(s) => u = Totals(u))
<1> DEFINE u == [s EXCEPT !.finalized = TRUE]
<1>1. /\ u.pay = s.pay /\ u.additions = s.additions /\ u.deductions = s.deductions /\ u.tax = s.tax
      /\ u.gross = s.gross /\ u.net = s.net /\ DOMAIN u = SlipFields
      /\ u = [x \in SlipFields |-> u[x]]
  BY DEF IsSlip, SlipFields
<1>2. ASSUME s = Totals(s) PROVE u = Totals(u)
  <2> DEFINE g == s.pay + s.additions
             n == g - s.deductions - s.tax
  <2>1. s.gross = g /\ s.net = n
    <3>1. Totals(s).gross = g /\ Totals(s).net = n
      BY DEF Totals, IsSlip, SlipFields
    <3>2. QED
      BY <1>2, <3>1
  <2> HIDE DEF u
  <2>2. Totals(u) = [u EXCEPT !.gross = g, !.net = n]
    BY <1>1 DEF Totals
  <2>3. [u EXCEPT !.gross = g, !.net = n] = u
    BY <1>1, <2>1 DEF SlipFields
  <2>4. QED
    BY <2>2, <2>3
<1>3. Paid(u)
  BY <1>1 DEF Paid
<1> QED BY <1>2, <1>3

\* The payslips after a step.
LEMMA SlipsStayPaid ==
  ASSUME FinalInv, AddUpInv, NEW w \in DOMAIN payer, Handler(w)
  PROVE  /\ SlipsPaid'
         /\ OnePayer => \A c \in Staff : slip'[c] # NoSlip => slip'[c] = Totals(slip'[c])
<1> USE DEF FinalInv, TasksOK, SlipsOK, AddUpInv, TasksPay, SlipsPaid, SlipAddsUp
<1>1. CASE GenerateSlip(w)
  <2>1. PICK d \in payer[w].todo : slip' = [slip EXCEPT ![d] = NewSlip(Components(d, payer[w].rates[d]))]
    BY <1>1 DEF GenerateSlip
  <2>2. payer[w].doing = "generate" /\ payer[w].todo \subseteq Staff
    BY <1>1 DEF GenerateSlip, GenerateTasks
  <2>3. Components(d, payer[w].rates[d]) \in Int
    BY <2>2, PayIsInt
  <2> DEFINE new == NewSlip(Components(d, payer[w].rates[d]))
  <2>4. Paid(new) /\ new = Totals(new)
    BY <2>3, NewSlipAdds
  <2> HIDE DEF new
  <2>5. \A c \in Staff : slip'[c] = slip[c] \/ slip'[c] = new
    BY <2>1 DEF new
  <2> QED BY <2>4, <2>5 DEF Exists
<1>2. CASE PatchWrite(w)
  <2> DEFINE t == payer[w]
             new == Totals(Edited(t.row, t.field, t.amount))
             u == [Edited(slip[t.crew], t.field, t.amount) EXCEPT !.gross = new.gross, !.net = new.net]
  <2>1. /\ t.crew \in Staff /\ t.field \in Editable /\ IsSlip(slip[t.crew]) /\ Paid(slip[t.crew])
        /\ t.amount \in Int /\ (OnePayer => t.row = slip[t.crew])
    BY <1>2, PayAssumption DEF PatchWrite, PayAssumption
  <2>2. slip' = [slip EXCEPT ![t.crew] = u]
    BY <1>2 DEF PatchWrite
  <2>3. Paid(u)
    <3> HIDE DEF t, new
    <3>1. QED
      BY <2>1, EditIsPaid
  <2>4. OnePayer => u = Totals(u)
    <3> HIDE DEF t, new, u
    <3> SUFFICES ASSUME OnePayer PROVE u = Totals(u)
      OBVIOUS
    <3> DEFINE e == Edited(slip[t.crew], t.field, t.amount)
               v == [e EXCEPT !.gross = Totals(e).gross, !.net = Totals(e).net]
    <3>1. v = Totals(v)
      <4> HIDE DEF FinalInv, AddUpInv
      <4> QED BY <2>1, EditAdds
    <3>2. new = Totals(e)
      BY <2>1 DEF new
    <3>3. u = v
      BY <3>2 DEF u
    <3> HIDE DEF v
    <3> QED BY <3>1, <3>3
  <2> HIDE DEF u, t
  <2>5. \A c \in Staff : slip'[c] = slip[c] \/ slip'[c] = u
    BY <2>1, <2>2
  <2> QED BY <2>3, <2>4, <2>5 DEF Exists
<1>3. CASE Finalize(w)
  <2>1. PICK d \in Staff : Exists(d) /\ slip' = [slip EXCEPT ![d].finalized = TRUE]
    BY <1>3 DEF Finalize
  <2> DEFINE u == [slip[d] EXCEPT !.finalized = TRUE]
  <2>2. Paid(u) /\ (slip[d] = Totals(slip[d]) => u = Totals(u))
    BY <2>1, FinalAdds
  <2>3. \A c \in Staff : slip'[c] = slip[c] \/ slip'[c] = u
    BY <2>1
  <2> HIDE DEF u
  <2> QED BY <2>1, <2>2, <2>3 DEF Exists
<1>4. CASE slip' = slip
  BY <1>4 DEF Exists
<1> QED BY <1>1, <1>2, <1>3, <1>4 DEF Handler, GenerateRead, GenerateMark, PatchRead, SetRate,
           SetCrewStatus, ChangeRoster, Killed

\* The tasks after a step.
LEMMA TasksStayPaid ==
  ASSUME FinalInv, AddUpInv, NEW w \in DOMAIN payer, Handler(w)
  PROVE  TasksPay'
<1> USE DEF FinalInv, AddUpInv
<1>1. ASSUME NEW task, payer' = [payer EXCEPT ![w] = task],
             task.doing = "generate" => \A c \in task.todo : task.rates[c] \in Rates,
             task.doing = "patch" =>
               task.amount \in Amounts /\ task.row = slip[task.crew] /\ slip' = slip
      PROVE  TasksPay'
  <2>1. /\ DOMAIN payer' = DOMAIN payer /\ payer'[w] = task
        /\ \A v \in DOMAIN payer : v # w => payer'[v] = payer[v]
    BY <1>1 DEF TasksOK
  <2>2. OnePayer' => \A v \in DOMAIN payer : v = w
    BY <2>1 DEF OnePayer
  <2>3. ASSUME NEW v \in DOMAIN payer
        PROVE  /\ payer'[v].doing = "generate" => \A c \in payer'[v].todo : payer'[v].rates[c] \in Rates
               /\ payer'[v].doing = "patch" =>
                    /\ payer'[v].amount \in Amounts
                    /\ OnePayer' => payer'[v].row = slip'[payer'[v].crew]
    <3>1. CASE v = w
      BY <1>1, <2>1, <3>1
    <3>2. CASE v # w
      BY <2>1, <2>2, <3>2 DEF TasksPay
    <3> QED BY <3>1, <3>2
  <2> QED BY <2>1, <2>3 DEF TasksPay
<1>2. CASE GenerateRead(w)
  <2> DEFINE task == [doing |-> "generate", rates |-> rate, known |-> {c \in Staff : Exists(c)},
                      todo |-> {c \in active : rate[c] # NoRate /\ ~Final(c)}]
  <2>1. payer' = [payer EXCEPT ![w] = task]
    BY <1>2 DEF GenerateRead, Begin
  <2>2. task.doing = "generate" /\ \A c \in task.todo : task.rates[c] \in Rates
    OBVIOUS
  <2> HIDE DEF task
  <2> QED BY <1>1, <2>1, <2>2
<1>3. CASE GenerateSlip(w)
  <2>1. PICK d \in payer[w].todo : payer' = [payer EXCEPT ![w].todo = payer[w].todo \ {d}]
    BY <1>3 DEF GenerateSlip
  <2>2. payer[w] \in GenerateTasks /\ payer[w].doing = "generate"
    BY <1>3 DEF GenerateSlip, TasksOK
  <2> DEFINE task == [payer[w] EXCEPT !.todo = payer[w].todo \ {d}]
  <2>3. /\ task.doing = "generate" /\ task.todo = payer[w].todo \ {d} /\ task.rates = payer[w].rates
        /\ payer' = [payer EXCEPT ![w] = task]
    BY <2>1, <2>2 DEF GenerateTasks
  <2> HIDE DEF task
  <2>4. \A c \in task.todo : task.rates[c] \in Rates
    BY <2>2, <2>3 DEF TasksPay
  <2> QED BY <1>1, <2>3, <2>4
<1>4. CASE PatchRead(w)
  <2>1. PICK c \in Staff, field \in Editable, amount \in Amounts :
          payer' = [payer EXCEPT ![w] = [doing |-> "patch", crew |-> c, row |-> slip[c],
                                         field |-> field, amount |-> amount]]
    BY <1>4 DEF PatchRead, Begin
  <2> DEFINE task == [doing |-> "patch", crew |-> c, row |-> slip[c], field |-> field, amount |-> amount]
  <2>2. task.doing = "patch" /\ task.amount \in Amounts /\ task.row = slip[task.crew] /\ slip' = slip
    BY <1>4 DEF PatchRead
  <2> HIDE DEF task
  <2> QED BY <1>1, <2>1, <2>2 DEF task
<1>5. CASE payer' = [payer EXCEPT ![w] = Idle]
  BY <1>1, <1>5 DEF Idle
<1>6. CASE payer[w] = Idle /\ payer' = payer
  <2>1. ASSUME NEW v \in DOMAIN payer, OnePayer PROVE payer[v].doing = "idle"
    BY <1>6, <2>1 DEF OnePayer, Idle
  <2> QED BY <1>6, <2>1 DEF TasksPay, OnePayer
<1> QED BY <1>2, <1>3, <1>4, <1>5, <1>6 DEF Handler, GenerateMark, PatchWrite, Finalize, SetRate,
           SetCrewStatus, ChangeRoster, Killed, End

\* The totals of a payslip are those of the amounts it shows, after any sequence of
\* runs of the generator, edits and cut off requests of one process (payroll.py 433-443).
THEOREM PayslipsAddUp == Spec => []SlipAddsUp
<1>1. Init => AddUpInv
  <2> SUFFICES ASSUME Init PROVE AddUpInv
    OBVIOUS
  <2>1. \A c \in Staff : ~Exists(c)
    BY DEF Init, Exists
  <2>2. \A w \in DOMAIN payer : payer[w].doing = "idle"
    BY DEF Init, Idle
  <2> QED BY <2>1, <2>2 DEF AddUpInv, TasksPay, SlipsPaid, SlipAddsUp
<1>2. FinalInv /\ AddUpInv /\ [Next]_vars => AddUpInv'
  <2> SUFFICES ASSUME FinalInv, AddUpInv, [Next]_vars PROVE AddUpInv'
    OBVIOUS
  <2>1. ASSUME NEW w \in DOMAIN payer, Handler(w) PROVE AddUpInv'
    <3>1. SlipsPaid' /\ TasksPay'
      BY <2>1, SlipsStayPaid, TasksStayPaid
    <3>2. OnePayer' => OnePayer
      BY <2>1, TasksKept DEF OnePayer
    <3>3. SlipAddsUp'
      BY <2>1, <3>2, SlipsStayPaid DEF SlipAddsUp, Exists
    <3> QED BY <3>1, <3>3 DEF AddUpInv
  <2>2. CASE UNCHANGED vars
    BY <2>2 DEF vars, AddUpInv, TasksPay, SlipsPaid, SlipAddsUp, OnePayer, Exists
  <2> QED BY <2>1, <2>2 DEF Next
<1>3. AddUpInv => SlipAddsUp
  BY DEF AddUpInv
<1> QED BY <1>1, <1>2, <1>3, FinalInvHolds, PTL DEF Spec

=============================================================================
