---------------------------- MODULE RecordsProofs ----------------------------
(***************************************************************************)
(* Theorems about the records: what each of the machines of module Records *)
(* promises of any behaviour that runs it, for any records and constants.  *)
(* Payroll has a module of its own.                                        *)
(***************************************************************************)
EXTENDS Records, Sums

----------------------------------------------------------------------------
(* A behaviour of the records is one of each machine, which runs or rests. *)

LEMMA DefectsRun == RecordsSpec => MT!Spec
<1>1. RecordsInit => MT!Init
  BY DEF RecordsInit
<1>2. [RecordsNext]_recordVars => [MT!Next]_MT!vars
  BY DEF RecordsNext, recordVars, defectVars, MT!vars, Paying, Reminding, Documenting, Counting,
         Repairing, Requesting, Governing
<1> QED BY <1>1, <1>2, PTL DEF RecordsSpec, MT!Spec

LEMMA RequestsRun == RecordsSpec => CR!Spec
<1>1. RecordsInit => CR!Init
  BY DEF RecordsInit
<1>2. [RecordsNext]_recordVars => [CR!Next]_CR!vars
  BY DEF RecordsNext, recordVars, requestVars, CR!vars, Paying, Reminding, Documenting, Counting,
         Repairing, Requesting, Governing
<1> QED BY <1>1, <1>2, PTL DEF RecordsSpec, CR!Spec

LEMMA DocumentsRun == RecordsSpec => DO!Spec
<1>1. RecordsInit => DO!Init
  BY DEF RecordsInit
<1>2. [RecordsNext]_recordVars => [DO!Next]_DO!vars
  BY DEF RecordsNext, recordVars, documentVars, DO!vars, Paying, Reminding, Documenting, Counting,
         Repairing, Requesting, Governing
<1> QED BY <1>1, <1>2, PTL DEF RecordsSpec, DO!Spec

LEMMA RemindersRun == RecordsSpec => RM!Spec
<1>1. RecordsInit => RM!Init
  BY DEF RecordsInit
<1>2. [RecordsNext]_recordVars => [RM!Next]_RM!vars
  BY DEF RecordsNext, recordVars, reminderVars, RM!vars, RM!history, Paying, Reminding,
         Documenting, Counting, Repairing, Requesting, Governing
<1> QED BY <1>1, <1>2, PTL DEF RecordsSpec, RM!Spec

LEMMA ClausesRun == RecordsSpec => OG!Spec
<1>1. RecordsInit => OG!Init
  BY DEF RecordsInit
<1>2. [RecordsNext]_recordVars => [OG!Next]_OG!vars
  BY DEF RecordsNext, recordVars, clauseVars, OG!vars, Paying, Reminding, Documenting, Counting,
         Repairing, Requesting, Governing
<1> QED BY <1>1, <1>2, PTL DEF RecordsSpec, OG!Spec

----------------------------------------------------------------------------
(* The defects of a tail and its status.                                   *)

Grounding == \E d \in Defects : MT!Grounds(d)

\* What the engineer's request is about to do to the tail agrees with the defects.
TailInv ==
  /\ job = [w \in DOMAIN job |-> job[w]] /\ DOMAIN job # {}
  /\ MT!OneEngineer => \A w \in DOMAIN job :
       /\ job[w] = "release" => ~Grounding
       /\ job[w] = "ground" => Grounding
       /\ ~lapse /\ Grounding => tail # "active" \/ job[w] = "ground"
  /\ lapse \in BOOLEAN
  /\ defect \in [Defects -> [status : MT!Statuses \cup {"none"}, grounding : BOOLEAN]]

LEMMA TailStep ==
  ASSUME TailInv, NEW w \in DOMAIN job, MT!Handler(w)
  PROVE  TailInv'
<1> USE DEF TailInv
\* The step of the only engineer: what he is at next, and what is left to show.
<1>g. ASSUME NEW pc, MT!Goto(w, pc) \/ (UNCHANGED job /\ pc = job[w]),
             lapse' \in BOOLEAN,
             defect' \in [Defects -> [status : MT!Statuses \cup {"none"}, grounding : BOOLEAN]],
             MT!OneEngineer =>
               /\ pc = "release" => ~Grounding'
               /\ pc = "ground" => Grounding'
               /\ ~lapse' /\ Grounding' => tail' # "active" \/ pc = "ground"
      PROVE  TailInv'
  <2>1. /\ job' = [v \in DOMAIN job' |-> job'[v]]
        /\ DOMAIN job' = DOMAIN job /\ job'[w] = pc
    BY <1>g DEF MT!Goto
  <2>2. ASSUME MT!OneEngineer', NEW v \in DOMAIN job' PROVE MT!OneEngineer /\ v = w
    BY <2>1, <2>2 DEF MT!OneEngineer
  <2>3. QED
    BY <1>g, <2>1, <2>2 DEF Grounding
<1>1. ASSUME NEW d \in Defects, NEW status \in MT!Statuses \cup {"none"},
             NEW grounding \in BOOLEAN,
             defect' = [defect EXCEPT ![d] = [status |-> status, grounding |-> grounding]]
      PROVE  /\ defect' \in [Defects -> [status : MT!Statuses \cup {"none"}, grounding : BOOLEAN]]
             /\ \A e \in Defects \ {d} : MT!Grounds(e)' <=> MT!Grounds(e)
             /\ MT!Grounds(d)' <=> grounding /\ status # "resolved"
  BY <1>1 DEF MT!Grounds
<1>2. CASE MT!CreateDefect(w)
  <2>1. PICK d \in Defects, grounding \in BOOLEAN :
          /\ job[w] = "idle" /\ ~MT!Logged(d)
          /\ defect' = [defect EXCEPT ![d] = [status |-> "open", grounding |-> grounding]]
          /\ IF grounding THEN MT!Goto(w, "ground") ELSE UNCHANGED job
          /\ UNCHANGED <<tail, lapse>>
    BY <1>2 DEF MT!CreateDefect
  <2>2. "open" \in MT!Statuses \cup {"none"} /\ ~MT!Grounds(d)
    BY <2>1 DEF MT!Statuses, MT!Logged, MT!NoDefect, MT!Grounds
  <2>3. /\ defect' \in [Defects -> [status : MT!Statuses \cup {"none"}, grounding : BOOLEAN]]
        /\ \A e \in Defects \ {d} : MT!Grounds(e)' <=> MT!Grounds(e)
        /\ MT!Grounds(d)' <=> grounding
    BY <2>1, <2>2, <1>1
  <2>4. Grounding' <=> Grounding \/ grounding
    BY <2>2, <2>3 DEF Grounding
  <2>5. QED
    BY <2>1, <2>3, <2>4, <1>g
<1>3. CASE MT!UpdateDefect(w)
  <2>1. PICK d \in Defects, status \in MT!Statuses, grounding \in BOOLEAN :
          /\ job[w] = "idle"
          /\ defect' = [defect EXCEPT ![d] = [status |-> status, grounding |-> grounding]]
          /\ lapse' = (lapse \/ (~MT!Grounds(d) /\ grounding /\ status # "resolved"))
          /\ IF status = "resolved" THEN MT!Goto(w, "count") ELSE UNCHANGED job
          /\ UNCHANGED tail
    BY <1>3 DEF MT!UpdateDefect
  <2>2. /\ defect' \in [Defects -> [status : MT!Statuses \cup {"none"}, grounding : BOOLEAN]]
        /\ Grounding' /\ ~lapse' => Grounding
    BY <2>1, <1>1 DEF Grounding
  <2>3. QED
    BY <2>1, <2>2, <1>g
<1>4. CASE MT!DeleteDefect(w)
  <2>1. PICK d \in Defects : defect' = [defect EXCEPT ![d] = MT!NoDefect]
    BY <1>4 DEF MT!DeleteDefect
  <2>2. job[w] = "idle" /\ UNCHANGED <<tail, job, lapse>>
    BY <1>4 DEF MT!DeleteDefect
  <2>3. /\ defect' \in [Defects -> [status : MT!Statuses \cup {"none"}, grounding : BOOLEAN]]
        /\ Grounding' => Grounding
    BY <2>1, <1>1 DEF MT!NoDefect, Grounding
  <2>4. QED
    BY <2>2, <2>3, <1>g
<1>5. ASSUME UNCHANGED defect
      PROVE  Grounding' <=> Grounding
  BY <1>5 DEF Grounding, MT!Grounds
<1>6. CASE MT!GroundTail(w)
  BY <1>5, <1>6, <1>g DEF MT!GroundTail
<1>7. CASE MT!CountGrounding(w)
  <2>1. PICK pc : MT!Goto(w, pc) /\ pc = (IF Grounding THEN "idle" ELSE "release")
    BY <1>7 DEF MT!CountGrounding, Grounding
  <2>2. QED
    BY <2>1, <1>5, <1>7, <1>g DEF MT!CountGrounding
<1>8. CASE MT!ReleaseTail(w)
  BY <1>5, <1>8, <1>g DEF MT!ReleaseTail
<1>9. CASE MT!UpdateAircraft(w)
  BY <1>5, <1>9, <1>g DEF MT!UpdateAircraft, Grounding
<1>10. CASE MT!Killed(w)
  BY <1>5, <1>10, <1>g DEF MT!Killed
<1> QED
  BY <1>2, <1>3, <1>4, <1>6, <1>7, <1>8, <1>9, <1>10 DEF MT!Handler

\* With one process a tail with an unresolved grounding defect does not fly, between
\* requests cut off anywhere, but for the lapses the property names (maintenance.py,
\* aircraft.py).
THEOREM GroundedTailsAreKept == RecordsSpec => []GroundedTailsStay
<1>1. MT!Init => TailInv
  <2> SUFFICES ASSUME MT!Init PROVE TailInv
    OBVIOUS
  <2>1. PICK D : D # {} /\ job = [w \in D |-> "idle"]
    BY DEF MT!Init
  <2>2. defect \in [Defects -> [status : MT!Statuses \cup {"none"}, grounding : BOOLEAN]]
        /\ ~Grounding
    BY DEF MT!Init, MT!NoDefect, Grounding, MT!Grounds
  <2>3. /\ job = [w \in DOMAIN job |-> job[w]] /\ DOMAIN job # {}
        /\ \A w \in DOMAIN job : job[w] = "idle"
    BY <2>1
  <2>4. lapse \in BOOLEAN
    BY DEF MT!Init
  <2> QED
    BY <2>2, <2>3, <2>4 DEF TailInv
<1>2. TailInv /\ [MT!Next]_MT!vars => TailInv'
  <2> SUFFICES ASSUME TailInv, [MT!Next]_MT!vars PROVE TailInv'
    OBVIOUS
  <2>1. CASE UNCHANGED MT!vars
    BY <2>1 DEF MT!vars, TailInv, Grounding, MT!Grounds, MT!OneEngineer
  <2>2. CASE MT!Next
    BY <2>2, TailStep DEF MT!Next
  <2>3. QED BY <2>1, <2>2
<1>3. TailInv => GroundedTailsStay
  <2> SUFFICES ASSUME TailInv, MT!OneEngineer, ~lapse, \A w \in DOMAIN job : job[w] = "idle",
                      \E d \in Defects : MT!Grounds(d)
               PROVE  tail # "active"
    BY DEF GroundedTailsStay, MT!GroundedTailsStay
  <2> QED
    BY DEF TailInv, Grounding
<1> QED BY <1>1, <1>2, <1>3, DefectsRun, PTL DEF MT!Spec

----------------------------------------------------------------------------
(* What one crew member asks of the desk.                                  *)

Tasks ==
  {CR!AtDesk} \cup [pc : {"review", "notify"}, status : CR!Decided] \cup {[pc |-> "cancel"]}
    \cup [pc : {"bid"}, wish : Wishes, known : BOOLEAN, late : BOOLEAN]

\* The notices on the way, if nothing was missed, say what the table says; the bid is
\* locked once it has been, and to whoever writes it now it was not.
DeskInv ==
  /\ desk \in [DOMAIN desk -> Tasks]
  /\ bid \in [wish : Wishes \cup {"none"}, locked : BOOLEAN]
  /\ closed = bid.locked
  /\ LockHolds
  /\ ReviewIsTold
  /\ leave \in CR!Decided /\ ~missed =>
       \A w \in DOMAIN desk : desk[w].pc = "notify" => desk[w].status = leave

\* A step at one desk that touches no review.
LEMMA AsideStep ==
  ASSUME DeskInv, NEW w \in DOMAIN desk, NEW task \in Tasks,
         task.pc # "notify", desk[w].pc # "notify", task.pc = "bid" => ~task.late,
         desk' = [desk EXCEPT ![w] = task] \/ (UNCHANGED desk /\ task = desk[w]),
         bid' \in [wish : Wishes \cup {"none"}, locked : BOOLEAN], closed' = bid'.locked,
         UNCHANGED <<notified, missed>>, leave' = leave \/ leave' \notin CR!Decided
  PROVE  DeskInv'
<1>1. /\ desk \in [DOMAIN desk -> Tasks] /\ DOMAIN desk' = DOMAIN desk /\ desk'[w] = task
      /\ desk' \in [DOMAIN desk' -> Tasks]
      /\ \A v \in DOMAIN desk : v # w => desk'[v] = desk[v]
  BY DEF DeskInv
<1>2. \A v \in DOMAIN desk : \A st : desk[v] = [pc |-> "notify", status |-> st] => v # w
  OBVIOUS
<1>3. LockHolds'
  BY <1>1 DEF DeskInv, LockHolds, CR!LockHolds
<1>4. ReviewIsTold'
  BY <1>1, <1>2 DEF DeskInv, ReviewIsTold, CR!ReviewIsTold
<1>5. leave' \in CR!Decided /\ ~missed' =>
        \A v \in DOMAIN desk' : desk'[v].pc = "notify" => desk'[v].status = leave'
  BY <1>1 DEF DeskInv
<1> QED
  BY <1>1, <1>3, <1>4, <1>5 DEF DeskInv

LEMMA DeskStep ==
  ASSUME DeskInv, NEW w \in DOMAIN desk, CR!Handler(w)
  PROVE  DeskInv'
<1>1. /\ desk \in [DOMAIN desk -> Tasks] /\ desk[w] \in Tasks /\ CR!AtDesk \in Tasks
      /\ CR!AtDesk.pc = "idle"
      /\ bid \in [wish : Wishes \cup {"none"}, locked : BOOLEAN] /\ closed = bid.locked
      /\ LockHolds
  BY DEF DeskInv, Tasks, CR!AtDesk
<1>2. CASE CR!CreateLeave(w)
  <2>1. leave' \notin CR!Decided
    BY <1>2 DEF CR!CreateLeave, CR!Decided
  <2>2. QED
    BY <1>1, <1>2, <2>1, AsideStep DEF CR!CreateLeave
<1>3. CASE CR!ReviewRead(w)
  <2>1. PICK status \in CR!Decided : CR!Start(w, [pc |-> "review", status |-> status])
    BY <1>3 DEF CR!ReviewRead
  <2> DEFINE task == [pc |-> "review", status |-> status]
  <2>2. task \in Tasks /\ task.pc = "review"
    BY DEF Tasks
  <2>3. QED
    BY <1>1, <1>3, <2>1, <2>2, AsideStep DEF CR!ReviewRead, CR!Start
<1>4. CASE CR!ReviewWrite(w)
  <2> DEFINE task == [desk[w] EXCEPT !.pc = "notify"]
  <2>1. /\ task \in Tasks /\ task = [pc |-> "notify", status |-> desk[w].status]
        /\ desk[w].status \in CR!Decided
    BY <1>1, <1>4 DEF Tasks, CR!ReviewWrite, CR!AtDesk
  <2>2. /\ desk' = [desk EXCEPT ![w] = task] /\ UNCHANGED <<notified, bid, closed>>
        /\ leave' = IF CR!Exists THEN desk[w].status ELSE leave
        /\ ~missed' => \A v \in DOMAIN desk : desk[v].pc # "notify"
    BY <1>4 DEF CR!ReviewWrite
  <2> HIDE DEF task
  <2>3. /\ DOMAIN desk' = DOMAIN desk /\ desk'[w] = task
        /\ \A v \in DOMAIN desk : v # w => desk'[v] = desk[v]
        /\ desk' \in [DOMAIN desk' -> Tasks]
    BY <1>1, <2>1, <2>2
  <2>4. LockHolds'
    BY <1>1, <2>1, <2>3 DEF LockHolds, CR!LockHolds
  <2>5. leave' \in CR!Decided => leave' = desk[w].status
    BY <2>2 DEF CR!Exists, CR!Decided
  <2>6. ReviewIsTold'
    BY <2>1, <2>3, <2>5 DEF ReviewIsTold, CR!ReviewIsTold
  <2>7. leave' \in CR!Decided /\ ~missed' =>
          \A v \in DOMAIN desk' : desk'[v].pc = "notify" => desk'[v].status = leave'
    BY <2>1, <2>2, <2>3, <2>5
  <2>8. QED
    BY <1>1, <2>2, <2>3, <2>4, <2>6, <2>7 DEF DeskInv
<1>5. ASSUME CR!Done(w), UNCHANGED <<leave, bid, closed>>, missed => missed',
             \/ desk[w].pc = "notify" /\ (missed' \/ notified' = desk[w].status)
             \/ desk[w].pc # "notify" /\ notified' = notified
      PROVE  DeskInv'
  <2>1. /\ DOMAIN desk' = DOMAIN desk /\ desk'[w] = CR!AtDesk
        /\ \A v \in DOMAIN desk : v # w => desk'[v] = desk[v]
        /\ desk' \in [DOMAIN desk' -> Tasks]
    BY <1>1, <1>5 DEF CR!Done
  <2>2. LockHolds'
    BY <1>1, <2>1 DEF LockHolds, CR!LockHolds
  <2>3. ReviewIsTold'
    <3> SUFFICES ASSUME leave' \in CR!Decided, ~missed'
                 PROVE  \/ notified' = leave'
                        \/ \E v \in DOMAIN desk' : desk'[v] = [pc |-> "notify", status |-> leave']
      BY DEF ReviewIsTold, CR!ReviewIsTold
    <3>1. leave \in CR!Decided /\ ~missed /\ leave' = leave
      BY <1>5
    <3>2. CASE desk[w].pc = "notify"
      BY <1>5, <3>1, <3>2 DEF DeskInv
    <3>3. CASE desk[w].pc # "notify"
      BY <1>5, <2>1, <3>1, <3>3 DEF DeskInv, ReviewIsTold, CR!ReviewIsTold
    <3>4. QED BY <3>2, <3>3
  <2>4. leave' \in CR!Decided /\ ~missed' =>
          \A v \in DOMAIN desk' : desk'[v].pc = "notify" => desk'[v].status = leave'
    BY <1>1, <1>5, <2>1 DEF DeskInv
  <2>5. QED
    BY <1>1, <1>5, <2>1, <2>2, <2>3, <2>4 DEF DeskInv
<1>6. CASE CR!ReviewNotify(w)
  BY <1>5, <1>6 DEF CR!ReviewNotify
<1>7. CASE CR!ReviewNotifyFails(w)
  BY <1>5, <1>7 DEF CR!ReviewNotifyFails
<1>8. CASE CR!Killed(w)
  BY <1>5, <1>8 DEF CR!Killed
<1>9. CASE CR!CancelRead(w)
  <2> DEFINE task == [pc |-> "cancel"]
  <2>1. task \in Tasks /\ task.pc = "cancel"
    BY DEF Tasks
  <2>2. CR!Start(w, task) /\ UNCHANGED <<leave, notified, bid, missed, closed>>
    BY <1>9 DEF CR!CancelRead
  <2> HIDE DEF task
  <2>3. QED
    BY <1>1, <2>1, <2>2, AsideStep DEF CR!Start
<1>10. CASE CR!CancelDelete(w)
  <2>1. leave' \notin CR!Decided
    BY <1>10 DEF CR!CancelDelete, CR!Decided
  <2>2. QED
    BY <1>1, <1>10, <2>1, AsideStep DEF CR!CancelDelete, CR!Done
<1>11. CASE CR!BidRead(w)
  <2> DEFINE task(wish) == [pc |-> "bid", wish |-> wish, known |-> bid # CR!NoBid, late |-> closed]
  <2>1. PICK wish \in Wishes : CR!Start(w, task(wish))
    BY <1>11 DEF CR!BidRead
  <2>2. task(wish) \in Tasks /\ task(wish).pc = "bid" /\ ~task(wish).late
    BY <1>1, <1>11 DEF Tasks, CR!BidRead
  <2> HIDE DEF task
  <2>3. QED
    BY <1>1, <1>11, <2>1, <2>2, AsideStep DEF CR!BidRead, CR!Start
<1>12. CASE CR!BidWrite(w)
  <2>1. /\ desk[w].wish \in Wishes
        /\ bid' = [bid EXCEPT !.wish = desk[w].wish]
    BY <1>1, <1>12 DEF Tasks, CR!AtDesk, CR!BidWrite
  <2>2. bid' \in [wish : Wishes \cup {"none"}, locked : BOOLEAN] /\ bid'.locked = bid.locked
    BY <1>1, <2>1
  <2>3. QED
    BY <1>1, <1>12, <2>2, AsideStep DEF CR!BidWrite, CR!Done
<1>13. CASE CR!LockBids(w)
  <2>1. bid' \in [wish : Wishes \cup {"none"}, locked : BOOLEAN] /\ bid'.locked = TRUE
    BY <1>1, <1>13 DEF CR!LockBids
  <2>2. QED
    BY <1>1, <1>13, <2>1, AsideStep DEF CR!LockBids
<1> QED
  BY <1>2, <1>3, <1>4, <1>6, <1>7, <1>8, <1>9, <1>10, <1>11, <1>12, <1>13 DEF CR!Handler

LEMMA DeskRuns == RecordsSpec => []DeskInv
<1>1. CR!Init => DeskInv
  <2> SUFFICES ASSUME CR!Init PROVE DeskInv
    OBVIOUS
  <2>1. PICK D : desk = [w \in D |-> CR!AtDesk]
    BY DEF CR!Init
  <2>2. /\ bid \in [wish : Wishes \cup {"none"}, locked : BOOLEAN] /\ closed = bid.locked
        /\ leave \notin CR!Decided
    BY DEF CR!Init, CR!NoBid, CR!Decided
  <2>3. desk \in [DOMAIN desk -> Tasks] /\ \A w \in DOMAIN desk : desk[w].pc = "idle"
    BY <2>1 DEF Tasks, CR!AtDesk
  <2> QED
    BY <2>2, <2>3 DEF DeskInv, LockHolds, CR!LockHolds, ReviewIsTold, CR!ReviewIsTold
<1>2. DeskInv /\ [CR!Next]_CR!vars => DeskInv'
  <2> SUFFICES ASSUME DeskInv, [CR!Next]_CR!vars PROVE DeskInv'
    OBVIOUS
  <2>1. CASE UNCHANGED CR!vars
    BY <2>1 DEF CR!vars, DeskInv, LockHolds, CR!LockHolds, ReviewIsTold, CR!ReviewIsTold
  <2>2. CASE CR!Next
    BY <2>2, DeskStep DEF CR!Next
  <2>3. QED BY <2>1, <2>2
<1> QED BY <1>1, <1>2, RequestsRun, PTL DEF CR!Spec

\* Whatever reviews, cancellations and kills cross, a member has been told the decision
\* there is, or is being told, unless its notice was lost or crossed another
\* (leave_requests.py 132-182).
THEOREM DecisionsAreTold == RecordsSpec => []ReviewIsTold
<1>1. DeskInv => ReviewIsTold
  BY DEF DeskInv
<1> QED BY <1>1, DeskRuns, PTL

\* A bid locked once is locked for every request that reads it after that, whichever
\* were under way (bidding.py 97-146).
THEOREM LockedBidsStay == RecordsSpec => []LockHolds
<1>1. DeskInv => LockHolds
  BY DEF DeskInv
<1> QED BY <1>1, DeskRuns, PTL

----------------------------------------------------------------------------
(* The documents and the reminders of their expiry.                        *)

Scans ==
  {DO!AtRest} \cup [pc : {"notify", "stamp"}, at : Nat, due : SUBSET Papers]

\* A document that was due when a scan read it is due when the scan gets to it.
StillDue(s) ==
  /\ s.pc = "notify" => \A p \in s.due :
       expiry[p] # DO!NoDate /\ (stamped[p] = DO!NoDate \/ s.at - stamped[p] >= CoolDays)
  /\ s.pc = "stamp" => \A p \in s.due : told[p] = s.at

\* The stamps tell when the crew were told, but for the notices not stamped yet.
StampsTell ==
  \A p \in Papers \ unstamped :
    told[p] # DO!NoDate /\ expiry[p] # DO!NoDate => stamped[p] = told[p]

DocTyped ==
  /\ today \in Nat
  /\ expiry \in [Papers -> Int] /\ stamped \in [Papers -> Int] /\ told \in [Papers -> Int]
  /\ scan \in [DOMAIN scan -> Scans]

DocInv ==
  /\ DocTyped
  /\ DO!OneScanner =>
       told_early = {} /\ StampsTell /\ \A w \in DOMAIN scan : StillDue(scan[w])

LEMMA ScanStep ==
  ASSUME DocInv, NEW w \in DOMAIN scan, DO!Handler(w)
  PROVE  DocInv'
<1> USE DocumentDays
<1>g. ASSUME NEW s \in Scans,
             scan' = [scan EXCEPT ![w] = s] \/ (UNCHANGED scan /\ s = scan[w]),
             UNCHANGED today,
             expiry' \in [Papers -> Int], stamped' \in [Papers -> Int], told' \in [Papers -> Int],
             DO!OneScanner => told_early' = {} /\ StampsTell' /\ StillDue(s)'
      PROVE  DocInv'
  <2>1. /\ scan' \in [DOMAIN scan' -> Scans]
        /\ DOMAIN scan' = DOMAIN scan /\ scan'[w] = s
    BY <1>g DEF DocInv, DocTyped
  <2>2. ASSUME DO!OneScanner' PROVE DO!OneScanner /\ \A v \in DOMAIN scan' : v = w
    BY <2>1, <2>2 DEF DO!OneScanner
  <2>3. ASSUME DO!OneScanner'
        PROVE  told_early' = {} /\ StampsTell' /\ \A v \in DOMAIN scan' : StillDue(scan[v])'
    <3>1. DO!OneScanner /\ \A v \in DOMAIN scan' : scan'[v] = s
      BY <2>1, <2>2, <2>3
    <3>2. QED
      BY <1>g, <3>1 DEF StillDue
  <2>4. QED
    BY <1>g, <2>1, <2>3 DEF DocInv, DocTyped
<1>1. /\ scan[w] \in Scans /\ DO!AtRest \in Scans
      /\ today \in Nat /\ expiry \in [Papers -> Int] /\ stamped \in [Papers -> Int]
      /\ told \in [Papers -> Int]
      /\ DO!OneScanner => told_early = {} /\ StampsTell /\ StillDue(scan[w])
      /\ DO!AtRest.pc = "idle"
  BY DEF DocInv, DocTyped, Scans, DO!AtRest
<1>2. CASE DO!ScanRead(w)
  <2>1. PICK s \in Scans :
          s = [pc |-> "notify", at |-> today, due |-> {p \in Papers : DO!Due(p)}]
    BY <1>1 DEF Scans
  <2>2. \A p \in Papers : DO!Due(p) => expiry[p] # DO!NoDate
    BY <1>1 DEF DO!Due, DO!NoDate
  <2>3. StillDue(s)'
    BY <1>2, <2>1, <2>2 DEF StillDue, DO!ScanRead, DO!Due
  <2>4. scan' = [scan EXCEPT ![w] = s]
    BY <1>2, <2>1 DEF DO!ScanRead
  <2>5. UNCHANGED <<today, expiry, stamped, told, told_early, unstamped>>
    BY <1>2 DEF DO!ScanRead
  <2>6. StampsTell => StampsTell'
    BY <2>5 DEF StampsTell
  <2>7. QED
    BY <1>1, <2>3, <2>4, <2>5, <2>6, <1>g
<1>3. CASE DO!ScanNotify(w)
  <2>0. scan[w] \in [pc : {"notify", "stamp"}, at : Nat, due : SUBSET Papers]
    BY <1>1, <1>3 DEF Scans, DO!ScanNotify, DO!AtRest
  <2> DEFINE stamping == [scan[w] EXCEPT !.pc = "stamp"]
  <2>8. /\ stamping \in Scans
        /\ stamping.pc = "stamp" /\ stamping.at = scan[w].at /\ stamping.due = scan[w].due
    BY <2>0 DEF Scans
  <2>9. scan' = [scan EXCEPT ![w] = stamping]
    BY <1>3 DEF DO!ScanNotify
  <2> HIDE DEF stamping
  <2>1. PICK s \in Scans :
          /\ s = stamping
          /\ s.pc = "stamp" /\ s.at = scan[w].at /\ s.due = scan[w].due
    BY <2>8
  <2>2. told' = [p \in Papers |-> IF p \in s.due THEN s.at ELSE told[p]]
    BY <1>3, <2>1 DEF DO!ScanNotify
  <2>3. told' \in [Papers -> Int] /\ StillDue(s)'
    BY <1>1, <2>0, <2>1, <2>2 DEF StillDue
  <2>4. ASSUME DO!OneScanner PROVE told_early' = {}
    <3>1. ASSUME NEW p \in scan[w].due \ unstamped, told[p] # DO!NoDate
          PROVE  ~(scan[w].at - told[p] < CoolDays)
      BY <1>1, <1>3, <2>0, <2>4, <3>1 DEF StillDue, StampsTell, DO!ScanNotify
    <3>2. QED
      BY <1>1, <1>3, <2>4, <3>1 DEF DO!ScanNotify
  <2>5. StampsTell => StampsTell'
    BY <1>3, <2>1, <2>2 DEF StampsTell, DO!ScanNotify
  <2>6. scan' = [scan EXCEPT ![w] = s]
    BY <2>1, <2>9
  <2>7. QED
    BY <1>1, <1>3, <2>1, <2>3, <2>4, <2>5, <2>6, <1>g DEF DO!ScanNotify
<1>4. CASE DO!ScanStamp(w)
  <2>1. PICK p \in scan[w].due :
          /\ stamped' = [stamped EXCEPT ![p] = IF expiry[p] = DO!NoDate THEN @ ELSE scan[w].at]
          /\ unstamped' = unstamped \ {p}
          /\ scan' = [scan EXCEPT ![w] = IF scan[w].due = {p} THEN DO!AtRest
                                         ELSE [scan[w] EXCEPT !.due = scan[w].due \ {p}]]
    BY <1>4 DEF DO!ScanStamp
  <2>2. scan[w] \in [pc : {"notify", "stamp"}, at : Nat, due : SUBSET Papers] /\ scan[w].pc = "stamp"
    BY <1>1, <1>4 DEF Scans, DO!ScanStamp, DO!AtRest
  <2> DEFINE left == [scan[w] EXCEPT !.due = scan[w].due \ {p}]
  <2>0. /\ left \in [pc : {"stamp"}, at : Nat, due : SUBSET Papers]
        /\ left.at = scan[w].at /\ left.due \subseteq scan[w].due
    BY <2>2
  <2> HIDE DEF left
  <2>3. PICK s \in Scans : s = IF scan[w].due = {p} THEN DO!AtRest ELSE left
    BY <1>1, <2>0 DEF Scans
  <2>8. ASSUME StillDue(scan[w]) PROVE StillDue(s)'
    <3>1. told' = told /\ \A q \in scan[w].due : told[q] = scan[w].at
      BY <1>4, <2>2, <2>8 DEF StillDue, DO!ScanStamp
    <3>2. left.pc = "stamp"
      BY <2>0
    <3>3. CASE s = DO!AtRest
      BY <1>1, <3>3 DEF StillDue
    <3>4. CASE s = left
      BY <2>0, <3>1, <3>2, <3>4 DEF StillDue
    <3>5. QED
      BY <2>3, <3>3, <3>4
  <2>4. stamped' \in [Papers -> Int] /\ p \in Papers
    BY <1>1, <2>1, <2>2
  <2>5. StampsTell /\ StillDue(scan[w]) => StampsTell'
    BY <1>1, <1>4, <2>1, <2>2, <2>4 DEF StampsTell, StillDue, DO!ScanStamp
  <2>6. scan' = [scan EXCEPT ![w] = s]
    <3>1. CASE scan[w].due = {p}
      <4>1. scan' = [scan EXCEPT ![w] = DO!AtRest]
        BY <2>1, <3>1
      <4>2. QED BY <2>3, <3>1, <4>1
    <3>2. CASE scan[w].due # {p}
      <4>1. scan' = [scan EXCEPT ![w] = left]
        BY <2>1, <3>2 DEF left
      <4>2. QED BY <2>3, <3>2, <4>1
    <3>3. QED
      BY <3>1, <3>2
  <2>7. UNCHANGED <<today, expiry, told, told_early>>
    BY <1>4 DEF DO!ScanStamp
  <2>9. QED
    BY <1>1, <2>4, <2>5, <2>6, <2>7, <2>8, <1>g
<1>5. CASE DO!Killed(w)
  BY <1>1, <1>5, <1>g DEF DO!Killed, StillDue, StampsTell
<1>6. ASSUME scan[w] = DO!AtRest, NEW p \in Papers, NEW day \in Int,
             day = DO!NoDate \/ expiry[p] # DO!NoDate \/ told[p] = DO!NoDate,
             expiry' = [expiry EXCEPT ![p] = day],
             UNCHANGED <<today, stamped, scan, told, told_early, unstamped>>
      PROVE  DocInv'
  <2>1. expiry' \in [Papers -> Int] /\ StillDue(scan[w])'
    BY <1>1, <1>6 DEF StillDue
  <2>2. StampsTell => StampsTell'
    BY <1>1, <1>6 DEF StampsTell
  <2>3. QED
    BY <1>1, <1>6, <2>1, <2>2, <1>g
<1>7. CASE DO!CreateDocument(w)
  <2>1. PICK p \in Papers, left \in Renewals :
          told[p] = DO!NoDate /\ expiry' = [expiry EXCEPT ![p] = today + left]
    BY <1>7 DEF DO!CreateDocument
  <2>2. today + left \in Int
    BY <1>1
  <2>3. QED
    BY <1>7, <2>1, <2>2, <1>6 DEF DO!CreateDocument
<1>8. CASE DO!UpdateDocument(w)
  <2>1. PICK p \in Papers, left \in Renewals :
          expiry[p] # DO!NoDate /\ expiry' = [expiry EXCEPT ![p] = today + left]
    BY <1>8 DEF DO!UpdateDocument
  <2>2. today + left \in Int
    BY <1>1
  <2>3. QED
    BY <1>8, <2>1, <2>2, <1>6 DEF DO!UpdateDocument
<1>9. CASE DO!VerifyDocument(w)
  BY <1>1, <1>9, <1>g DEF DO!VerifyDocument, StillDue, StampsTell
<1>10. CASE DO!DeleteDocument(w)
  <2>1. DO!NoDate \in Int
    BY DEF DO!NoDate
  <2>2. QED
    BY <1>10, <2>1, <1>6 DEF DO!DeleteDocument
<1> QED
  BY <1>2, <1>3, <1>4, <1>5, <1>7, <1>8, <1>9, <1>10 DEF DO!Handler

\* With one process no two reminders of a document come within the cooldown, but
\* after a scan cut off before its stamp (documents.py).
THEOREM RemindersOfDocumentsAreSpaced == RecordsSpec => []DocRemindersSpaced
<1>1. DO!Init => DocInv
  <2> SUFFICES ASSUME DO!Init PROVE DocInv
    OBVIOUS
  <2>1. PICK D : scan = [w \in D |-> DO!AtRest]
    BY DEF DO!Init
  <2>2. scan \in [DOMAIN scan -> Scans] /\ \A w \in DOMAIN scan : scan[w] = DO!AtRest
    BY <2>1 DEF Scans
  <2>3. today \in Nat /\ told = stamped /\ stamped = [p \in Papers |-> DO!NoDate]
    BY DEF DO!Init
  <2>5. {DO!NoDate} \cup Renewals \subseteq Int
    BY DocumentDays DEF DO!NoDate
  <2>6. expiry \in [Papers -> Int]
    BY <2>5 DEF DO!Init
  <2>4. stamped \in [Papers -> Int] /\ StillDue(DO!AtRest) /\ StampsTell
    BY <2>3 DEF StillDue, StampsTell, DO!AtRest, DO!NoDate
  <2> QED
    BY <2>2, <2>3, <2>4, <2>6 DEF DocInv, DocTyped, DO!Init
<1>2. DocInv /\ [DO!Next]_DO!vars => DocInv'
  <2> SUFFICES ASSUME DocInv, [DO!Next]_DO!vars PROVE DocInv'
    OBVIOUS
  <2>1. CASE UNCHANGED DO!vars
    BY <2>1 DEF DO!vars, DocInv, DocTyped, StampsTell, StillDue, DO!OneScanner
  <2>2. CASE DO!DayPasses
    <3>1. today' \in Nat
      BY <2>2 DEF DocInv, DocTyped, DO!DayPasses
    <3>2. QED
      BY <2>2, <3>1 DEF DO!DayPasses, DocInv, DocTyped, StampsTell, StillDue, DO!OneScanner
  <2>3. CASE \E w \in DOMAIN scan : DO!Handler(w)
    BY <2>3, ScanStep
  <2>4. QED BY <2>1, <2>2, <2>3 DEF DO!Next
<1>3. DocInv => DocRemindersSpaced
  BY DEF DocInv, DocRemindersSpaced, DO!DocRemindersSpaced
<1> QED BY <1>1, <1>2, <1>3, DocumentsRun, PTL DEF DO!Spec

----------------------------------------------------------------------------
(* The acceptance reminders of a flight: their types and their spacing.    *)

OneSweeper == \A v, w \in Workers : v = w

RemTyped ==
  /\ now \in Nat /\ std \in Nat /\ dep \in Nat /\ std <= dep
  /\ ran \in BOOLEAN /\ pub \in BOOLEAN /\ cut \in BOOLEAN
  /\ pending \subseteq Members
  /\ waiting \in [Members -> Nat] /\ last \in [Members -> Int]
  /\ \A s \in sent : /\ s.at \in Nat /\ s.at <= now
                     /\ s.to \in Members => s.at <= last[s.to]
  /\ worker \in [Workers -> RM!Sweep]
  /\ \A w \in Workers : worker[w].pc = "idle" => worker[w].todo = {}

LEMMA OneMoreNotice ==
  ASSUME NEW type, NEW x, RM!Insert(type, x)
  PROVE  \E r : sent' = sent \cup {r} /\ r.type = type /\ r.to = x /\ r.at = now
<1> DEFINE row(i) == [id |-> i, type |-> type, to |-> x, at |-> now]
           i      == CHOOSE i \in 0..RM!Cardinality(sent) : row(i) \notin sent
<1>1. sent' = sent \cup {row(i)}
  BY DEF RM!Insert
<1>2. row(i).type = type /\ row(i).to = x /\ row(i).at = now
  OBVIOUS
<1> HIDE DEF row
<1> QED BY <1>1, <1>2

\* What a sweep reads and what it is to do then.
LEMMA SweepBegins ==
  ASSUME RemTyped, NEW w \in Workers, RM!ReadFlight(w)
  PROVE  \E s \in RM!Sweep :
           /\ worker' = [worker EXCEPT ![w] = s]
           /\ s.pc = "sweep" /\ s.todo \subseteq pending \cap accounts
           /\ RM!InScope /\ worker[w].pc = "idle"
           /\ s.urgent <=> dep <= now + Urgent
           /\ \A m \in pending \cap accounts : RM!Dedupe(IF s.urgent THEN "urgent" ELSE "gentle", m, m \notin s.todo)
           /\ s.follow => RM!Dedupe("followup", Ops, FALSE)
<1>1. PICK due \in SUBSET (pending \cap accounts), follow \in BOOLEAN :
        /\ \A m \in pending \cap accounts : RM!Dedupe(IF dep <= now + Urgent THEN "urgent" ELSE "gentle",
                                        m, m \notin due)
        /\ IF dep <= now + Urgent THEN RM!Dedupe("followup", Ops, ~follow) ELSE ~follow
        /\ worker' = [worker EXCEPT ![w] = [pc |-> "sweep", todo |-> due,
                        urgent |-> dep <= now + Urgent, follow |-> follow]]
  BY DEF RM!ReadFlight
<1> DEFINE s == [pc |-> "sweep", todo |-> due, urgent |-> dep <= now + Urgent, follow |-> follow]
<1>2. s \in RM!Sweep
  BY DEF RemTyped, RM!Sweep
<1>3. /\ s.pc = "sweep" /\ s.todo = due /\ s.follow = follow
      /\ s.urgent <=> dep <= now + Urgent
  OBVIOUS
<1>4. worker' = [worker EXCEPT ![w] = s]
  BY <1>1
<1> HIDE DEF s
<1>5. RM!InScope /\ worker[w].pc = "idle"
  BY DEF RM!ReadFlight
<1>6. \A m \in pending \cap accounts : RM!Dedupe(IF s.urgent THEN "urgent" ELSE "gentle", m, m \notin s.todo)
  BY <1>1, <1>3
<1>7. s.follow => RM!Dedupe("followup", Ops, FALSE)
  <2>1. CASE ~follow
    BY <1>3, <2>1
  <2>2. CASE follow = TRUE
    BY <1>1, <1>3, <2>2
  <2>3. QED BY <2>1, <2>2
<1> QED
  BY <1>2, <1>3, <1>4, <1>5, <1>6, <1>7

LEMMA TypesKept ==
  ASSUME RemTyped, RM!Next
  PROVE  RemTyped'
<1>n. \A n, m \in Nat : n <= m => n <= m + 1
  OBVIOUS
<1> USE ReminderTimes DEF RM!TimeAssumption, RemTyped, RM!history
<1>1. ASSUME NEW w \in Workers, RM!ReadFlight(w),
             UNCHANGED <<now, dep, pub, pending, sent, RM!history>>, ran' \in BOOLEAN
      PROVE  RemTyped'
  <2>1. PICK s \in RM!Sweep : worker' = [worker EXCEPT ![w] = s] /\ s.pc = "sweep"
    BY <1>1, SweepBegins
  <2>2. QED
    BY <1>1, <2>1
<1>2. ASSUME NEW w \in Workers, RM!ManualSweep(w) PROVE RemTyped'
  BY <1>1, <1>2 DEF RM!ManualSweep
<1>3. ASSUME NEW w \in Workers, RM!CronSweep(w) PROVE RemTyped'
  <2>1. CASE RM!ReadFlight(w)
    BY <1>1, <1>3, <2>1 DEF RM!CronSweep
  <2>2. CASE UNCHANGED worker
    BY <1>3, <2>2 DEF RM!CronSweep
  <2>3. QED BY <1>3, <2>1, <2>2 DEF RM!CronSweep
<1>4. ASSUME NEW w \in Workers, NEW m \in Members, RM!SendReminder(w, m) PROVE RemTyped'
  <2>1. PICK r : sent' = sent \cup {r} /\ r.at = now /\ r.to = m
    BY <1>4, OneMoreNotice DEF RM!SendReminder
  <2> DEFINE s == [worker[w] EXCEPT !.todo = @ \ {m}]
  <2>2. s \in RM!Sweep /\ (s.pc = "idle" => s.todo = {})
    BY <1>4 DEF RM!SendReminder, RM!Sweep
  <2>3. worker' = [worker EXCEPT ![w] = s]
    BY <1>4 DEF RM!SendReminder
  <2> HIDE DEF s
  <2>4. /\ worker' \in [Workers -> RM!Sweep]
        /\ \A v \in Workers : worker'[v].pc = "idle" => worker'[v].todo = {}
    BY <2>2, <2>3
  <2>5. /\ last' \in [Members -> Int]
        /\ \A x \in sent' : /\ x.at \in Nat /\ x.at <= now
                            /\ x.to \in Members => x.at <= last'[x.to]
    BY <1>4, <2>1 DEF RM!SendReminder
  <2>6. UNCHANGED <<now, ran, dep, pub, pending, waiting, std, cut>>
    BY <1>4 DEF RM!SendReminder
  <2>7. QED
    BY <2>4, <2>5, <2>6
<1>5. RM!Idle \in RM!Sweep /\ RM!Idle.todo = {}
  BY DEF RM!Idle, RM!Sweep
<1>6. ASSUME NEW w \in Workers, RM!EndSweep(w) PROVE RemTyped'
  <2>1. \A s \in sent' : s \in sent \/ (s.at = now /\ s.to = Ops)
    BY <1>6, OneMoreNotice DEF RM!EndSweep
  <2>2. Ops \notin Members
    BY DEF RM!OpsAssumption
  <2>3. QED
    BY <1>5, <1>6, <2>1, <2>2 DEF RM!EndSweep
<1>7. ASSUME NEW w \in Workers, RM!Crash(w) PROVE RemTyped'
  BY <1>5, <1>7 DEF RM!Crash
<1>8. CASE RM!Publish
  BY <1>8 DEF RM!Publish
<1>9. ASSUME NEW m \in Members, RM!Answer(m) \/ RM!Account(m) PROVE RemTyped'
  BY <1>9 DEF RM!Answer, RM!Account
<1>d. ASSUME NEW n \in sent, RM!DeleteNotice(n) PROVE RemTyped'
  BY <1>d DEF RM!DeleteNotice
<1>10. ASSUME NEW d \in Delays, RM!Delay(d) PROVE RemTyped'
  <2>1. d \in Nat /\ dep' = dep + d
    BY <1>10 DEF RM!Delay
  <2>2. dep' \in Nat /\ std <= dep'
    BY <2>1
  <2>3. QED
    BY <1>10, <2>2 DEF RM!Delay
<1>11. CASE RM!Tick
  <2>1. ASSUME NEW m \in Members
        PROVE  (IF ~(RM!InScope /\ m \in pending \cap accounts) THEN 0
                ELSE IF waiting[m] > Day THEN waiting[m] ELSE waiting[m] + 1) \in Nat
    OBVIOUS
  <2>3. waiting' \in [Members -> Nat]
    BY <1>11, <2>1 DEF RM!Tick
  <2>4. /\ now' = now + 1 /\ ran' = FALSE /\ sent' \subseteq sent
        /\ UNCHANGED <<dep, pub, pending, worker, std, last, cut>>
    BY <1>11 DEF RM!Tick
  <2>5. now' \in Nat /\ \A s \in sent' : /\ s.at \in Nat /\ s.at <= now'
                                       /\ s.to \in Members => s.at <= last'[s.to]
    <3>1. now' = now + 1 /\ sent' \subseteq sent /\ last' = last
      BY <2>4
    <3>2. QED
      BY <1>n, <3>1
  <2>6. worker' \in [Workers -> RM!Sweep] /\ dep' \in Nat /\ std' <= dep'
    BY <2>4
  <2>7. ran' \in BOOLEAN /\ pub' \in BOOLEAN /\ cut' \in BOOLEAN
    BY <2>4
  <2>8. QED
    BY <2>3, <2>4, <2>5, <2>6, <2>7
<1> HIDE DEF RemTyped, RM!history
<1> QED
  BY <1>2, <1>3, <1>4, <1>6, <1>7, <1>8, <1>9, <1>d, <1>10, <1>11 DEF RM!Next

\* The notices sent so far: an urgent one went out in the urgent window of the
\* departure first scheduled.
SpacedNotices ==
  /\ RemindersSpaced
  /\ \A s \in sent : s.type = "urgent" => s.at + Urgent >= std

\* What a sweep is still to send is due.
Fresh(s) ==
  s.pc = "sweep" =>
    /\ now <= dep
    /\ s.urgent => std <= now + Urgent
    /\ \A m \in s.todo, n \in sent : n.to = m =>
         /\ n.type = "gentle" /\ ~s.urgent => n.at + Cooldown <= now
         /\ n.type = "urgent" /\ s.urgent => n.at + Horizon <= now
    /\ s.follow => \A n \in sent :
         n.type = "followup" /\ n.to = Ops => n.at + FollowCooldown <= now

SpacedInv ==
  /\ SpacedNotices
  /\ \A w \in Workers : Fresh(worker[w])

\* One more notice, a cooldown or a lookback after the last of its type.
LEMMA NoticeSpaced ==
  ASSUME RemTyped, SpacedNotices, NEW r,
         sent' = sent \cup {r}, r.at = now, UNCHANGED <<now, dep, std>>,
         now <= dep,
         \A n \in sent : n.to = r.to /\ n.type = r.type =>
           /\ r.type = "gentle" => n.at + Cooldown <= now
           /\ r.type = "followup" => n.at + FollowCooldown <= now
           /\ r.type = "urgent" => n.at + Horizon <= now,
         r.type = "urgent" => std <= now + Urgent
  PROVE  SpacedNotices'
<1> USE ReminderTimes DEF RM!TimeAssumption
<1>1. now \in Nat /\ dep \in Nat /\ std \in Nat /\ \A n \in sent : n.at \in Nat
  BY DEF RemTyped
<1>2. RM!GentleSpaced'
  BY <1>1 DEF SpacedNotices, RemindersSpaced, RM!GentleSpaced, RM!Spaced
<1>3. RM!FollowupSpaced'
  BY <1>1 DEF SpacedNotices, RemindersSpaced, RM!FollowupSpaced, RM!Spaced
<1>4. \A s \in sent' : s.type = "urgent" => s.at + Urgent >= std
  BY <1>1 DEF SpacedNotices
<1>5. RM!UrgentOnce'
  <2>1. ASSUME (dep - std) + Urgent < Horizon, r.type = "urgent",
               NEW n \in sent, n.to = r.to, n.type = r.type
        PROVE  FALSE
    <3>1. n.at + Horizon <= now /\ n.at + Urgent >= std
      BY <2>1 DEF SpacedNotices
    <3>2. QED
      BY <1>1, <2>1, <3>1
  <2>2. (dep - std) + Urgent < Horizon =>
          \A a, b \in sent : a.type = "urgent" /\ b.type = "urgent" /\ a.to = b.to => a = b
    BY DEF SpacedNotices, RemindersSpaced, RM!UrgentOnce
  <2>3. QED
    BY <2>1, <2>2 DEF RM!UrgentOnce
<1> QED
  BY <1>2, <1>3, <1>4, <1>5 DEF SpacedNotices, RemindersSpaced

LEMMA SpacingKept ==
  ASSUME OneSweeper
  PROVE  RemTyped /\ SpacedInv /\ RM!Next => SpacedInv'
<1> SUFFICES ASSUME RemTyped, SpacedInv, RM!Next PROVE SpacedInv'
  OBVIOUS
<1> USE ReminderTimes DEF RM!TimeAssumption
<1>1. /\ now \in Nat /\ dep \in Nat /\ std \in Nat /\ \A n \in sent : n.at \in Nat
      /\ worker \in [Workers -> RM!Sweep]
  BY DEF RemTyped
<1>2. ASSUME NEW w \in Workers, NEW s, worker' = [worker EXCEPT ![w] = s], Fresh(s)', SpacedNotices'
      PROVE  SpacedInv'
  <2>1. \A v \in Workers : worker'[v] = s
    BY <1>1, <1>2 DEF OneSweeper
  <2>2. QED
    BY <1>2, <2>1 DEF SpacedInv, Fresh
<1>3. ASSUME sent' \subseteq sent, UNCHANGED std, dep' \in Nat, dep <= dep' PROVE SpacedNotices'
  BY <1>1, <1>3 DEF SpacedInv, SpacedNotices, RemindersSpaced, RM!GentleSpaced, RM!FollowupSpaced,
     RM!UrgentOnce, RM!Spaced
<1>4. ASSUME NEW w \in Workers, RM!ReadFlight(w), UNCHANGED <<now, dep, sent, std>>
      PROVE  SpacedInv'
  <2>1. PICK s \in RM!Sweep :
           /\ worker' = [worker EXCEPT ![w] = s]
           /\ s.todo \subseteq pending \cap accounts /\ RM!InScope
           /\ s.urgent <=> dep <= now + Urgent
           /\ \A m \in pending \cap accounts : RM!Dedupe(IF s.urgent THEN "urgent" ELSE "gentle", m, m \notin s.todo)
           /\ s.follow => RM!Dedupe("followup", Ops, FALSE)
    BY <1>4, SweepBegins
  <2>2. now <= dep /\ (s.urgent => std <= now + Urgent)
    BY <1>1, <2>1 DEF RM!InScope, RemTyped
  <2>3. ASSUME NEW m \in s.todo, NEW n \in sent, n.to = m
        PROVE  /\ n.type = "gentle" /\ ~s.urgent => n.at + Cooldown <= now
               /\ n.type = "urgent" /\ s.urgent => n.at + Horizon <= now
    <3>1. ~s.urgent => ~RM!SentWithin("gentle", m, Cooldown)
      BY <2>1, <2>3 DEF RM!Dedupe, RM!Lookback
    <3>2. s.urgent => ~RM!SentWithin("urgent", m, Horizon)
      BY <2>1, <2>3 DEF RM!Dedupe, RM!Lookback
    <3>3. QED
      BY <1>1, <2>3, <3>1, <3>2 DEF RM!SentWithin
  <2>4. s.follow => \A n \in sent : n.type = "followup" /\ n.to = Ops => n.at + FollowCooldown <= now
    <3>1. s.follow => ~RM!SentWithin("followup", Ops, FollowCooldown)
      BY <2>1 DEF RM!Dedupe, RM!Lookback
    <3>2. QED
      BY <1>1, <3>1 DEF RM!SentWithin
  <2>5. Fresh(s)'
    BY <1>4, <2>2, <2>3, <2>4 DEF Fresh
  <2>6. SpacedNotices'
    BY <1>1, <1>3, <1>4
  <2>7. QED
    BY <1>2, <2>1, <2>5, <2>6
<1>5. ASSUME sent' \subseteq sent, UNCHANGED <<worker, std, now>>, dep' \in Nat, dep <= dep'
      PROVE  SpacedInv'
  <2>1. SpacedNotices'
    BY <1>3, <1>5
  <2>2. QED
    BY <1>1, <1>5, <2>1 DEF SpacedInv, Fresh
<1>6. ASSUME NEW w \in Workers, RM!ManualSweep(w) PROVE SpacedInv'
  BY <1>4, <1>6 DEF RM!ManualSweep, RM!history
<1>7. ASSUME NEW w \in Workers, RM!CronSweep(w) PROVE SpacedInv'
  BY <1>1, <1>4, <1>5, <1>7 DEF RM!CronSweep, RM!history
<1>8. ASSUME NEW w \in Workers, NEW m \in Members, RM!SendReminder(w, m) PROVE SpacedInv'
  <2>1. PICK r : /\ sent' = sent \cup {r} /\ r.to = m /\ r.at = now
                 /\ r.type = IF worker[w].urgent THEN "urgent" ELSE "gentle"
    BY <1>8, OneMoreNotice DEF RM!SendReminder
  <2>2. worker[w].pc = "sweep" /\ m \in worker[w].todo /\ worker[w] \in RM!Sweep
    BY <1>1, <1>8 DEF RM!SendReminder, RemTyped, RM!Sweep
  <2>3. UNCHANGED <<now, dep, std>>
    BY <1>8 DEF RM!SendReminder, RM!history
  <2>4. Fresh(worker[w])
    BY DEF SpacedInv
  <2>5. SpacedNotices'
    BY <2>1, <2>2, <2>3, <2>4, NoticeSpaced DEF SpacedInv, Fresh
  <2> DEFINE left == [worker[w] EXCEPT !.todo = worker[w].todo \ {m}]
  <2>6. worker' = [worker EXCEPT ![w] = left]
    BY <1>8 DEF RM!SendReminder
  <2>7. /\ left.pc = worker[w].pc /\ left.urgent = worker[w].urgent /\ left.follow = worker[w].follow
        /\ left.todo = worker[w].todo \ {m}
    BY <2>2 DEF RM!Sweep
  <2> HIDE DEF left
  <2>8. PICK s : s = left
    OBVIOUS
  <2>9. Fresh(s)'
    BY <2>1, <2>2, <2>3, <2>4, <2>7, <2>8 DEF Fresh
  <2> QED
    BY <1>2, <2>5, <2>6, <2>8, <2>9
<1>9. ASSUME NEW w \in Workers, worker' = [worker EXCEPT ![w] = RM!Idle], SpacedNotices' PROVE SpacedInv'
  <2>1. Fresh(RM!Idle)'
    BY DEF Fresh, RM!Idle
  <2>2. QED
    BY <1>2, <1>9, <2>1
<1>10. ASSUME NEW w \in Workers, RM!EndSweep(w) PROVE SpacedInv'
  <2>1. CASE worker[w].follow /\ RM!Insert("followup", Ops)
    <3>1. PICK r : sent' = sent \cup {r} /\ r.to = Ops /\ r.at = now /\ r.type = "followup"
      BY <1>10, <2>1, OneMoreNotice DEF RM!EndSweep
    <3>2. UNCHANGED <<now, dep, std>>
      BY <1>10 DEF RM!EndSweep, RM!history
    <3>3. Fresh(worker[w]) /\ worker[w].pc = "sweep"
      BY <1>10 DEF SpacedInv, RM!EndSweep
    <3>4. SpacedNotices'
      BY <2>1, <3>1, <3>2, <3>3, NoticeSpaced DEF SpacedInv, Fresh
    <3>5. QED
      BY <1>9, <1>10, <3>4 DEF RM!EndSweep
  <2>2. CASE UNCHANGED sent
    <3>1. UNCHANGED <<sent, now, dep, std>>
      BY <1>10, <2>2 DEF RM!EndSweep, RM!history
    <3>2. SpacedNotices'
      BY <1>1, <1>3, <3>1
    <3>3. QED
      BY <1>9, <1>10, <3>2 DEF RM!EndSweep
  <2>3. QED BY <1>10, <2>1, <2>2 DEF RM!EndSweep
<1>11. ASSUME NEW w \in Workers, RM!Crash(w) PROVE SpacedInv'
  <2>1. SpacedNotices'
    BY <1>1, <1>3, <1>11 DEF RM!Crash
  <2>2. QED
    BY <1>9, <1>11, <2>1 DEF RM!Crash
<1>12. CASE RM!Publish
  BY <1>1, <1>5, <1>12 DEF RM!Publish
<1>13. ASSUME NEW m \in Members, RM!Answer(m) \/ RM!Account(m) PROVE SpacedInv'
  BY <1>1, <1>5, <1>13 DEF RM!Answer, RM!Account
<1>d. ASSUME NEW n \in sent, RM!DeleteNotice(n) PROVE SpacedInv'
  BY <1>1, <1>5, <1>d DEF RM!DeleteNotice, RM!history
<1>14. ASSUME NEW d \in Delays, RM!Delay(d) PROVE SpacedInv'
  <2>1. d \in Nat /\ dep' = dep + d /\ UNCHANGED <<worker, sent, std, now>>
    BY <1>14 DEF RM!Delay, RM!history
  <2>2. QED
    BY <1>1, <1>5, <2>1
<1>15. CASE RM!Tick
  <2>1. /\ sent' \subseteq sent /\ UNCHANGED <<dep, worker, std>>
        /\ \A w \in Workers : worker[w].pc = "idle"
    BY <1>15 DEF RM!Tick, RM!AllIdle
  <2>2. SpacedNotices'
    BY <1>1, <1>3, <2>1
  <2>3. QED
    BY <2>1, <2>2 DEF SpacedInv, Fresh
<1> QED
  BY <1>6, <1>7, <1>8, <1>10, <1>11, <1>12, <1>13, <1>d, <1>14, <1>15 DEF RM!Next

LEMMA SweepsTyped == RM!Spec => []RemTyped
<1>1. RM!Init => RemTyped
  <2> SUFFICES ASSUME RM!Init PROVE RemTyped
    OBVIOUS
  <2>1. 0..MaxTime \subseteq Nat
    BY ReminderTimes DEF RM!TimeAssumption
  <2>2. now \in Nat /\ std \in Nat /\ dep \in Nat /\ std <= dep
    BY <2>1 DEF RM!Init, RM!Times
  <2>3. worker \in [Workers -> RM!Sweep] /\ \A w \in Workers : worker[w].todo = {}
    BY DEF RM!Init, RM!Idle, RM!Sweep
  <2>4. last \in [Members -> Int]
    BY ReminderTimes DEF RM!Init, RM!Never, RM!TimeAssumption
  <2>5. QED
    BY <2>2, <2>3, <2>4 DEF RM!Init, RemTyped
<1>2. RemTyped /\ [RM!Next]_RM!vars => RemTyped'
  <2> SUFFICES ASSUME RemTyped, [RM!Next]_RM!vars PROVE RemTyped'
    OBVIOUS
  <2>1. CASE UNCHANGED RM!vars
    BY <2>1 DEF RM!vars, RM!history, RemTyped
  <2>2. CASE RM!Next
    BY <2>2, TypesKept
  <2>3. QED BY <2>1, <2>2
<1> QED BY <1>1, <1>2, PTL DEF RM!Spec

\* With one process the gentle reminders a member has stay a cooldown apart, the
\* follow-ups theirs, and he has one urgent reminder, whatever is run by hand, cut off,
\* delayed or deleted
\* (assignments.py, _scan_company_acceptance_reminders).
THEOREM RemindersStaySpaced ==
  ASSUME OneSweeper
  PROVE  RecordsSpec => []RemindersSpaced
<1>1. RM!Init => SpacedInv
  BY DEF RM!Init, SpacedInv, SpacedNotices, RemindersSpaced, RM!GentleSpaced, RM!FollowupSpaced,
     RM!UrgentOnce, RM!Spaced, Fresh, RM!Idle
<1>2. RemTyped /\ SpacedInv /\ [RM!Next]_RM!vars => SpacedInv'
  <2> SUFFICES ASSUME RemTyped, SpacedInv, [RM!Next]_RM!vars PROVE SpacedInv'
    OBVIOUS
  <2>1. CASE UNCHANGED RM!vars
    BY <2>1 DEF RM!vars, RM!history, SpacedInv, SpacedNotices, RemindersSpaced, RM!GentleSpaced,
       RM!FollowupSpaced, RM!UrgentOnce, RM!Spaced, Fresh
  <2>2. CASE RM!Next
    BY <2>2, SpacingKept
  <2>3. QED BY <2>1, <2>2
<1>3. SpacedInv => RemindersSpaced
  BY DEF SpacedInv, SpacedNotices
<1> QED BY <1>1, <1>2, <1>3, SweepsTyped, RemindersRun, PTL DEF RM!Spec

----------------------------------------------------------------------------
(* Whoever stays pending is reminded.                                      *)

\* The remainder grows by one, or starts again.
LEMMA NextRemainder ==
  ASSUME NEW n \in Nat, NEW D \in Nat \ {0}
  PROVE  \/ (n + 1) % D = 0 /\ n % D = D - 1
         \/ (n + 1) % D = (n % D) + 1
<1>1. n % D \in 0 .. D - 1 /\ (n + 1) % D \in 0 .. D - 1
  OBVIOUS
<1>2. n = D * (n \div D) + (n % D) /\ n \div D \in Int
  OBVIOUS
<1>3. n + 1 = D * ((n + 1) \div D) + ((n + 1) % D) /\ (n + 1) \div D \in Int
  <2>1. \A m \in Nat : m = D * (m \div D) + (m % D) /\ m \div D \in Int
    OBVIOUS
  <2> QED BY <2>1
<1>4. ASSUME NEW a \in Int, NEW b \in Int, NEW r \in 0 .. D - 1, NEW s \in 0 .. D - 1,
             n = D * a + r, n + 1 = D * b + s
      PROVE  (s = 0 /\ r = D - 1) \/ s = r + 1
  <2> DEFINE k == b - a
  <2>1. k \in Int /\ D * k = r + 1 - s
    BY <1>4
  <2> HIDE DEF k
  <2>2. k >= 2 => D * k >= D + D
    BY <2>1
  <2>3. k <= -1 => D * k <= -D
    BY <2>1
  <2>4. k = 0 \/ k = 1
    BY <2>1, <2>2, <2>3
  <2>5. QED
    BY <2>1, <2>4
<1> QED BY <1>1, <1>2, <1>3, <1>4

\* The member is being reminded, or has been within the lookback from the instant c.
Reminded(m, c) ==
  \/ last[m] + Horizon >= c
  \/ \E w \in Workers : m \in worker[w].todo

\* A member who could be reminded when the cron last ran was reminded by then: at
\* the last instant of the cron before now or, if it has run, at this one.
Served(m) ==
  LET r == now % Day IN
    /\ waiting[m] > 0 => pub /\ m \in pending \cap accounts
    /\ r # 0 /\ waiting[m] > r => Reminded(m, now - r)
    /\ r = 0 /\ waiting[m] > Day => Reminded(m, now - Day)
    /\ r = 0 /\ ran /\ waiting[m] > 0 /\ RM!InScope => Reminded(m, now)

ServedInv == ~cut => \A m \in Members : Served(m)

\* A reminder under way is sent, unless the sweep is cut off.
LEMMA RemindedStays ==
  ASSUME RemTyped, RM!Next, ~cut', NEW m \in Members, NEW c \in Int, c <= now, Reminded(m, c)
  PROVE  Reminded(m, c)'
<1> USE ReminderTimes DEF RM!TimeAssumption
<1>1. /\ now \in Nat /\ worker \in [Workers -> RM!Sweep]
      /\ \A w \in Workers : worker[w].pc = "idle" => worker[w].todo = {}
  BY DEF RemTyped
<1>2. ASSUME UNCHANGED last, \A w \in Workers : worker[w].todo \subseteq worker'[w].todo
      PROVE  Reminded(m, c)'
  BY <1>2 DEF Reminded
<1>3. ASSUME NEW w \in Workers, RM!ReadFlight(w), UNCHANGED last PROVE Reminded(m, c)'
  <2>1. PICK s : worker' = [worker EXCEPT ![w] = s] /\ worker[w].pc = "idle"
    BY <1>3, SweepBegins
  <2>2. QED
    BY <1>1, <1>2, <1>3, <2>1
<1>4. ASSUME NEW w \in Workers, NEW n \in Members, RM!SendReminder(w, n) PROVE Reminded(m, c)'
  <2>1. last' = [last EXCEPT ![n] = now] /\ last \in [Members -> Int]
    BY <1>4 DEF RM!SendReminder, RemTyped
  <2>2. \A v \in Workers : worker[v].todo \ {n} \subseteq worker'[v].todo
    BY <1>1, <1>4 DEF RM!SendReminder, RM!Sweep
  <2>3. CASE m = n
    BY <1>1, <2>1, <2>3 DEF Reminded
  <2>4. CASE m # n
    BY <2>1, <2>2, <2>4 DEF Reminded
  <2>5. QED BY <2>3, <2>4
<1>5. ASSUME NEW w \in Workers, RM!EndSweep(w) PROVE Reminded(m, c)'
  <2>1. UNCHANGED last
    BY <1>5 DEF RM!EndSweep, RM!history
  <2>2. \A v \in Workers : worker[v].todo \subseteq worker'[v].todo
    BY <1>1, <1>5 DEF RM!EndSweep
  <2>3. QED
    BY <2>1, <2>2 DEF Reminded
<1>6. ASSUME NEW w \in Workers, RM!ManualSweep(w) PROVE Reminded(m, c)'
  BY <1>3, <1>6 DEF RM!ManualSweep, RM!history
<1>7. ASSUME NEW w \in Workers, RM!CronSweep(w) PROVE Reminded(m, c)'
  BY <1>2, <1>3, <1>7 DEF RM!CronSweep, RM!history
<1>8. ASSUME NEW w \in Workers PROVE ~RM!Crash(w)
  BY DEF RM!Crash
<1>9. CASE RM!Publish \/ RM!Tick
  BY <1>2, <1>9 DEF RM!Publish, RM!Tick
<1>10. ASSUME NEW n \in Members, RM!Answer(n) \/ RM!Account(n) PROVE Reminded(m, c)'
  BY <1>2, <1>10 DEF RM!Answer, RM!Account
<1>d. ASSUME NEW n \in sent, RM!DeleteNotice(n) PROVE Reminded(m, c)'
  BY <1>2, <1>d DEF RM!DeleteNotice, RM!history
<1>11. ASSUME NEW d \in Delays, RM!Delay(d) PROVE Reminded(m, c)'
  BY <1>2, <1>11 DEF RM!Delay, RM!history
<1> QED
  BY <1>4, <1>5, <1>6, <1>7, <1>8, <1>9, <1>10, <1>d, <1>11 DEF RM!Next

\* A sweep that reads the flight sees to everybody who is pending.
LEMMA SweepServes ==
  ASSUME RemTyped, Cooldown <= Horizon, NEW w \in Workers, RM!ReadFlight(w),
         UNCHANGED <<now, last>>,
         NEW m \in pending \cap accounts
  PROVE  Reminded(m, now)'
<1> USE ReminderTimes DEF RM!TimeAssumption
<1>1. PICK s \in RM!Sweep :
         /\ worker' = [worker EXCEPT ![w] = s]
         /\ \A n \in pending \cap accounts : RM!Dedupe(IF s.urgent THEN "urgent" ELSE "gentle", n, n \notin s.todo)
  BY SweepBegins
<1>2. CASE m \in s.todo
  BY <1>1, <1>2 DEF Reminded, RemTyped
<1>3. CASE m \notin s.todo
  <2>1. RM!SentWithinOr("urgent", m, Horizon) \/ RM!SentWithinOr("gentle", m, Cooldown)
    BY <1>1, <1>3 DEF RM!Dedupe, RM!Lookback
  <2>2. PICK n \in sent : n.to = m /\ (n.at + Horizon >= now \/ n.at + Cooldown >= now)
    BY <2>1 DEF RM!SentWithinOr
  <2>3. n.at \in Nat /\ now \in Nat /\ n.at <= last[m] /\ last[m] \in Int
    BY <2>2 DEF RemTyped
  <2>4. last[m] + Horizon >= now
    BY <2>2, <2>3
  <2>5. QED
    BY <2>4 DEF Reminded
<1> QED BY <1>2, <1>3

\* The instants Served speaks of.
LEMMA LastCron ==
  ASSUME RemTyped
  PROVE  /\ now \in Nat /\ Day \in Nat \ {0} /\ now % Day \in 0 .. Day - 1
         /\ \A r \in Nat : now - r \in Int /\ now - r <= now
<1>1. now \in Nat /\ Day \in Nat \ {0}
  BY ReminderTimes DEF RemTyped, RM!TimeAssumption
<1> QED BY <1>1

\* Any step but the clock's: nobody begins to be remindable.
LEMMA ServedStays ==
  ASSUME RemTyped, RM!Next, ServedInv, ~cut, ~cut', NEW m \in Members,
         UNCHANGED now,
         waiting'[m] = waiting[m] \/ waiting'[m] = 0,
         waiting'[m] # 0 => (UNCHANGED pub /\ (m \in (pending \cap accounts)' <=> m \in pending \cap accounts)),
         ran' = ran \/ (ran' /\ (RM!InScope' /\ waiting'[m] > 0 => Reminded(m, now)')),
         waiting'[m] # 0 /\ RM!InScope' => RM!InScope
  PROVE  Served(m)'
<1> DEFINE r == now % Day
<1>1. /\ now \in Nat /\ Day \in Nat \ {0} /\ r \in 0 .. Day - 1 /\ UNCHANGED r
      /\ now - r \in Int /\ now - r <= now /\ now - Day \in Int /\ now - Day <= now
      /\ waiting[m] \in Nat
  BY LastCron DEF RemTyped
<1>2. Served(m)
  BY DEF ServedInv
<1>3. \A c \in Int : c <= now /\ Reminded(m, c) => Reminded(m, c)'
  BY RemindedStays
<1>4. CASE waiting'[m] = 0
  BY <1>1, <1>4 DEF Served
<1>5. CASE waiting'[m] = waiting[m] /\ waiting[m] # 0
  <2>1. pub' /\ m \in (pending \cap accounts)'
    BY <1>1, <1>2, <1>5 DEF Served
  <2>2. r # 0 /\ waiting[m] > r => Reminded(m, now - r)'
    BY <1>1, <1>2, <1>3 DEF Served
  <2>3. r = 0 /\ waiting[m] > Day => Reminded(m, now - Day)'
    BY <1>1, <1>2, <1>3 DEF Served
  <2>4. r = 0 /\ ran' /\ waiting[m] > 0 /\ RM!InScope' => Reminded(m, now)'
    <3>1. CASE ran' /\ (RM!InScope' /\ waiting'[m] > 0 => Reminded(m, now)')
      BY <1>5, <3>1
    <3>2. CASE UNCHANGED ran
      <4>1. r = 0 /\ ran' /\ waiting[m] > 0 /\ RM!InScope' => Reminded(m, now)
        BY <1>2, <1>5, <3>2 DEF Served
      <4>2. PICK c \in Int : c = now
        BY <1>1
      <4>3. Reminded(m, c) => Reminded(m, c)'
        BY <1>1, <1>3, <4>2
      <4>4. QED
        BY <4>1, <4>2, <4>3 DEF Reminded
    <3>3. QED
      BY <3>1, <3>2
  <2> QED
    BY <1>1, <1>5, <2>1, <2>2, <2>3, <2>4 DEF Served
<1> QED BY <1>4, <1>5

\* The clock moves on: what the cron did at this instant is behind now.
LEMMA ServedTick ==
  ASSUME RemTyped, ServedInv, ~cut, RM!Tick, NEW m \in Members
  PROVE  Served(m)'
<1> DEFINE r == now % Day
<1>1. /\ now \in Nat /\ Day \in Nat \ {0} /\ r \in 0 .. Day - 1
      /\ waiting[m] \in Nat /\ ran \in BOOLEAN
  BY LastCron DEF RemTyped
<1>2. /\ waiting[m] > 0 => pub /\ m \in pending \cap accounts
      /\ r # 0 /\ waiting[m] > r => Reminded(m, now - r)
      /\ r = 0 /\ ran /\ waiting[m] > 0 /\ RM!InScope => Reminded(m, now)
  BY DEF ServedInv, Served
<1>3. /\ now' = now + 1 /\ ran' = FALSE /\ UNCHANGED <<dep, pub, pending, accounts, last, worker>>
      /\ ~RM!CronIsDue
      /\ waiting' = [n \in Members |-> IF ~(RM!InScope /\ n \in pending \cap accounts) THEN 0
                                       ELSE IF waiting[n] > Day THEN waiting[n]
                                       ELSE waiting[n] + 1]
  BY DEF RM!Tick
<1>4. r = 0 => ran
  BY <1>3 DEF RM!CronIsDue
<1>5. waiting'[m] = IF ~(RM!InScope /\ m \in pending \cap accounts) THEN 0
                    ELSE IF waiting[m] > Day THEN waiting[m] ELSE waiting[m] + 1
  BY <1>3
<1>6. ((now + 1) % Day = 0 /\ r = Day - 1) \/ (now + 1) % Day = r + 1
  BY <1>1, NextRemainder
<1>7. \A c : Reminded(m, c) => Reminded(m, c)'
  BY <1>3 DEF Reminded
<1>8. waiting'[m] > 0 => pub' /\ m \in (pending \cap accounts)'
  BY <1>3, <1>5 DEF RM!InScope
\* The member was remindable when the cron last ran.
<1>9. waiting[m] > r /\ waiting'[m] > 0 => Reminded(m, now - r)
  <2>1. CASE r # 0
    BY <1>2, <2>1
  <2>2. CASE r = 0
    <3>1. now - r = now
      BY <1>1, <2>2
    <3>2. waiting'[m] > 0 => RM!InScope
      BY <1>5
    <3>3. waiting[m] > 0 /\ waiting'[m] > 0 => Reminded(m, now)
      BY <1>2, <1>4, <2>2, <3>2
    <3>4. QED
      BY <2>2, <3>1, <3>3
  <2>3. QED BY <2>1, <2>2
<1> HIDE DEF r
<1>10. CASE (now + 1) % Day = 0 /\ r = Day - 1
  <2>1. waiting'[m] > Day => waiting[m] > r /\ waiting'[m] > 0
    BY <1>1, <1>5, <1>10
  <2>2. PICK c \in Int : c = now - r /\ c = now' - Day
    BY <1>1, <1>3, <1>10
  <2>3. waiting'[m] > Day => Reminded(m, c)'
    BY <1>7, <1>9, <2>1, <2>2
  <2>4. (waiting[m] > Day)' => Reminded(m, now - Day)'
    BY <2>2, <2>3 DEF Reminded
  <2>5. (now % Day)' = 0
    BY <1>3, <1>10
  <2>6. QED
    BY <1>3, <1>8, <2>4, <2>5 DEF Served
<1>11. CASE (now + 1) % Day = r + 1
  <2>1. waiting'[m] > r + 1 => waiting[m] > r /\ waiting'[m] > 0
    BY <1>1, <1>5
  <2>2. (now % Day)' = r + 1 /\ r + 1 # 0
    BY <1>1, <1>3, <1>11
  <2>3. PICK c \in Int : c = now - r /\ c = now' - (now % Day)'
    BY <1>1, <1>3, <2>2
  <2>4. waiting'[m] > r + 1 => Reminded(m, c)'
    BY <1>7, <1>9, <2>1, <2>3
  <2>5. (waiting[m] > now % Day)' => Reminded(m, now - (now % Day))'
    BY <2>2, <2>3, <2>4 DEF Reminded
  <2>6. QED
    BY <1>8, <2>2, <2>5 DEF Served
<1> QED BY <1>6, <1>10, <1>11

LEMMA ServingKept ==
  ASSUME Cooldown <= Horizon
  PROVE  RemTyped /\ ServedInv /\ RM!Next => ServedInv'
<1> SUFFICES ASSUME RemTyped, ServedInv, RM!Next, ~cut', NEW m \in Members PROVE Served(m)'
  BY DEF ServedInv
<1> USE ReminderTimes DEF RM!TimeAssumption
<1>1. ~cut
  BY DEF RM!Next, RM!ManualSweep, RM!CronSweep, RM!SendReminder, RM!EndSweep, RM!Crash, RM!Publish,
     RM!Answer, RM!Account, RM!DeleteNotice, RM!Delay, RM!Tick, RM!history
<1>2. waiting \in [Members -> Nat] /\ now \in Nat /\ dep \in Nat
  BY DEF RemTyped
<1>3. ASSUME UNCHANGED <<now, ran, dep, pub, pending, accounts, waiting>> PROVE Served(m)'
  <2>1. RM!InScope' => RM!InScope
    BY <1>3 DEF RM!InScope
  <2>2. QED
    BY <1>1, <1>3, <2>1, ServedStays
<1>4. ASSUME NEW w \in Workers, RM!CronSweep(w) PROVE Served(m)'
  <2>1. UNCHANGED <<now, dep, pub, pending, accounts, last, waiting>> /\ ran'
    BY <1>4 DEF RM!CronSweep, RM!history
  <2>2. RM!InScope' => RM!InScope
    BY <2>1 DEF RM!InScope
  <2>3. ASSUME RM!InScope', waiting'[m] > 0 PROVE Reminded(m, now)'
    <3>1. m \in pending \cap accounts
      BY <1>1, <2>1, <2>3 DEF ServedInv, Served
    <3>2. RM!ReadFlight(w)
      BY <1>4, <2>2, <2>3, <3>1 DEF RM!CronSweep
    <3>3. QED
      BY <2>1, <3>1, <3>2, SweepServes
  <2>4. QED
    BY <1>1, <2>1, <2>2, <2>3, ServedStays
<1>5. ASSUME NEW w \in Workers, RM!ManualSweep(w) PROVE Served(m)'
  BY <1>3, <1>5 DEF RM!ManualSweep, RM!history
<1>6. ASSUME NEW w \in Workers, NEW n \in Members, RM!SendReminder(w, n) PROVE Served(m)'
  BY <1>3, <1>6 DEF RM!SendReminder, RM!history
<1>7. ASSUME NEW w \in Workers, RM!EndSweep(w) PROVE Served(m)'
  BY <1>3, <1>7 DEF RM!EndSweep, RM!history
<1>8. ASSUME NEW w \in Workers PROVE ~RM!Crash(w)
  BY DEF RM!Crash
<1>9. CASE RM!Publish
  <2>1. waiting'[m] = 0 /\ UNCHANGED <<now, ran>>
    BY <1>9 DEF RM!Publish
  <2>2. QED
    BY <1>1, <2>1, ServedStays
<1>d. ASSUME NEW n \in sent, RM!DeleteNotice(n) PROVE Served(m)'
  BY <1>3, <1>d DEF RM!DeleteNotice, RM!history
<1>10. ASSUME NEW n \in Members, RM!Answer(n) \/ RM!Account(n) PROVE Served(m)'
  <2>1. UNCHANGED <<now, ran, dep, pub>>
    BY <1>10 DEF RM!Answer, RM!Account
  <2>2. CASE m = n
    <3>1. waiting'[m] = 0
      BY <1>2, <1>10, <2>2 DEF RM!Answer, RM!Account
    <3>2. QED
      BY <1>1, <2>1, <3>1, ServedStays
  <2>3. CASE m # n
    <3>1. /\ waiting'[m] = waiting[m]
          /\ m \in (pending \cap accounts)' <=> m \in pending \cap accounts
      BY <1>2, <1>10, <2>3 DEF RM!Answer, RM!Account
    <3>2. RM!InScope' => RM!InScope
      BY <2>1 DEF RM!InScope
    <3>3. QED
      BY <1>1, <2>1, <3>1, <3>2, ServedStays
  <2>4. QED BY <2>2, <2>3
<1>11. ASSUME NEW d \in Delays, RM!Delay(d) PROVE Served(m)'
  <2>1. UNCHANGED <<now, ran, pub, pending, accounts, waiting>> /\ now <= dep /\ d \in Nat /\ dep' = dep + d
    BY <1>11 DEF RM!Delay, RM!history
  <2>2. RM!InScope' => RM!InScope
    BY <1>2, <2>1 DEF RM!InScope
  <2>3. QED
    BY <1>1, <2>1, <2>2, ServedStays
<1>12. CASE RM!Tick
  BY <1>1, <1>12, ServedTick
<1> QED
  BY <1>4, <1>5, <1>6, <1>7, <1>8, <1>9, <1>d, <1>10, <1>11, <1>12 DEF RM!Next

\* A member who could be reminded for more than a day has been, at most a lookback
\* and a day ago, unless a sweep was cut off; any number of processes sweep.  The
\* cooldown of the gentle tier has to be within the lookback, as 24 h is in 48.
THEOREM WhoeverIsPendingIsReminded ==
  ASSUME Cooldown <= Horizon
  PROVE  RecordsSpec => []PendingIsReminded
<1>1. RM!Init => ServedInv
  <2> SUFFICES ASSUME RM!Init, NEW m \in Members PROVE Served(m)
    BY DEF ServedInv
  <2>1. waiting[m] = 0 /\ now = 0 /\ Day \in Nat \ {0}
    BY ReminderTimes DEF RM!Init, RM!TimeAssumption
  <2>2. now % Day \in Nat
    BY <2>1
  <2>3. QED
    BY <2>1, <2>2 DEF Served
<1>2. RemTyped /\ ServedInv /\ [RM!Next]_RM!vars => ServedInv'
  <2> SUFFICES ASSUME RemTyped, ServedInv, [RM!Next]_RM!vars PROVE ServedInv'
    OBVIOUS
  <2>1. CASE UNCHANGED RM!vars
    BY <2>1 DEF RM!vars, RM!history, ServedInv, Served, Reminded, RM!InScope
  <2>2. CASE RM!Next
    BY <2>2, ServingKept
  <2>3. QED BY <2>1, <2>2
<1>3. RemTyped /\ ServedInv => PendingIsReminded
  <2> SUFFICES ASSUME RemTyped, ServedInv, RM!AllIdle, ~cut, NEW m \in Members, waiting[m] > Day
               PROVE  last[m] + Horizon + Day >= now
    BY DEF PendingIsReminded, RM!PendingIsReminded
  <2>1. /\ now \in Nat /\ Day \in Nat \ {0} /\ now % Day \in 0 .. Day - 1
        /\ waiting[m] \in Nat /\ Horizon \in Nat
    BY LastCron, ReminderTimes DEF RemTyped, RM!TimeAssumption
  <2>2. PICK c \in Int : c >= now - Day /\ Reminded(m, c)
    BY <2>1 DEF ServedInv, Served
  <2>3. \A w \in Workers : m \notin worker[w].todo
    BY DEF RM!AllIdle, RemTyped
  <2>4. last[m] + Horizon >= c /\ last[m] \in Int
    BY <2>2, <2>3 DEF Reminded, RemTyped
  <2>5. QED
    BY <2>1, <2>2, <2>4
<1> QED BY <1>1, <1>2, <1>3, SweepsTyped, RemindersRun, PTL DEF RM!Spec

----------------------------------------------------------------------------
(* The clauses of the manual and their gate.                               *)

\* The tables are tables of the articles.
ClausesTyped ==
  /\ article = [a \in Articles |-> article[a]]
  /\ way = [a \in Articles |-> way[a]]
  /\ author = [w \in DOMAIN author |-> author[w]]

\* What a request carries: the article it is about ...
ChangesTyped ==
  \A w \in DOMAIN author : author[w] # OG!AtDesk => author[w].id \in Articles

\* ... and, with one process, a decision of the gate that is right when it writes.
Apt(rows, task) ==
  /\ task.doing = "create" => task.protected = OG!Protected(OG!NoRow, task.row)
  /\ task.doing = "update" =>
       task.protected = OG!Protected(rows[task.id], OG!Merged(rows[task.id], task.body))

DecisionsCurrent == OG!OneAuthor => \A w \in DOMAIN author : Apt(article, author[w])

GateInv == ClausesTyped /\ ChangesTyped /\ DecisionsCurrent /\ WeakIsSanctioned

\* What the table makes of a row.
LEMMA ConversionOfRow ==
  ASSUME NEW seen
  PROVE  /\ OG!IsSafetyCritical(OG!StoredRow(seen)) => OG!IsSafetyCritical(seen)
         /\ OG!StoredRow(seen).type = seen.type
         /\ seen.active # "text" => OG!StoredRow(seen).active = seen.active
BY DEF OG!StoredRow, OG!Stored, OG!IsSafetyCritical, OG!Truthy

\* The gate leaves no other way: a change it does not protect makes no clause weak but
\* one bound while inactive, or by a value that is not false (evaluate_governance_change).
LEMMA GateSuffices ==
  ASSUME NEW a \in Articles, NEW seen, NEW protected,
         protected = OG!Protected(article[a], seen), way[a] # "unsanctioned"
  PROVE  OG!WayTo(a, seen, protected) # "unsanctioned"
<1> DEFINE old == article[a]
           new == OG!StoredRow(seen)
<1>1. CASE ~OG!Weak(new)
  BY <1>1 DEF OG!WayTo
<1>2. CASE OG!Weak(new) /\ protected
  BY <1>2 DEF OG!WayTo
<1>3. CASE OG!Weak(new) /\ ~protected /\ OG!Weak(old)
  BY <1>3 DEF OG!WayTo
<1>4. CASE OG!Weak(new) /\ ~protected /\ ~OG!Weak(old)
  <2>1. /\ OG!IsSafetyCritical(seen) /\ new.type = seen.type
        /\ seen.active # "text" => new.active = seen.active
    BY <1>4, ConversionOfRow DEF OG!Weak
  <2>2. CASE ~OG!IsSafetyCritical(old)
    <3>1. new.type \in OG!Blocking
      BY <1>4, <2>1, <2>2 DEF OG!Protected
    <3> QED
      BY <1>4, <2>2, <3>1 DEF OG!WayTo
  <2>3. CASE OG!IsSafetyCritical(old)
    <3>1. old.active # "false" /\ old.type \in OG!Blocking
      BY <1>4, <2>3 DEF OG!Weak
    <3>2. seen.active # "false" /\ seen.type \in OG!Blocking
      BY <1>4, <2>3, <3>1 DEF OG!Protected, OG!Truthy
    <3>3. new.active = "false"
      BY <1>4, <2>1, <3>2 DEF OG!Weak
    <3>4. seen.active = "text"
      BY <2>1, <3>2, <3>3
    <3> QED
      BY <1>4, <2>3, <3>4 DEF OG!WayTo
  <2> QED
    BY <2>2, <2>3
<1> QED
  BY <1>1, <1>2, <1>3, <1>4

LEMMA InitGate == OG!Init => GateInv
<1> SUFFICES ASSUME OG!Init PROVE GateInv
  OBVIOUS
<1>1. ClausesTyped
  BY DEF OG!Init, ClausesTyped
<1>2. \A w \in DOMAIN author : author[w] = OG!AtDesk
  BY DEF OG!Init
<1>3. ChangesTyped
  BY <1>2 DEF ChangesTyped
<1>4. DecisionsCurrent
  BY <1>2 DEF DecisionsCurrent, Apt, OG!AtDesk
<1>5. WeakIsSanctioned
  BY DEF OG!Init, WeakIsSanctioned, OG!WeakIsSanctioned
<1> QED
  BY <1>1, <1>3, <1>4, <1>5 DEF GateInv

\* A request begins: nothing else changes, and with one process it is the only one.
LEMMA BeginKeepsGate ==
  ASSUME GateInv, NEW w \in DOMAIN author, OG!CreateRead(w) \/ OG!UpdateRead(w)
  PROVE  GateInv'
<1>1. UNCHANGED <<article, way>>
  BY DEF OG!CreateRead, OG!UpdateRead
<1> DEFINE Creates(a, row) ==
             [doing |-> "create", id |-> a, row |-> row, protected |-> OG!Protected(OG!NoRow, row)]
           Updates(a, body) ==
             [doing |-> "update", id |-> a, body |-> body, protected |-> OG!Gate(article[a], body)]
<1>2. PICK task : author' = [author EXCEPT ![w] = task] /\ task.id \in Articles /\ Apt(article, task)
  <2>1. CASE OG!CreateRead(w)
    <3>1. PICK a \in Articles, row \in Drafts : author' = [author EXCEPT ![w] = Creates(a, row)]
      BY <2>1 DEF OG!CreateRead
    <3>2. Creates(a, row).id \in Articles /\ Apt(article, Creates(a, row))
      BY DEF Apt
    <3> HIDE DEF Creates
    <3> QED
      BY <3>1, <3>2
  <2>2. CASE OG!UpdateRead(w)
    <3>1. PICK a \in Articles, body \in Changes : author' = [author EXCEPT ![w] = Updates(a, body)]
      BY <2>2 DEF OG!UpdateRead
    <3>2. Updates(a, body).id \in Articles /\ Apt(article, Updates(a, body))
      BY DEF Apt, OG!Gate
    <3> HIDE DEF Updates
    <3> QED
      BY <3>1, <3>2
  <2> QED
    BY <2>1, <2>2
<1>3. DOMAIN author' = DOMAIN author
  BY <1>2
<1>4. ClausesTyped'
  BY <1>1, <1>2 DEF GateInv, ClausesTyped
<1>5. ChangesTyped'
  BY <1>2, <1>3 DEF GateInv, ClausesTyped, ChangesTyped
<1>6. DecisionsCurrent'
  <2>1. article' = article
    BY <1>1
  <2>2. ASSUME OG!OneAuthor', NEW v \in DOMAIN author
        PROVE  author'[v] = task
    <3>1. v = w
      BY <1>3, <2>2 DEF OG!OneAuthor
    <3> QED
      BY <1>2, <3>1 DEF GateInv, ClausesTyped
  <2>3. ASSUME OG!OneAuthor' PROVE \A v \in DOMAIN author : Apt(article, author'[v])
    BY <1>2, <2>2, <2>3
  <2> QED
    BY <1>3, <2>1, <2>3 DEF DecisionsCurrent
<1>7. WeakIsSanctioned'
  BY <1>1, <1>3 DEF GateInv, WeakIsSanctioned, OG!WeakIsSanctioned, OG!OneAuthor
<1> QED
  BY <1>4, <1>5, <1>6, <1>7 DEF GateInv

\* A request ends, and nobody else is under way.
LEMMA EndKeepsGate ==
  ASSUME GateInv, NEW w \in DOMAIN author,
         author' = [author EXCEPT ![w] = OG!AtDesk] \/ (author[w] = OG!AtDesk /\ UNCHANGED author),
         ClausesTyped', WeakIsSanctioned'
  PROVE  GateInv'
<1>1. DOMAIN author' = DOMAIN author /\ author'[w] = OG!AtDesk
  BY DEF GateInv, ClausesTyped
<1>2. ChangesTyped'
  BY <1>1 DEF GateInv, ClausesTyped, ChangesTyped
<1>3. DecisionsCurrent'
  <2> SUFFICES ASSUME OG!OneAuthor', NEW v \in DOMAIN author PROVE author'[v] = OG!AtDesk
    BY <1>1 DEF DecisionsCurrent, Apt, OG!AtDesk
  <2> QED
    BY <1>1 DEF OG!OneAuthor
<1> QED
  BY <1>2, <1>3 DEF GateInv

\* The writes of a request.
LEMMA WriteKeepsGate ==
  ASSUME GateInv, NEW w \in DOMAIN author, OG!CreateInsert(w) \/ OG!UpdateWrite(w)
  PROVE  GateInv'
<1> DEFINE task == author[w]
<1>1. author' = [author EXCEPT ![w] = OG!AtDesk]
  BY DEF OG!CreateInsert, OG!UpdateWrite
<1>2. task.id \in Articles
  <2>1. task # OG!AtDesk
    BY DEF OG!CreateInsert, OG!UpdateWrite, OG!AtDesk
  <2> QED
    BY <2>1 DEF GateInv, ChangesTyped
<1>3. PICK seen : /\ article' = [article EXCEPT ![task.id] = OG!StoredRow(seen)]
                  /\ way' = [way EXCEPT ![task.id] = OG!WayTo(task.id, seen, task.protected)]
                  /\ OG!OneAuthor => task.protected = OG!Protected(article[task.id], seen)
  BY DEF OG!CreateInsert, OG!UpdateWrite, GateInv, DecisionsCurrent, Apt
<1>4. ClausesTyped'
  BY <1>1, <1>2, <1>3 DEF GateInv, ClausesTyped
<1>5. WeakIsSanctioned'
  <2> SUFFICES ASSUME OG!OneAuthor', NEW a \in Articles PROVE way'[a] # "unsanctioned"
    BY DEF WeakIsSanctioned, OG!WeakIsSanctioned
  <2>1. OG!OneAuthor
    BY <1>1 DEF OG!OneAuthor
  <2>2. way[a] # "unsanctioned"
    BY <2>1 DEF GateInv, WeakIsSanctioned, OG!WeakIsSanctioned
  <2>3. CASE a = task.id
    BY <1>3, <2>1, <2>2, <2>3, GateSuffices DEF GateInv, ClausesTyped
  <2>4. CASE a # task.id
    BY <1>3, <2>2, <2>4 DEF GateInv, ClausesTyped
  <2> QED
    BY <2>3, <2>4
<1> QED
  BY <1>1, <1>4, <1>5, EndKeepsGate

\* "A clause bound to a safety critical check may not be weakened by anyone below
\* Super Admin": with one process, by no sequence of creations, changes, deletions and
\* seeds but for the three ways the gate does not see (om_governance.py 42-83).
THEOREM WeakClausesAreSanctioned == RecordsSpec => []WeakIsSanctioned
<1>1. GateInv /\ [OG!Next]_OG!vars => GateInv'
  <2> SUFFICES ASSUME GateInv, [OG!Next]_OG!vars PROVE GateInv'
    OBVIOUS
  <2>1. CASE UNCHANGED OG!vars
    BY <2>1 DEF OG!vars, GateInv, ClausesTyped, ChangesTyped, DecisionsCurrent, WeakIsSanctioned,
                OG!WeakIsSanctioned, OG!OneAuthor
  <2>2. CASE OG!Next
    <3>1. PICK w \in DOMAIN author : OG!Handler(w)
      BY <2>2 DEF OG!Next
    <3>2. CASE OG!CreateRead(w) \/ OG!UpdateRead(w)
      BY <3>2, BeginKeepsGate
    <3>3. CASE OG!CreateInsert(w) \/ OG!UpdateWrite(w)
      BY <3>3, WriteKeepsGate
    <3>4. CASE OG!GiveUp(w)
      <4>1. ClausesTyped' /\ WeakIsSanctioned'
        BY <3>4 DEF OG!GiveUp, GateInv, ClausesTyped, WeakIsSanctioned, OG!WeakIsSanctioned, OG!OneAuthor
      <4> QED
        BY <3>4, <4>1, EndKeepsGate DEF OG!GiveUp
    <3>5. CASE OG!DeleteArticle(w) \/ OG!Seed(w)
      <4>1. PICK a, row, how :
              /\ a \in Articles
              /\ article' = [article EXCEPT ![a] = row]
              /\ way' = [way EXCEPT ![a] = how]
              /\ how # "unsanctioned"
        <5>1. CASE OG!DeleteArticle(w)
          <6>1. PICK a \in Articles :
                  article' = [article EXCEPT ![a] = OG!NoRow] /\ way' = [way EXCEPT ![a] = "none"]
            BY <5>1 DEF OG!DeleteArticle
          <6> QED
            BY <6>1
        <5>2. CASE OG!Seed(w)
          <6>1. PICK a \in Articles, row \in Drafts :
                  /\ article' = [article EXCEPT ![a] = row]
                  /\ way' = [way EXCEPT ![a] = IF OG!Weak(row) THEN "seeded" ELSE "none"]
            BY <5>2 DEF OG!Seed
          <6> DEFINE how == IF OG!Weak(row) THEN "seeded" ELSE "none"
          <6>2. how # "unsanctioned"
            OBVIOUS
          <6>3. way' = [way EXCEPT ![a] = how]
            BY <6>1
          <6> HIDE DEF how
          <6> QED
            BY <6>1, <6>2, <6>3
        <5> QED
          BY <3>5, <5>1, <5>2
      <4>2. author[w] = OG!AtDesk /\ UNCHANGED author
        BY <3>5 DEF OG!DeleteArticle, OG!Seed
      <4>3. ClausesTyped' /\ WeakIsSanctioned'
        BY <4>1, <4>2 DEF GateInv, ClausesTyped, WeakIsSanctioned, OG!WeakIsSanctioned, OG!OneAuthor
      <4> QED
        BY <4>2, <4>3, EndKeepsGate
    <3> QED
      BY <3>1, <3>2, <3>3, <3>4, <3>5 DEF OG!Handler
  <2> QED
    BY <2>1, <2>2
<1>2. GateInv => WeakIsSanctioned
  BY DEF GateInv
<1> QED
  BY <1>1, <1>2, InitGate, ClausesRun, PTL DEF OG!Spec
----------------------------------------------------------------------------
(* The credited hours and their cache.                                     *)

LEMMA HoursRun == RecordsSpec => MH!Spec
<1>1. RecordsInit => MH!Init
  BY DEF RecordsInit
<1>2. [RecordsNext]_recordVars => [MH!Next]_MH!vars
  BY DEF RecordsNext, recordVars, hoursVars, MH!vars, Paying, Reminding, Documenting, Counting,
         Repairing, Requesting, Governing
<1> QED BY <1>1, <1>2, PTL DEF RecordsSpec, MH!Spec

\* The sums of MonthlyHours are those of Sums.
LEMMA HoursSum == \A h, S : MH!SumFunctionOnSet(h, S) = SumFunctionOnSet(h, S)
BY Zenon DEF MH!SumFunctionOnSet, MH!FoldFunctionOnSet, MH!MapThenFoldSet,
   SumFunctionOnSet, FoldFunctionOnSet, MapThenFoldSet

Reads == [1..Days -> SetHours \cup {MH!None}]

HoursTyped ==
  /\ duty \in [Sectors -> {"operating", "deadhead", "standby"}]
  /\ atd \in [Sectors -> Moments \cup {MH!None}] /\ ata \in [Sectors -> Moments \cup {MH!None}]
  /\ override \in Reads

LEMMA HoursKeepTyped == MH!Spec => []HoursTyped
<1> USE HoursRead DEF MH!HoursAssumption
<1>1. MH!Init => HoursTyped
  BY DEF MH!Init, HoursTyped, Reads
<1>2. HoursTyped /\ [MH!Next]_MH!vars => HoursTyped'
  <2> SUFFICES ASSUME HoursTyped, [MH!Next]_MH!vars PROVE HoursTyped'
    OBVIOUS
  <2>1. CASE MH!RecordActualTimes
    <3>1. PICK s \in Tracked, d \in Moments \cup {MH!None}, a \in Moments \cup {MH!None} :
            /\ atd' = [atd EXCEPT ![s] = MH!Final(d, atd[s])]
            /\ ata' = [ata EXCEPT ![s] = MH!Final(a, ata[s])]
      BY <2>1 DEF MH!RecordActualTimes
    <3>2. /\ MH!Final(d, atd[s]) \in Moments \cup {MH!None}
          /\ MH!Final(a, ata[s]) \in Moments \cup {MH!None}
      BY DEF MH!Final, HoursTyped
    <3>3. UNCHANGED <<duty, override>>
      BY <2>1 DEF MH!RecordActualTimes
    <3>4. QED
      BY <3>1, <3>2, <3>3 DEF HoursTyped
  <2>2. ASSUME NEW w \in DOMAIN cache, MH!SetOverride(w) PROVE HoursTyped'
    BY <2>2 DEF MH!SetOverride, HoursTyped, Reads
  <2>3. ASSUME NEW w \in DOMAIN cache, MH!ClearOverride(w) PROVE HoursTyped'
    BY <2>3 DEF MH!ClearOverride, HoursTyped, Reads
  <2>4. CASE UNCHANGED <<duty, atd, ata, override>>
    BY <2>4 DEF HoursTyped
  <2>5. QED
    BY <2>1, <2>2, <2>3, <2>4 DEF MH!Next, MH!vars, MH!Tick, MH!ChangeDuty, MH!ReadRoster,
                                  MH!ReadOverrides, MH!Restart
<1> QED BY <1>1, <1>2, PTL DEF MH!Spec

\* What the statement credits for each leg.
Included(dh) == [s \in Sectors |-> MH!Inclusion(duty[s], MH!LegHours(s), dh)]

\* A leg credits no more by the matrix's rule than by the statement's, and the same
\* unless it is reversed.
LEMMA LegCredit ==
  ASSUME HoursTyped, NEW s \in Sectors, NEW dh
  PROVE  /\ MH!Credits(dh)[s] \in Int /\ Included(dh)[s] \in Nat
         /\ MH!Credits(dh)[s] <= Included(dh)[s]
         /\ ~MH!Reversed(s) => MH!Credits(dh)[s] = Included(dh)[s]
<1>1. MH!LegHours(s) \in Int
  <2>1. Block[s] \in Int
    BY HoursRead DEF MH!HoursAssumption
  <2>2. atd[s] \in Moments \cup {MH!None} /\ ata[s] \in Moments \cup {MH!None}
    BY DEF HoursTyped
  <2>3. \A t \in Moments \cup {MH!None} : t \in Int
    BY HoursRead DEF MH!HoursAssumption, MH!None
  <2>4. QED
    BY <2>1, <2>2, <2>3 DEF MH!LegHours
<1>2. MH!DhFactor(dh) \in {0, 1, 2}
  BY DEF MH!DhFactor
<1>3. duty[s] \in {"operating", "deadhead", "standby"}
  BY DEF HoursTyped
<1>4. /\ MH!Credits(dh)[s] = MH!CreditedHours(duty[s], MH!LegHours(s), dh)
      /\ Included(dh)[s] = MH!Inclusion(duty[s], MH!LegHours(s), dh)
  BY DEF MH!Credits, Included
<1> DEFINE m == MH!LegHours(s)
           f == MH!DhFactor(dh)
<1> HIDE DEF m, f
<1>5. m \in Int /\ f \in {0, 1, 2} /\ (MH!Reversed(s) <=> m < 0)
  BY <1>1, <1>2 DEF m, f, MH!Reversed
<1>6. /\ m * f \in Int /\ 2 * m \in Int
      /\ m <= 0 => m * f <= 0 /\ 2 * m <= 0
      /\ m >= 0 => m * f >= 0 /\ 2 * m >= 0
      /\ f <= 0 => m * f = 0
  BY <1>5
<1>7. MH!CreditedHours(duty[s], m, dh)
        = IF duty[s] = "operating" THEN 2 * m ELSE IF duty[s] = "deadhead" THEN m * f ELSE 0
  BY <1>3 DEF MH!CreditedHours, f
<1>8. MH!Inclusion(duty[s], m, dh)
        = IF m <= 0 THEN 0 ELSE IF duty[s] = "operating" THEN 2 * m
          ELSE IF duty[s] = "deadhead" /\ f > 0 THEN m * f ELSE 0
  BY <1>3, <1>5 DEF MH!Inclusion, f
<1> DEFINE by_matrix == MH!CreditedHours(duty[s], m, dh)
           by_rule   == MH!Inclusion(duty[s], m, dh)
<1> HIDE DEF by_matrix, by_rule
<1>9. CASE m <= 0
  BY <1>5, <1>6, <1>7, <1>8, <1>9, <1>4 DEF m, by_matrix, by_rule
<1>10. CASE m > 0
  BY <1>5, <1>6, <1>7, <1>8, <1>10, <1>4 DEF m, by_matrix, by_rule
<1> QED BY <1>5, <1>9, <1>10

\* The credits of any sectors, by either rule, add up to an integer; the matrix's are
\* no more, and the same if none of the sectors is reversed.
LEMMA CreditsAddUp ==
  ASSUME HoursTyped, NEW dh, NEW S \in SUBSET Sectors
  PROVE  /\ IsFiniteSet(S) /\ \A s \in S : MH!Credits(dh)[s] \in Int
         /\ SumFunctionOnSet(MH!Credits(dh), S) \in Int
         /\ SumFunctionOnSet(Included(dh), S) \in Int
         /\ SumFunctionOnSet(MH!Credits(dh), S) <= SumFunctionOnSet(Included(dh), S)
         /\ (\A s \in S : ~MH!Reversed(s)) =>
              SumFunctionOnSet(MH!Credits(dh), S) = SumFunctionOnSet(Included(dh), S)
<1>1. IsFiniteSet(S)
  BY HoursRead, FS_Subset DEF MH!HoursAssumption
<1>2. \A s \in S : /\ MH!Credits(dh)[s] \in Int /\ Included(dh)[s] \in Int
                   /\ MH!Credits(dh)[s] <= Included(dh)[s]
                   /\ ~MH!Reversed(s) => MH!Credits(dh)[s] = Included(dh)[s]
  BY LegCredit
<1>3. /\ SumFunctionOnSet(MH!Credits(dh), S) \in Int
      /\ SumFunctionOnSet(Included(dh), S) \in Int
  BY <1>1, <1>2, SumIsInt
<1>4. SumFunctionOnSet(MH!Credits(dh), S) <= SumFunctionOnSet(Included(dh), S)
  BY <1>1, <1>2, SumGrows
<1>5. ASSUME \A s \in S : ~MH!Reversed(s)
      PROVE  SumFunctionOnSet(MH!Credits(dh), S) = SumFunctionOnSet(Included(dh), S)
  BY <1>1, <1>2, <1>5, SumSame
<1> QED BY <1>1, <1>2, <1>3, <1>4, <1>5

\* The days of a month in which some are set by hand.
Replaced(c, read) == [d \in 1..Days |-> IF read[d] # MH!None THEN read[d] ELSE c[d]]

DaysCounted(h) == [d \in 1..Days |-> SumFunctionOnSet(h, MH!DayLegs(d))]

LEMMA ReplacedTyped ==
  ASSUME NEW read \in Reads, NEW c, \A d \in 1..Days : c[d] \in Int
  PROVE  IsFiniteSet(1..Days) /\ \A d \in 1..Days : Replaced(c, read)[d] \in Int
<1>1. IsFiniteSet(1..Days)
  BY HoursRead, FS_Interval DEF MH!HoursAssumption
<1>2. \A d \in 1..Days : read[d] \in SetHours \cup {MH!None}
  BY DEF Reads
<1>3. SetHours \subseteq Int
  BY HoursRead DEF MH!HoursAssumption
<1> QED BY <1>1, <1>2, <1>3 DEF Replaced

\* The matrix adds up two halves of the month ...
LEMMA MatrixAddsDays ==
  ASSUME NEW read \in Reads, NEW c, \A d \in 1..Days : c[d] \in Int
  PROVE  MH!MatrixOf(c, read) = SumFunctionOnSet(Replaced(c, read), 1..Days)
<1> DEFINE D     == 1..Days
           day   == Replaced(c, read)
           early == {d \in D : d <= 15}
<1>1. {d \in D : d > 15} = D \ early
  OBVIOUS
<1>2. MH!MatrixOf(c, read) = MH!SumFunctionOnSet(day, early) + MH!SumFunctionOnSet(day, {d \in D : d > 15})
  BY Zenon DEF MH!MatrixOf, Replaced
<1>3. IsFiniteSet(D) /\ early \in SUBSET D /\ \A d \in D : day[d] \in Int
  BY ReplacedTyped
<1> HIDE DEF D, day, early
<1>4. MH!MatrixOf(c, read) = SumFunctionOnSet(day, early) + SumFunctionOnSet(day, D \ early)
  BY <1>1, <1>2, HoursSum
<1>5. SumFunctionOnSet(day, D) = SumFunctionOnSet(day, early) + SumFunctionOnSet(day, D \ early)
  BY <1>3, SumSplits
<1> QED BY <1>4, <1>5 DEF D, day

\* ... and the statement the days set by hand and the others.
LEMMA StatementAddsDays ==
  ASSUME HoursTyped, NEW read \in Reads, NEW dh
  PROVE  MH!BuildStatement(read, dh)
           = SumFunctionOnSet(Replaced(DaysCounted(Included(dh)), read), 1..Days)
<1> DEFINE D        == 1..Days
           computed == DaysCounted(Included(dh))
           day      == Replaced(computed, read)
           by_hand  == {d \in D : read[d] # MH!None}
           counted  == [d \in D |-> MH!SumFunctionOnSet(Included(dh), MH!DayLegs(d))]
<1>1. counted = computed
  BY HoursSum DEF DaysCounted
<1>2. MH!BuildStatement(read, dh)
        = MH!SumFunctionOnSet(read, by_hand) + MH!SumFunctionOnSet(counted, D \ by_hand)
  BY Zenon DEF MH!BuildStatement, Included
<1>3. \A d \in D : MH!DayLegs(d) \in SUBSET Sectors
  BY DEF MH!DayLegs, MH!Rostered
<1>4. \A d \in D : computed[d] \in Int
  BY <1>3, CreditsAddUp DEF DaysCounted
<1>5. by_hand \in SUBSET D /\ IsFiniteSet(D) /\ \A d \in D : day[d] \in Int
  BY <1>4, ReplacedTyped
<1>6. /\ \A d \in by_hand : read[d] = day[d]
      /\ \A d \in D \ by_hand : computed[d] = day[d]
  BY DEF Replaced
<1> HIDE DEF D, computed, day, by_hand, counted
<1>7. IsFiniteSet(by_hand) /\ IsFiniteSet(D \ by_hand)
  BY <1>5, FS_Subset
<1>8. MH!BuildStatement(read, dh) = SumFunctionOnSet(day, by_hand) + SumFunctionOnSet(day, D \ by_hand)
  BY <1>1, <1>2, <1>6, <1>7, HoursSum, SumSame
<1>9. SumFunctionOnSet(day, D) = SumFunctionOnSet(day, by_hand) + SumFunctionOnSet(day, D \ by_hand)
  BY <1>5, SumSplits
<1> QED BY <1>8, <1>9 DEF D, computed, day

LEMMA StatementAndMatrix ==
  ASSUME HoursTyped, NEW read \in Reads, NEW dh
  PROVE  /\ MH!BuildMatrix(read, dh) <= MH!BuildStatement(read, dh)
         /\ (\A s \in MH!Rostered : MH!InMonth(s) => ~MH!Reversed(s)) =>
              MH!BuildMatrix(read, dh) = MH!BuildStatement(read, dh)
<1> DEFINE D == 1..Days
           x == MH!Computed(dh)
           y == DaysCounted(Included(dh))
           left == Replaced(x, read)
           right == Replaced(y, read)
<1>1. x = DaysCounted(MH!Credits(dh))
  BY HoursSum DEF MH!Computed, DaysCounted
<1>2. \A d \in D : MH!DayLegs(d) \in SUBSET Sectors
  BY DEF MH!DayLegs, MH!Rostered
<1>3. \A d \in D : x[d] \in Int /\ y[d] \in Int /\ x[d] <= y[d]
  BY <1>1, <1>2, CreditsAddUp DEF DaysCounted
<1>4. ASSUME \A s \in MH!Rostered : MH!InMonth(s) => ~MH!Reversed(s), NEW d \in D
      PROVE  x[d] = y[d]
  <2>1. \A s \in MH!DayLegs(d) : ~MH!Reversed(s)
    BY <1>4 DEF MH!DayLegs
  <2>2. QED
    BY <1>1, <1>2, <2>1, CreditsAddUp DEF DaysCounted
<1>5. MH!BuildMatrix(read, dh) = SumFunctionOnSet(left, D)
  BY <1>3, MatrixAddsDays DEF MH!BuildMatrix
<1>6. MH!BuildStatement(read, dh) = SumFunctionOnSet(right, D)
  BY StatementAddsDays
<1>7. IsFiniteSet(D) /\ \A d \in D : left[d] \in Int /\ right[d] \in Int
  BY <1>3, ReplacedTyped
<1> HIDE DEF x, y
<1>8. \A d \in D : left[d] <= right[d] /\ (x[d] = y[d] => left[d] = right[d])
  <2> SUFFICES ASSUME NEW d \in D
               PROVE  left[d] <= right[d] /\ (x[d] = y[d] => left[d] = right[d])
    OBVIOUS
  <2>1. /\ left[d] = IF read[d] # MH!None THEN read[d] ELSE x[d]
        /\ right[d] = IF read[d] # MH!None THEN read[d] ELSE y[d]
    BY DEF Replaced
  <2> HIDE DEF left, right
  <2>2. QED
    BY <1>3, <1>7, <2>1
<1> HIDE DEF D, left, right
<1>9. SumFunctionOnSet(left, D) <= SumFunctionOnSet(right, D)
  BY <1>7, <1>8, SumGrows
<1>10. ASSUME \A s \in MH!Rostered : MH!InMonth(s) => ~MH!Reversed(s)
       PROVE  SumFunctionOnSet(left, D) = SumFunctionOnSet(right, D)
  BY <1>4, <1>7, <1>8, <1>10, SumSame
<1> QED BY <1>5, <1>6, <1>9, <1>10

\* The legs the profile passes over credit nothing, or less if they are reversed.
LEMMA RankerAndProfile ==
  ASSUME HoursTyped, NEW dh
  PROVE  /\ MH!RankerMonth(dh) <= MH!ProfileMonth(dh)
         /\ (\A s \in MH!Rostered : ~MH!Reversed(s)) => MH!RankerMonth(dh) = MH!ProfileMonth(dh)
<1> DEFINE credit == MH!Credits(dh)
           all    == {s \in MH!Rostered : Std[s] >= 0}
           some   == {s \in MH!Rostered : credit[s] > 0 /\ Std[s] >= 0}
           none   == [s \in Sectors |-> 0]
<1>1. all \in SUBSET Sectors /\ some \in SUBSET all /\ all \subseteq MH!Rostered
  BY DEF MH!Rostered
<1>2. IsFiniteSet(all) /\ \A s \in all : credit[s] \in Int
  BY <1>1, CreditsAddUp
<1>3. \A s \in all \ some : credit[s] \in Int /\ credit[s] <= 0
  BY <1>1, <1>2
<1>4. ASSUME \A s \in MH!Rostered : ~MH!Reversed(s), NEW s \in all \ some
      PROVE  credit[s] = 0
  <2>1. credit[s] \in Nat
    BY <1>1, <1>4, LegCredit
  <2>2. QED
    BY <1>3, <2>1
<1>5. MH!RankerMonth(dh) = SumFunctionOnSet(credit, all)
  BY HoursSum DEF MH!RankerMonth
<1>6. MH!ProfileMonth(dh) = SumFunctionOnSet(credit, some)
  BY HoursSum DEF MH!ProfileMonth
<1>7. \A s \in all \ some : none[s] = 0
  BY <1>1
<1> HIDE DEF credit, all, some, none
<1>8. IsFiniteSet(all \ some) /\ IsFiniteSet(some)
  BY <1>1, <1>2, FS_Subset
<1>9. SumFunctionOnSet(credit, all)
        = SumFunctionOnSet(credit, some) + SumFunctionOnSet(credit, all \ some)
  BY <1>1, <1>2, SumSplits
<1>10. SumFunctionOnSet(none, all \ some) = 0
  BY <1>7, <1>8, SumOfZeros
<1>11. SumFunctionOnSet(credit, all \ some) <= SumFunctionOnSet(none, all \ some)
  <2>1. \A s \in all \ some : credit[s] \in Int /\ none[s] \in Int /\ credit[s] <= none[s]
    BY <1>3, <1>7
  <2>2. QED
    BY <1>8, <2>1, SumGrows
<1>12. ASSUME \A s \in MH!Rostered : ~MH!Reversed(s)
       PROVE  SumFunctionOnSet(credit, all \ some) = 0
  BY <1>4, <1>8, <1>12, SumOfZeros
<1>13. SumFunctionOnSet(credit, some) \in Int /\ SumFunctionOnSet(credit, all \ some) \in Int
  BY <1>1, <1>2, <1>3, <1>8, SumIsInt
<1> QED BY <1>5, <1>6, <1>9, <1>10, <1>11, <1>12, <1>13

LEMMA NothingIsRead == MH!NoOverrides \in Reads
BY DEF MH!NoOverrides, Reads

\* Nothing set by hand and nothing rostered beyond the month: the legs by days are
\* the legs.
LEMMA RankerIsMatrix ==
  ASSUME HoursTyped, NEW dh, \A s \in MH!Rostered : MH!InMonth(s)
  PROVE  MH!RankerMonth(dh) = MH!BuildMatrix(MH!NoOverrides, dh)
<1> DEFINE D      == 1..Days
           credit == MH!Credits(dh)
           legs   == {s \in MH!Rostered : Std[s] >= 0}
           dayOf  == [s \in Sectors |-> MH!DayOf(s)]
           x      == MH!Computed(dh)
           day    == Replaced(x, MH!NoOverrides)
<1>1. IsFiniteSet(D)
  BY HoursRead, FS_Interval DEF MH!HoursAssumption
<1>2. legs \in SUBSET Sectors
  BY DEF MH!Rostered
<1>3. IsFiniteSet(legs) /\ \A s \in legs : credit[s] \in Int
  BY <1>2, CreditsAddUp
<1>4. {s \in legs : dayOf[s] \in D} = legs
  <2> SUFFICES ASSUME NEW s \in legs PROVE MH!DayOf(s) \in D
    BY <1>2
  <2>1. Std[s] \in Int /\ Std[s] >= 0 /\ MH!DayOf(s) <= Days /\ Days \in Nat
    BY <1>2, HoursRead DEF MH!InMonth, MH!HoursAssumption
  <2>2. MH!DayOf(s) \in Int /\ MH!DayOf(s) >= 1
    BY <2>1 DEF MH!DayOf
  <2>3. QED
    BY <2>1, <2>2
<1>5. \A d \in D : x[d] = SumFunctionOnSet(credit, {s \in legs : dayOf[s] = d})
  <2> SUFFICES ASSUME NEW d \in D
               PROVE  x[d] = SumFunctionOnSet(credit, {s \in legs : dayOf[s] = d})
    OBVIOUS
  <2>1. MH!DayLegs(d) = {s \in legs : dayOf[s] = d}
    BY <1>2 DEF MH!DayLegs, MH!InMonth, MH!Rostered
  <2>2. x[d] = SumFunctionOnSet(credit, MH!DayLegs(d))
    BY HoursSum DEF MH!Computed
  <2>3. QED
    BY <2>1, <2>2
<1>6. \A d \in D : {s \in legs : dayOf[s] = d} \in SUBSET Sectors
  BY <1>2
<1>7. \A d \in D : x[d] \in Int
  <2> HIDE DEF x, legs, dayOf
  <2>1. QED
    BY <1>5, <1>6, CreditsAddUp
<1>8. \A d \in D : day[d] = x[d]
  BY DEF Replaced, MH!NoOverrides
<1>9. MH!BuildMatrix(MH!NoOverrides, dh) = SumFunctionOnSet(day, D)
  BY <1>7, NothingIsRead, MatrixAddsDays DEF MH!BuildMatrix
<1>10. MH!RankerMonth(dh) = SumFunctionOnSet(credit, legs)
  BY HoursSum DEF MH!RankerMonth
<1> HIDE DEF D, credit, legs, dayOf, x, day
<1>11. SumFunctionOnSet(day, D) = SumFunctionOnSet(x, D)
  BY <1>1, <1>8, SumSame
<1>12. SumFunctionOnSet(x, D) = SumFunctionOnSet(credit, legs)
  BY <1>1, <1>3, <1>4, <1>5, SumOfGroups
<1> QED BY <1>9, <1>10, <1>11, <1>12

\* "Uses the same policy as the matrix, so totals match exactly": for any roster,
\* plans, times and hours set by hand that both have read; where a leg is planned to
\* arrive before it departs, which create_flight lets pass, the matrix says less than
\* the statement and the ranker less than the profile (_inclusion and _credited_hours of
\* core/monthly_hours.py).
THEOREM TotalsMatch == RecordsSpec => []HoursAgree
<1>1. HoursTyped => HoursAgree
  <2> SUFFICES ASSUME HoursTyped PROVE MH!HoursAgree
    BY DEF HoursAgree
  <2>1. \A read \in {override, MH!NoOverrides} : read \in Reads
    BY NothingIsRead DEF HoursTyped
  <2>2. QED
    BY <2>1, StatementAndMatrix, RankerAndProfile, RankerIsMatrix DEF MH!HoursAgree
<1> QED BY <1>1, HoursRun, HoursKeepTyped, PTL

Shown(ok) == IF ok THEN override ELSE MH!NoOverrides

\* What a request under way has read: all of it, unless something changed just now.
ReadsTyped ==
  /\ reading = [w \in DOMAIN cache |-> reading[w]]
  /\ \A w \in DOMAIN cache :
       \/ reading[w] = MH!Resting
       \/ \E q \in Queries : /\ reading[w].dh = q
                             /\ reading[w].computed = MH!Computed(q) \/ age = 0

\* A matrix in a cache: one with some time left, which is that of the tables unless
\* they changed since; that of the last editor's server has the edits, if it could
\* read them.
Kept(w, dh) ==
  \E left, total, over, ok :
    /\ left \in 1..Ttl
    /\ cache[w][dh] = [left |-> left, total |-> total, over |-> over, ok |-> ok]
    /\ total = MH!BuildMatrix(Shown(ok), dh) \/ left + age <= Ttl
    /\ editor = w /\ ok => over = override

CacheInv ==
  /\ cache = [w \in DOMAIN cache |-> [dh \in Queries |-> cache[w][dh]]]
  /\ age \in 0..Ttl
  /\ \A w \in DOMAIN cache, dh \in Queries : cache[w][dh] = MH!Empty \/ Kept(w, dh)
  /\ ReadsTyped

\* The matrix depends on the tables alone.
LEMMA MatrixStays ==
  ASSUME UNCHANGED <<duty, dropped, atd, ata>>, NEW dh
  PROVE  MH!Computed(dh)' = MH!Computed(dh)
<1>1. MH!Credits(dh)' = MH!Credits(dh)
  BY DEF MH!Credits, MH!LegHours, MH!CreditedHours, MH!DhFactor
<1>2. \A d : MH!DayLegs(d)' = MH!DayLegs(d)
  BY DEF MH!DayLegs, MH!Rostered, MH!InMonth, MH!DayOf
<1> QED BY <1>1, <1>2 DEF MH!Computed

\* What the requests under way have read, when none of it changes.
LEMMA ReadsStay ==
  ASSUME ReadsTyped, UNCHANGED <<duty, dropped, atd, ata>>, age' = 0 \/ age' = age,
         DOMAIN cache' = DOMAIN cache, reading' = [v \in DOMAIN cache' |-> reading'[v]],
         \A v \in DOMAIN cache : reading'[v] = reading[v] \/ reading'[v] = MH!Resting
  PROVE  ReadsTyped'
<1>1. \A dh \in Queries : MH!Computed(dh)' = MH!Computed(dh)
  BY MatrixStays
<1>2. ASSUME NEW v \in DOMAIN cache, reading'[v] # MH!Resting
      PROVE  \E q \in Queries : /\ reading'[v].dh = q
                                /\ reading'[v].computed = MH!Computed(q)' \/ age' = 0
  <2>1. reading'[v] = reading[v]
    BY <1>2
  <2>2. PICK q \in Queries : /\ reading[v].dh = q
                             /\ reading[v].computed = MH!Computed(q) \/ age = 0
    BY <1>2, <2>1 DEF ReadsTyped
  <2>3. QED
    BY <1>1, <2>1, <2>2
<1> QED BY <1>2 DEF ReadsTyped

LEMMA TotalStays ==
  ASSUME UNCHANGED <<duty, dropped, atd, ata, override>>, NEW ok, NEW dh
  PROVE  MH!BuildMatrix(Shown(ok), dh)' = MH!BuildMatrix(Shown(ok), dh)
<1>1. PICK o, d : o = ok /\ d = dh
  OBVIOUS
<1>2. MH!Computed(d)' = MH!Computed(d)
  BY MatrixStays
<1>3. (IF o THEN override ELSE MH!NoOverrides)' = IF o THEN override ELSE MH!NoOverrides
  BY DEF MH!NoOverrides
<1> QED BY <1>1, <1>2, <1>3 DEF MH!BuildMatrix, Shown, MH!MatrixOf

\* An entry is not nearer its end and no longer behind than it was.
LEMMA EntryStays ==
  ASSUME NEW w, NEW dh, Kept(w, dh), cache'[w][dh] = cache[w][dh],
         \/ age' = 0 /\ editor' # w
         \/ age' = 0 /\ UNCHANGED <<override, editor>>
         \/ UNCHANGED <<duty, dropped, atd, ata, override, editor, age>>
  PROVE  Kept(w, dh)'
<1>1. PICK left, total, over, ok :
        /\ left \in 1..Ttl
        /\ cache[w][dh] = [left |-> left, total |-> total, over |-> over, ok |-> ok]
        /\ total = MH!BuildMatrix(Shown(ok), dh) \/ left + age <= Ttl
        /\ editor = w /\ ok => over = override
  BY DEF Kept
<1>2. Ttl \in Nat
  BY HoursRead DEF MH!HoursAssumption
<1>3. CASE age' = 0
  <2>1. left + age' <= Ttl /\ (editor' = w /\ ok => over = override')
    BY <1>1, <1>2, <1>3
  <2>2. QED
    BY <1>1, <2>1 DEF Kept
<1>4. CASE UNCHANGED <<duty, dropped, atd, ata, override, editor, age>>
  <2>1. MH!BuildMatrix(Shown(ok), dh)' = MH!BuildMatrix(Shown(ok), dh)
    BY <1>4, TotalStays
  <2>2. /\ total = MH!BuildMatrix(Shown(ok), dh)' \/ left + age' <= Ttl
        /\ editor' = w /\ ok => over = override'
    BY <1>1, <1>4, <2>1
  <2>3. QED
    BY <1>1, <2>2 DEF Kept
<1> QED BY <1>3, <1>4

\* A step of the clock, and what it leaves of an entry.
LEMMA EntryAges ==
  ASSUME CacheInv, MH!Tick, NEW w \in DOMAIN cache, NEW dh \in Queries
  PROVE  cache'[w][dh] = MH!Empty \/ Kept(w, dh)'
<1> DEFINE e == cache[w][dh]
<1>1. cache'[w][dh] = IF e.left > 1 THEN [e EXCEPT !.left = e.left - 1] ELSE MH!Empty
  BY DEF MH!Tick
<1>2. UNCHANGED <<duty, dropped, atd, ata, override, editor>>
  BY DEF MH!Tick
<1>3. age \in 0..Ttl /\ age' = (IF age < Ttl THEN age + 1 ELSE Ttl) /\ Ttl \in Nat
  BY HoursRead DEF CacheInv, MH!Tick, MH!HoursAssumption
<1>4. CASE e = MH!Empty
  BY <1>1, <1>4 DEF MH!Empty
<1>5. CASE Kept(w, dh)
  <2>1. PICK left, total, over, ok :
          /\ left \in 1..Ttl
          /\ e = [left |-> left, total |-> total, over |-> over, ok |-> ok]
          /\ total = MH!BuildMatrix(Shown(ok), dh) \/ left + age <= Ttl
          /\ editor = w /\ ok => over = override
    BY <1>5 DEF Kept
  <2>2. CASE left > 1
    <3>1. cache'[w][dh] = [left |-> left - 1, total |-> total, over |-> over, ok |-> ok]
      BY <1>1, <2>1, <2>2
    <3>2. left - 1 \in 1..Ttl
      BY <1>3, <2>1, <2>2
    <3>3. total = MH!BuildMatrix(Shown(ok), dh)' \/ (left - 1) + age' <= Ttl
      BY <1>2, <1>3, <2>1, TotalStays
    <3>4. editor' = w /\ ok => over = override'
      BY <1>2, <2>1
    <3>5. QED
      BY <3>1, <3>2, <3>3, <3>4 DEF Kept
  <2>3. CASE ~(left > 1)
    BY <1>1, <2>1, <2>3
  <2>4. QED BY <2>2, <2>3
<1> QED BY <1>4, <1>5 DEF CacheInv

\* A matrix that has just been built.
LEMMA FreshIsKept ==
  ASSUME CacheInv, NEW w \in DOMAIN cache, NEW dh, MH!ReadOverrides(w), dh = reading[w].dh
  PROVE  Kept(w, dh)'
<1>1. Ttl \in Nat /\ Ttl \in 1..Ttl
  BY HoursRead DEF MH!HoursAssumption
<1>2. dh \in Queries /\ (reading[w].computed = MH!Computed(dh) \/ age = 0)
  <2>1. PICK q \in Queries : /\ reading[w].dh = q
                             /\ reading[w].computed = MH!Computed(q) \/ age = 0
    BY DEF MH!ReadOverrides, CacheInv, ReadsTyped
  <2>2. QED
    BY <2>1
<1>3. PICK ok \in BOOLEAN :
        cache' = [cache EXCEPT ![w][dh] =
          [left |-> Ttl, total |-> MH!MatrixOf(reading[w].computed, Shown(ok)),
           over |-> Shown(ok), ok |-> ok]]
  BY DEF MH!ReadOverrides, Shown
<1>4. UNCHANGED <<duty, dropped, atd, ata, override, editor, age>>
  BY DEF MH!ReadOverrides
<1> DEFINE total == MH!MatrixOf(reading[w].computed, Shown(ok))
           over  == Shown(ok)
<1>5. ok => over = override'
  BY <1>4 DEF Shown
<1>6. total = MH!BuildMatrix(Shown(ok), dh)' \/ Ttl + age' <= Ttl
  <2>1. MH!BuildMatrix(Shown(ok), dh)' = MH!BuildMatrix(Shown(ok), dh)
    BY <1>4, TotalStays
  <2>2. reading[w].computed = MH!Computed(dh) => total = MH!BuildMatrix(Shown(ok), dh)
    BY DEF MH!BuildMatrix
  <2> HIDE DEF total
  <2>3. QED
    BY <1>1, <1>2, <1>4, <2>1, <2>2
<1> HIDE DEF total, over
<1>7. cache'[w][dh] = [left |-> Ttl, total |-> total, over |-> over, ok |-> ok]
  BY <1>2, <1>3 DEF CacheInv, total, over
<1> QED BY <1>1, <1>5, <1>6, <1>7 DEF Kept

\* An edit, a restart: the entries of one server go.
LEMMA EditClears ==
  ASSUME CacheInv, NEW w \in DOMAIN cache, MH!SetOverride(w) \/ MH!ClearOverride(w) \/ MH!Restart(w)
  PROVE  CacheInv'
<1>1. /\ cache' = [cache EXCEPT ![w] = [dh \in Queries |-> MH!Empty]]
      /\ \/ editor' = w /\ age' = 0 /\ UNCHANGED reading
         \/ /\ UNCHANGED <<duty, dropped, atd, ata, override, editor, age>>
            /\ reading' = [reading EXCEPT ![w] = MH!Resting]
      /\ UNCHANGED <<duty, dropped, atd, ata>>
  BY DEF MH!SetOverride, MH!ClearOverride, MH!InvalidateMatrixCache, MH!Restart
<1>2. DOMAIN cache' = DOMAIN cache /\ cache' = [v \in DOMAIN cache' |-> [dh \in Queries |-> cache'[v][dh]]]
  BY <1>1 DEF CacheInv
<1>3. ASSUME NEW v \in DOMAIN cache, NEW dh \in Queries
      PROVE  cache'[v][dh] = MH!Empty \/ Kept(v, dh)'
  <2>1. CASE v = w
    BY <1>1, <2>1 DEF CacheInv
  <2>2. CASE v # w
    <3>1. cache'[v][dh] = cache[v][dh] /\ (editor' = w => editor' # v)
      BY <1>1, <2>2 DEF CacheInv
    <3>2. QED
      BY <1>1, <3>1, EntryStays DEF CacheInv
  <2>3. QED BY <2>1, <2>2
<1>4. age' \in 0..Ttl
  BY <1>1, HoursRead DEF MH!HoursAssumption, CacheInv
<1>5. ReadsTyped'
  <2>1. \A v \in DOMAIN cache : reading'[v] = reading[v] \/ reading'[v] = MH!Resting
    BY <1>1 DEF CacheInv, ReadsTyped
  <2>2. age' = 0 \/ age' = age
    BY <1>1
  <2>3. reading' = [v \in DOMAIN cache' |-> reading'[v]]
    BY <1>1, <1>2 DEF CacheInv, ReadsTyped
  <2>4. QED
    BY <1>1, <1>2, <2>1, <2>2, <2>3, ReadsStay DEF CacheInv
<1> QED BY <1>2, <1>3, <1>4, <1>5 DEF CacheInv

\* A request begins to build a matrix.
LEMMA ReadBegins ==
  ASSUME CacheInv, NEW w \in DOMAIN cache, MH!ReadRoster(w)
  PROVE  CacheInv'
<1> DEFINE task(q) == [dh |-> q, computed |-> MH!Computed(q)]
<1>1. PICK q \in Queries : reading' = [reading EXCEPT ![w] = task(q)]
  BY DEF MH!ReadRoster
<1>2. UNCHANGED <<duty, dropped, atd, ata, override, cache, editor, age>>
  BY DEF MH!ReadRoster
<1>3. \A v \in DOMAIN cache, dh \in Queries : Kept(v, dh) => Kept(v, dh)'
  BY <1>2, EntryStays
<1>4. MH!Computed(q)' = MH!Computed(q)
  BY <1>2, MatrixStays
<1>5. task(q).dh = q /\ task(q).computed = MH!Computed(q)'
  BY <1>4
<1> HIDE DEF task
<1>6. /\ reading' = [v \in DOMAIN cache' |-> reading'[v]]
      /\ \A v \in DOMAIN cache : reading'[v] = IF v = w THEN task(q) ELSE reading[v]
  BY <1>1, <1>2 DEF CacheInv, ReadsTyped
<1>7. ASSUME NEW v \in DOMAIN cache, reading'[v] # MH!Resting
      PROVE  \E d \in Queries : /\ reading'[v].dh = d
                                /\ reading'[v].computed = MH!Computed(d)' \/ age' = 0
  <2>1. CASE v = w
    BY <1>5, <1>6, <2>1
  <2>2. CASE v # w
    <3>1. reading'[v] = reading[v]
      BY <1>6, <2>2
    <3>2. PICK d \in Queries : /\ reading[v].dh = d
                               /\ reading[v].computed = MH!Computed(d) \/ age = 0
      BY <1>7, <3>1 DEF CacheInv, ReadsTyped
    <3>3. MH!Computed(d)' = MH!Computed(d)
      BY <1>2, MatrixStays
    <3>4. QED
      BY <1>2, <3>1, <3>2, <3>3
  <2>3. QED BY <2>1, <2>2
<1>8. ReadsTyped'
  BY <1>2, <1>6, <1>7 DEF ReadsTyped
<1> QED BY <1>2, <1>3, <1>8 DEF CacheInv

\* "Overrides must show on the next matrix read" of the server that wrote them, and
\* no server's matrix is behind the tables for longer than an entry lasts: for any
\* number of servers, roster and times.  A matrix whose look-up of the edits failed
\* is kept just as long without them (monthly_hours.py 59-98, 398-406).
THEOREM MatrixStaysRecent == RecordsSpec => []MatrixIsRecent
<1>1. MH!Init => CacheInv
  <2> SUFFICES ASSUME MH!Init PROVE CacheInv
    OBVIOUS
  <2>1. PICK deployed \in SUBSET Servers :
          /\ cache = [w \in deployed |-> [dh \in Queries |-> MH!Empty]]
          /\ reading = [w \in deployed |-> MH!Resting]
    BY DEF MH!Init
  <2>2. age = Ttl /\ Ttl \in Nat
    BY HoursRead DEF MH!Init, MH!HoursAssumption
  <2>3. QED
    BY <2>1, <2>2 DEF CacheInv, ReadsTyped
<1>2. CacheInv /\ [MH!Next]_MH!vars => CacheInv'
  <2> SUFFICES ASSUME CacheInv, [MH!Next]_MH!vars PROVE CacheInv'
    OBVIOUS
  <2>1. CASE MH!Tick
    <3>1. /\ DOMAIN cache' = DOMAIN cache
          /\ cache' = [w \in DOMAIN cache' |-> [dh \in Queries |-> cache'[w][dh]]]
      BY <2>1 DEF MH!Tick
    <3>2. age' \in 0..Ttl
      BY <2>1, HoursRead DEF MH!Tick, CacheInv, MH!HoursAssumption
    <3>3. ReadsTyped'
      BY <2>1, <3>1 DEF MH!Tick, CacheInv, ReadsTyped
    <3>4. QED
      BY <2>1, <3>1, <3>2, <3>3, EntryAges DEF CacheInv
  <2>2. CASE MH!RecordActualTimes \/ MH!ChangeDuty
    <3>1. age' = 0 /\ UNCHANGED <<override, reading, cache, editor>>
      BY <2>2 DEF MH!RecordActualTimes, MH!ChangeDuty
    <3>2. \A w \in DOMAIN cache, dh \in Queries : Kept(w, dh) => Kept(w, dh)'
      BY <3>1, EntryStays
    <3>3. age' \in 0..Ttl
      BY <3>1, HoursRead DEF MH!HoursAssumption
    <3>4. ReadsTyped'
      BY <3>1 DEF CacheInv, ReadsTyped
    <3>5. QED
      BY <3>1, <3>2, <3>3, <3>4 DEF CacheInv
  <2>3. ASSUME NEW w \in DOMAIN cache, MH!ReadOverrides(w) PROVE CacheInv'
    <3> DEFINE q == reading[w].dh
    <3>1. /\ UNCHANGED <<duty, dropped, atd, ata, override, editor, age>>
          /\ reading' = [reading EXCEPT ![w] = MH!Resting]
      BY <2>3 DEF MH!ReadOverrides
    <3>2. PICK e : cache' = [cache EXCEPT ![w][q] = e]
      BY <2>3 DEF MH!ReadOverrides
    <3>3. /\ DOMAIN cache' = DOMAIN cache
          /\ cache' = [v \in DOMAIN cache' |-> [dh \in Queries |-> cache'[v][dh]]]
          /\ \A v \in DOMAIN cache, dh \in Queries :
               v # w \/ dh # q => cache'[v][dh] = cache[v][dh]
      BY <3>2 DEF CacheInv
    <3>4. ASSUME NEW v \in DOMAIN cache, NEW dh \in Queries
          PROVE  cache'[v][dh] = MH!Empty \/ Kept(v, dh)'
      <4>1. CASE v = w /\ dh = q
        BY <2>3, <4>1, FreshIsKept
      <4>2. CASE v # w \/ dh # q
        <5>1. cache'[v][dh] = cache[v][dh]
          BY <3>3, <4>2
        <5>2. QED
          BY <3>1, <5>1, EntryStays DEF CacheInv
      <4>3. QED BY <4>1, <4>2
    <3>5. ReadsTyped'
      <4>1. /\ reading' = [v \in DOMAIN cache' |-> reading'[v]]
            /\ \A v \in DOMAIN cache : reading'[v] = reading[v] \/ reading'[v] = MH!Resting
        BY <3>1, <3>3 DEF CacheInv, ReadsTyped
      <4>2. QED
        BY <3>1, <3>3, <4>1, ReadsStay DEF CacheInv
    <3>6. QED
      BY <3>1, <3>3, <3>4, <3>5 DEF CacheInv
  <2>4. CASE UNCHANGED MH!vars
    <3>1. UNCHANGED <<duty, dropped, atd, ata, override, reading, cache, editor, age>>
      BY <2>4 DEF MH!vars
    <3>2. \A w \in DOMAIN cache, dh \in Queries : Kept(w, dh) => Kept(w, dh)'
      BY <3>1, EntryStays
    <3>3. ReadsTyped'
      <4>1. reading' = [v \in DOMAIN cache' |-> reading'[v]]
        BY <3>1 DEF CacheInv, ReadsTyped
      <4>2. QED
        BY <3>1, <4>1, ReadsStay DEF CacheInv
    <3>4. QED
      BY <3>1, <3>2, <3>3 DEF CacheInv
  <2>5. QED
    BY <2>1, <2>2, <2>3, <2>4, EditClears, ReadBegins DEF MH!Next
<1>3. CacheInv => MatrixIsRecent
  <2> SUFFICES ASSUME CacheInv, NEW w \in DOMAIN cache, NEW dh \in Queries, cache[w][dh] # MH!Empty
               PROVE  /\ editor = w /\ cache[w][dh].ok => cache[w][dh].over = override
                      /\ cache[w][dh].total # MH!BuildMatrix(Shown(cache[w][dh].ok), dh) => age < Ttl
    BY DEF MatrixIsRecent, MH!MatrixIsRecent, Shown
  <2>1. PICK left, total, over, ok :
          /\ left \in 1..Ttl
          /\ cache[w][dh] = [left |-> left, total |-> total, over |-> over, ok |-> ok]
          /\ total = MH!BuildMatrix(Shown(ok), dh) \/ left + age <= Ttl
          /\ editor = w /\ ok => over = override
    BY DEF CacheInv, Kept
  <2>2. left + age <= Ttl => age < Ttl
    BY <2>1, HoursRead DEF CacheInv, MH!HoursAssumption
  <2>3. QED
    BY <2>1, <2>2
<1> QED BY <1>1, <1>2, <1>3, HoursRun, PTL DEF MH!Spec

=============================================================================
