--------------------------- MODULE CrewDeskProofs ---------------------------
(***************************************************************************)
(* What holds of one flight as its crew meet it: of the answers to an      *)
(* assignment for any number of instances interleaving at every call; of   *)
(* the clock, the notices and the delivery record for one process each.    *)
(***************************************************************************)
EXTENDS CrewDesk, Integers, TLAPS

\* An answer writes the row and says what it wrote in one step, so the flags and
\* the last reply can be related by an invariant that mentions no worker.
FlagsInv ==
  /\ row.duty = "operating"
  /\ NeverBoth
  /\ RespondReplyIsTrue

\* An acceptance about to be written was decided on a row not yet accepted; true
\* of the only instance, as nobody writes between its read and its write.
StampInv ==
  AcceptedAtPreserved /\
  (OneInstance =>
     \A w \in DOMAIN worker : worker[w] \in {"acknowledge", "accept"} => ~row.ack)

----------------------------------------------------------------------------
LEMMA InitInv == Init => TypeOK /\ FlagsInv /\ StampInv
<1> SUFFICES ASSUME Init PROVE TypeOK /\ FlagsInv /\ StampInv
  OBVIOUS
<1> USE DEF Init, NewRow, Row, Duties
<1>1. TypeOK
  BY DEF TypeOK
<1>2. FlagsInv
  BY DEF FlagsInv, NeverBoth, RespondReplyIsTrue, BlocksApproval, AcceptanceStatus
<1>3. StampInv
  BY DEF StampInv, AcceptedAtPreserved
<1> QED BY <1>1, <1>2, <1>3

\* The set of instances never changes.
LEMMA SameInstances ==
  ASSUME TypeOK, [Next]_vars
  PROVE  DOMAIN worker' = DOMAIN worker
<1> USE DEF Goto, Read, Reply, Write
<1>1. CASE Flight
  BY <1>1 DEF Flight
<1>2. CASE UNCHANGED vars
  BY <1>2 DEF vars
<1>3. ASSUME NEW w \in DOMAIN worker, Handler(w)
      PROVE  DOMAIN worker' = DOMAIN worker
  BY <1>3 DEF Handler, AcknowledgeRead, AcknowledgeWrite, DeclineRead, DeclineWrite, AcceptRead,
     AcceptReply, AcceptWrite, RejectRead, RejectReply, RejectWrite, ConfirmRead, ConfirmReply,
     ConfirmWrite
<1> QED BY <1>1, <1>2, <1>3 DEF Next

\* What the four UPDATEs do to the flags.
LEMMA Writes ==
  ASSUME NEW r \in Row, r.duty = "operating", ~(r.ack /\ r.declined)
  PROVE  /\ \A s \in {WriteAccepted(r), WriteLegacyDecline(r), WriteDeclined(r), WriteConfirmed(r)} :
              s \in Row /\ s.duty = "operating" /\ ~(s.ack /\ s.declined)
         /\ WriteAccepted(r).ack /\ ~BlocksApproval(WriteAccepted(r))
         /\ BlocksApproval(WriteLegacyDecline(r)) /\ ~WriteLegacyDecline(r).ack
         /\ BlocksApproval(WriteDeclined(r)) /\ ~WriteDeclined(r).ack
         /\ WriteConfirmed(r).ack = r.ack
BY DEF Row, Duties, WriteAccepted, WriteLegacyDecline, WriteDeclined, WriteConfirmed,
       BlocksApproval, AcceptanceStatus

\* The three ways a handler may step, with what each of them writes and replies.
LEMMA HandlerSteps ==
  ASSUME TypeOK, FlagsInv, NEW w \in DOMAIN worker, Handler(w)
  PROVE  \/ \E a \in Answers : Read(w, a) /\ (a \in {"acknowledge", "accept"} => ~row.ack)
         \/ \E s \in {"accepted", "declined", "admin_confirmed"} :
              /\ Reply(w, s)
              /\ s = "accepted" => row.ack
              /\ s = "declined" => row.declined
         \/ \E a \in Answers, s \in {"", "accepted", "declined", "admin_confirmed"} :
              \E new \in Row :
                /\ Write(w, a, new, s)
                /\ new.duty = "operating" /\ ~(new.ack /\ new.declined)
                /\ s = "accepted" => ~BlocksApproval(new)
                /\ s = "declined" => BlocksApproval(new)
<1> row \in Row /\ row.duty = "operating" /\ ~(row.ack /\ row.declined)
  BY DEF TypeOK, FlagsInv, NeverBoth
<1> USE Writes DEF Answers
<1>1. CASE AcknowledgeRead(w) \/ DeclineRead(w) \/ AcceptRead(w) \/ RejectRead(w) \/ ConfirmRead(w)
  BY <1>1 DEF AcknowledgeRead, DeclineRead, AcceptRead, RejectRead, ConfirmRead
<1>2. CASE AcceptReply(w) \/ RejectReply(w) \/ ConfirmReply(w)
  BY <1>2 DEF AcceptReply, RejectReply, ConfirmReply
<1>3. CASE AcknowledgeWrite(w) \/ DeclineWrite(w) \/ AcceptWrite(w) \/ RejectWrite(w) \/ ConfirmWrite(w)
  BY <1>3 DEF AcknowledgeWrite, DeclineWrite, AcceptWrite, RejectWrite, ConfirmWrite
<1> QED BY <1>1, <1>2, <1>3 DEF Handler

LEMMA StepInv ==
  ASSUME TypeOK, FlagsInv, [Next]_vars
  PROVE  TypeOK' /\ FlagsInv'
<1> USE DEF At, Goto
<1>1. CASE Flight
  BY <1>1 DEF Flight, TypeOK, FlagsInv, NeverBoth, RespondReplyIsTrue, BlocksApproval, AcceptanceStatus
<1>2. CASE UNCHANGED vars
  BY <1>2 DEF vars, TypeOK, FlagsInv, NeverBoth, RespondReplyIsTrue, BlocksApproval, AcceptanceStatus
<1>3. ASSUME NEW w \in DOMAIN worker, Handler(w)
      PROVE  TypeOK' /\ FlagsInv'
  <2>1. CASE \E a \in Answers : Read(w, a)
    BY <2>1 DEF Read, TypeOK, FlagsInv, NeverBoth, RespondReplyIsTrue, BlocksApproval, AcceptanceStatus
  <2>2. ASSUME NEW s \in {"accepted", "declined", "admin_confirmed"}, Reply(w, s),
               s = "accepted" => row.ack, s = "declined" => row.declined
        PROVE  TypeOK' /\ FlagsInv'
    BY <2>2 DEF Reply, TypeOK, FlagsInv, NeverBoth, RespondReplyIsTrue, BlocksApproval,
       AcceptanceStatus
  <2>3. ASSUME NEW a \in Answers, NEW s \in {"", "accepted", "declined", "admin_confirmed"},
               NEW new \in Row, Write(w, a, new, s),
               new.duty = "operating", ~(new.ack /\ new.declined),
               s = "accepted" => ~BlocksApproval(new), s = "declined" => BlocksApproval(new)
        PROVE  TypeOK' /\ FlagsInv'
    <3>1. TypeOK'
      BY <2>3 DEF Write, TypeOK, Row
    <3>2. FlagsInv'
      BY <2>3 DEF Write, FlagsInv, NeverBoth, RespondReplyIsTrue, BlocksApproval, AcceptanceStatus
    <3> QED BY <3>1, <3>2
  <2> QED BY <1>3, <2>1, <2>2, <2>3, HandlerSteps
<1> QED BY <1>1, <1>2, <1>3 DEF Next

LEMMA StepStampInv ==
  ASSUME TypeOK, FlagsInv, StampInv, [Next]_vars
  PROVE  StampInv'
<1> SUFFICES ASSUME OneInstance'
             PROVE  /\ ~restamped'
                    /\ \A w \in DOMAIN worker' : worker'[w] \in {"acknowledge", "accept"} => ~row'.ack
  BY DEF StampInv, AcceptedAtPreserved
<1> OneInstance
  BY SameInstances DEF OneInstance
<1> /\ ~restamped
    /\ \A w \in DOMAIN worker : worker[w] \in {"acknowledge", "accept"} => ~row.ack
  BY DEF StampInv, AcceptedAtPreserved
<1> USE DEF At, Goto
<1>1. CASE Flight
  BY <1>1 DEF Flight
<1>2. CASE UNCHANGED vars
  BY <1>2 DEF vars
<1>3. ASSUME NEW w \in DOMAIN worker, Handler(w)
      PROVE  /\ ~restamped'
             /\ \A x \in DOMAIN worker' : worker'[x] \in {"acknowledge", "accept"} => ~row'.ack
  <2>0. \A x \in DOMAIN worker : x = w
    BY DEF OneInstance
  <2>1. ASSUME NEW a \in Answers, Read(w, a), a \in {"acknowledge", "accept"} => ~row.ack
        PROVE  /\ ~restamped'
               /\ \A x \in DOMAIN worker' : worker'[x] \in {"acknowledge", "accept"} => ~row'.ack
    BY <2>0, <2>1 DEF Read
  <2>2. CASE \E s \in {"accepted", "declined", "admin_confirmed"} : Reply(w, s)
    BY <2>2 DEF Reply
  <2>3. CASE \E a \in Answers, s \in {"", "accepted", "declined", "admin_confirmed"} :
               \E new \in Row : Write(w, a, new, s)
    BY <2>0, <2>3 DEF Write
  <2> QED BY <1>3, <2>1, <2>2, <2>3, HandlerSteps
<1> QED BY <1>1, <1>2, <1>3 DEF Next

----------------------------------------------------------------------------
\* Every variable keeps its type, for any set of instances.
THEOREM TypeCorrect == Spec => []TypeOK
<1>1. TypeOK /\ FlagsInv /\ [Next]_vars => TypeOK' /\ FlagsInv'
  BY StepInv
<1> QED BY <1>1, InitInv, PTL DEF Spec

LEMMA FlagsInvariant == Spec => []FlagsInv
<1>1. TypeOK /\ FlagsInv /\ [Next]_vars => TypeOK' /\ FlagsInv'
  BY StepInv
<1> QED BY <1>1, InitInv, PTL DEF Spec

\* The acceptance flags: however many instances answer, through whichever of the
\* five endpoints, no row is accepted and declined at once.
THEOREM AnswersAreConsistent == Spec => []NeverBoth
<1>1. FlagsInv => NeverBoth
  BY DEF FlagsInv
<1> QED BY <1>1, FlagsInvariant, PTL

\* However many instances answer, what /respond replied last is what the approval
\* gate reads.
THEOREM RepliesAreTrue == Spec => []RespondReplyIsTrue
<1>1. FlagsInv => RespondReplyIsTrue
  BY DEF FlagsInv
<1> QED BY <1>1, FlagsInvariant, PTL

\* acknowledged_at: one instance never overwrites the time of an acceptance.
THEOREM AcceptanceIsIdempotent == Spec => []AcceptedAtPreserved
<1>1. TypeOK /\ FlagsInv /\ StampInv /\ [Next]_vars => TypeOK' /\ FlagsInv' /\ StampInv'
  BY StepInv, StepStampInv
<1>2. StampInv => AcceptedAtPreserved
  BY DEF StampInv
<1> QED BY <1>1, <1>2, InitInv, PTL DEF Spec
----------------------------------------------------------------------------
(* In the composition each machine runs, or rests.                         *)

LEMMA ClockRuns == DeskSpec => FS!Spec
<1>1. DeskInit => FS!Init
  BY DEF DeskInit
<1>2. [DeskNext]_deskVars => [FS!Next]_FS!vars
  BY DEF DeskNext, deskVars, Answering, Clocked, Announcing, Delivering, clockVars, FS!vars
<1> QED BY <1>1, <1>2, PTL DEF DeskSpec, FS!Spec

LEMMA NoticesRun == DeskSpec => CN!Spec
<1>1. DeskInit => CN!Init
  BY DEF DeskInit
<1>2. [DeskNext]_deskVars => [CN!Next]_CN!vars
  BY DEF DeskNext, deskVars, Answering, Clocked, Announcing, Delivering, noticeVars, CN!vars
<1> QED BY <1>1, <1>2, PTL DEF DeskSpec, CN!Spec

LEMMA DeliveryRuns == DeskSpec => DL!Spec
<1>1. DeskInit => DL!Init
  BY DEF DeskInit
<1>2. [DeskNext]_deskVars => [DL!Next]_DL!vars
  BY DEF DeskNext, deskVars, Answering, Clocked, Announcing, Delivering, deliveryVars, DL!vars
<1> QED BY <1>1, <1>2, PTL DEF DeskSpec, DL!Spec

LEMMA AnswersRun == DeskSpec => Spec
<1>1. DeskInit => Init
  BY DEF DeskInit
<1>2. [DeskNext]_deskVars => [Next]_vars
  BY DEF DeskNext, deskVars, Answering, Clocked, Announcing, Delivering
<1> QED BY <1>1, <1>2, PTL DEF DeskSpec, Spec

----------------------------------------------------------------------------
(* The clock of the flight.                                                *)

\* When the clock moves the flight to a status, delays counted.
DueAt(s) == CASE s = "boarding" -> Dep + delay - Lead
              [] s = "departed" -> Dep + delay
              [] s = "arrived"  -> Arr + delay

\* A status the clock has set was due, and nothing but a hand brings the flight back
\* before it.
MovedInv ==
  /\ lost \subseteq moved
  /\ \A s \in moved : now >= DueAt(s)
  /\ "arrived" \in moved => status \notin FS!Advanceable
  /\ "departed" \in moved => status \notin {"scheduled", "boarding"}
  /\ "boarding" \in moved => /\ status # "scheduled"
                             /\ status = "departed" => now >= DueAt("departed")

\* A status about to be written is due, and neither it nor a later one was set; one
\* about to be told is set, and its notice is not lost.
AdvanceInv(k) ==
  /\ k.pc = "write" => /\ now >= DueAt(k.to) /\ k.to \notin moved
                       /\ k.to = "boarding" => "departed" \notin moved
                       /\ k.to \in {"boarding", "departed"} => "arrived" \notin moved
  /\ k.pc = "tell" => k.to \in moved \ lost

\* The crew was told of what was set, but for what was lost or is about to be told.
RungInv(k) ==
  \A s \in FS!Moves :
    rung[s] = IF s \in moved \ lost /\ ~(k.pc = "tell" /\ k.to = s) THEN 1 ELSE 0

ClockInv ==
  /\ FS!TypeOK
  /\ FS!OneClock => MovedInv /\ \A w \in DOMAIN clock : AdvanceInv(clock[w]) /\ RungInv(clock[w])

LEMMA TimesTyped ==
  Dep \in Nat /\ Arr \in Nat /\ Lead \in Nat /\ MaxDelay \in Nat /\ MaxTime \in Nat /\ Dep < Arr
  BY FlightTimes DEF FS!TimeAssumption

LEMMA ClockTyped == FS!Spec => []FS!TypeOK
<1> USE TimesTyped
<1>0. FS!Untold \in [FS!Moves -> 0..2]
  BY DEF FS!Untold
<1>i. FS!Idle \in [pc : {"idle", "write", "tell"}, to : FS!Moves]
  BY DEF FS!Idle, FS!Moves
<1>1. FS!Init => FS!TypeOK
  <2> SUFFICES ASSUME FS!Init
               PROVE  FS!TypeOK
    OBVIOUS
  <2>1. now \in 0..MaxTime /\ delay \in 0..MaxDelay /\ moved = {} /\ lost = {}
    BY DEF FS!Init
  <2>2. live \in BOOLEAN /\ status \in FS!VALID_STATUSES \cup {"arrived"}
    BY DEF FS!Init, FS!VALID_STATUSES
  <2>3. PICK W \in (SUBSET ClockWorkers) \ {{}} : clock = [w \in W |-> FS!Idle]
    BY DEF FS!Init
  <2>4. /\ DOMAIN clock \in (SUBSET ClockWorkers) \ {{}}
        /\ clock \in [DOMAIN clock -> [pc : {"idle", "write", "tell"}, to : FS!Moves]]
    BY <1>i, <2>3
  <2>5. rung \in [FS!Moves -> 0..2]
    BY <1>0 DEF FS!Init
  <2>6. QED
    BY <2>1, <2>2, <2>4, <2>5 DEF FS!TypeOK
<1>2. FS!TypeOK /\ [FS!Next]_FS!vars => FS!TypeOK'
  <2> SUFFICES ASSUME FS!TypeOK, [FS!Next]_FS!vars
               PROVE  FS!TypeOK'
    OBVIOUS
  <2> DEFINE K == [pc : {"idle", "write", "tell"}, to : FS!Moves]
  <2>b. ASSUME NEW w \in DOMAIN clock, NEW k \in K, FS!Become(w, k)
        PROVE  DOMAIN clock' = DOMAIN clock /\ clock' \in [DOMAIN clock -> K]
    BY <2>b DEF FS!Become, FS!TypeOK
  <2>k. \A w \in DOMAIN clock : clock[w] \in K
    BY DEF FS!TypeOK
  <2>1. ASSUME NEW w \in ClockWorkers, FS!AdvanceRead(w)
        PROVE  FS!TypeOK'
    <3>1. /\ w \in DOMAIN clock /\ FS!Become(w, [pc |-> "write", to |-> FS!DueStatus])
          /\ FS!DueStatus # "none" /\ UNCHANGED <<now, live, status, delay, moved, rung, lost>>
      BY <2>1 DEF FS!AdvanceRead, FS!Find, FS!At
    <3>2. [pc |-> "write", to |-> FS!DueStatus] \in K
      BY <3>1 DEF FS!DueStatus, FS!Moves
    <3>3. QED
      BY <2>b, <3>1, <3>2 DEF FS!TypeOK
  <2>2. ASSUME NEW w \in ClockWorkers, FS!AdvanceWrite(w)
        PROVE  FS!TypeOK'
    <3>1. /\ w \in DOMAIN clock /\ FS!Become(w, [clock[w] EXCEPT !.pc = "tell"])
          /\ status' = clock[w].to /\ moved' = moved \cup {clock[w].to}
          /\ UNCHANGED <<now, live, delay, rung, lost>>
      BY <2>2 DEF FS!AdvanceWrite, FS!At
    <3>2. [clock[w] EXCEPT !.pc = "tell"] \in K /\ clock[w].to \in FS!Moves
      BY <2>k, <3>1
    <3>3. status' \in FS!VALID_STATUSES \cup {"arrived"}
      BY <3>1, <3>2 DEF FS!Moves, FS!VALID_STATUSES
    <3>4. QED
      BY <2>b, <3>1, <3>2, <3>3 DEF FS!TypeOK
  <2>3. ASSUME NEW w \in ClockWorkers, FS!AdvanceTell(w) \/ FS!AdvanceFail(w)
        PROVE  FS!TypeOK'
    <3>1. /\ w \in DOMAIN clock /\ FS!Become(w, FS!Idle)
          /\ UNCHANGED <<now, live, delay, status, moved>>
          /\ \/ rung' = [rung EXCEPT ![clock[w].to] = IF @ = 0 THEN 1 ELSE 2] /\ lost' = lost
             \/ rung' = rung /\ lost' \in {lost, lost \cup {clock[w].to}}
      BY <2>3 DEF FS!AdvanceTell, FS!AdvanceFail, FS!At
    <3>2. clock[w].to \in FS!Moves
      BY <2>k, <3>1
    <3>3. rung' \in [FS!Moves -> 0..2] /\ lost' \subseteq FS!Moves
      BY <3>1, <3>2 DEF FS!TypeOK
    <3>4. QED
      BY <1>i, <2>b, <3>1, <3>3 DEF FS!TypeOK
  <2>4. ASSUME NEW s, NEW d \in 0..MaxDelay,
               FS!UpdateStatus(s, d) \/ FS!DelayFlight(d) \/ FS!OccDelayFlight(d)
        PROVE  FS!TypeOK'
    <3>1. /\ delay' = d /\ rung' = FS!Untold /\ moved' = {} /\ lost' = {}
          /\ UNCHANGED <<now, live, clock>>
          /\ status' \in FS!VALID_STATUSES
      BY <2>4 DEF FS!UpdateStatus, FS!DelayFlight, FS!OccDelayFlight, FS!SetByHand,
                  FS!VALID_STATUSES
    <3>2. QED
      BY <1>0, <3>1 DEF FS!TypeOK
  <2>5. CASE FS!Tick
    <3>1. now' \in 0..MaxTime
      BY <2>5 DEF FS!Tick, FS!TypeOK
    <3>2. QED
      BY <2>5, <3>1 DEF FS!Tick, FS!TypeOK
  <2>6. CASE FS!BulkCancel \/ FS!Publish
    BY <2>6 DEF FS!BulkCancel, FS!Publish, FS!TypeOK, FS!VALID_STATUSES
  <2>7. CASE UNCHANGED FS!vars
    BY <2>7 DEF FS!vars, FS!TypeOK
  <2>8. QED
    BY <2>1, <2>2, <2>3, <2>4, <2>5, <2>6, <2>7 DEF FS!Next, FS!Advance
<1> QED BY <1>1, <1>2, PTL DEF FS!Spec

\* What a step of the only clock must leave behind.
LEMMA ClockSteps ==
  ASSUME FS!TypeOK, FS!OneClock, NEW w \in DOMAIN clock, NEW k, FS!Become(w, k),
         (MovedInv /\ AdvanceInv(k) /\ RungInv(k))'
  PROVE  MovedInv' /\ \A v \in DOMAIN clock' : (AdvanceInv(clock[v]) /\ RungInv(clock[v]))'
<1>1. DOMAIN clock' = DOMAIN clock /\ \A v \in DOMAIN clock' : clock'[v] = k
  BY DEF FS!Become, FS!TypeOK, FS!OneClock
<1> QED BY <1>1

LEMMA ClockInvariant == FS!Spec => []ClockInv
<1> USE TimesTyped
<1>1. FS!Init => ClockInv \/ ~FS!TypeOK
  <2> SUFFICES ASSUME FS!Init, FS!TypeOK
               PROVE  MovedInv /\ \A w \in DOMAIN clock : AdvanceInv(clock[w]) /\ RungInv(clock[w])
    BY DEF ClockInv
  <2>1. moved = {} /\ lost = {} /\ \A s \in FS!Moves : rung[s] = 0
    BY DEF FS!Init, FS!Untold
  <2>2. \A w \in DOMAIN clock : clock[w].pc = "idle"
    BY DEF FS!Init, FS!Idle
  <2>3. QED
    BY <2>1, <2>2 DEF MovedInv, AdvanceInv, RungInv
<1>2. ASSUME ClockInv, FS!TypeOK', [FS!Next]_FS!vars
      PROVE  ClockInv'
  <2>d. DOMAIN clock' = DOMAIN clock
    <3>1. ASSUME NEW w \in ClockWorkers, FS!Advance(w) \/ FS!AdvanceFail(w)
          PROVE  DOMAIN clock' = DOMAIN clock
      BY <3>1, <1>2 DEF FS!Advance, FS!AdvanceFail, FS!AdvanceRead, FS!Find, FS!AdvanceWrite,
         FS!AdvanceTell, FS!Become, ClockInv, FS!TypeOK
    <3>2. ASSUME NEW s, NEW d, FS!UpdateStatus(s, d) \/ FS!DelayFlight(d) \/ FS!OccDelayFlight(d)
          PROVE  DOMAIN clock' = DOMAIN clock
      BY <3>2 DEF FS!UpdateStatus, FS!DelayFlight, FS!OccDelayFlight, FS!SetByHand
    <3>3. QED
      BY <1>2, <3>1, <3>2 DEF FS!Next, FS!BulkCancel, FS!Publish, FS!Tick, FS!vars
  <2> SUFFICES ASSUME FS!OneClock
               PROVE  MovedInv' /\ \A w \in DOMAIN clock' : (AdvanceInv(clock[w]) /\ RungInv(clock[w]))'
    BY <1>2, <2>d DEF ClockInv, FS!OneClock
  <2>i. FS!TypeOK /\ MovedInv /\ \A w \in DOMAIN clock : AdvanceInv(clock[w]) /\ RungInv(clock[w])
    BY <1>2 DEF ClockInv
  <2>t. /\ now \in Nat /\ delay \in Nat
        /\ moved \subseteq FS!Moves /\ lost \subseteq FS!Moves /\ rung \in [FS!Moves -> 0..2]
        /\ \A w \in DOMAIN clock : clock[w] \in [pc : {"idle", "write", "tell"}, to : FS!Moves]
    BY <2>i DEF FS!TypeOK
  <2>1. ASSUME NEW w \in ClockWorkers, FS!AdvanceRead(w)
        PROVE  MovedInv' /\ \A v \in DOMAIN clock' : (AdvanceInv(clock[v]) /\ RungInv(clock[v]))'
    <3>0. PICK k : k = [pc |-> "write", to |-> FS!DueStatus]
      OBVIOUS
    <3>1. /\ w \in DOMAIN clock /\ clock[w].pc = "idle" /\ FS!Become(w, k)
          /\ status \in {"scheduled", "boarding", "departed"}
          /\ FS!DueStatus \notin {"none", status}
          /\ UNCHANGED <<now, live, status, delay, moved, rung, lost>>
      BY <2>1, <3>0 DEF FS!AdvanceRead, FS!Find, FS!At, FS!Advanceable
    <3>2. k.pc = "write" /\ k.to = FS!DueStatus
      BY <3>0
    <3>3. MovedInv'
      BY <2>i, <3>1 DEF MovedInv, DueAt, FS!Advanceable
    <3>4. RungInv(k)'
      BY <2>i, <3>1, <3>2 DEF RungInv
    <3>5. /\ now >= DueAt(k.to) /\ k.to \notin moved
          /\ k.to = "boarding" => "departed" \notin moved
          /\ k.to \in {"boarding", "departed"} => "arrived" \notin moved
      <4>1. "arrived" \notin moved
        BY <2>i, <3>1 DEF MovedInv, FS!Advanceable
      <4>2. CASE FS!DueStatus = "arrived"
        BY <2>t, <3>2, <4>1, <4>2 DEF FS!DueStatus, DueAt
      <4>3. CASE FS!DueStatus = "departed"
        BY <2>i, <2>t, <3>1, <3>2, <4>1, <4>3 DEF FS!DueStatus, DueAt, MovedInv
      <4>4. CASE FS!DueStatus = "boarding"
        <5>1. now >= Dep + delay - Lead /\ ~(now >= Dep + delay)
          BY <2>t, <4>4 DEF FS!DueStatus
        <5>2. "departed" \notin moved /\ "boarding" \notin moved
          BY <2>i, <2>t, <3>1, <4>4, <5>1 DEF MovedInv, DueAt
        <5>3. QED
          BY <3>2, <4>1, <4>4, <5>1, <5>2 DEF DueAt
      <4>5. QED
        BY <3>1, <4>2, <4>3, <4>4 DEF FS!DueStatus
    <3>6. AdvanceInv(k)'
      BY <3>1, <3>2, <3>5 DEF AdvanceInv, DueAt
    <3>7. QED
      BY <2>i, <3>1, <3>3, <3>4, <3>6, ClockSteps
  <2>2. ASSUME NEW w \in ClockWorkers, FS!AdvanceWrite(w)
        PROVE  MovedInv' /\ \A v \in DOMAIN clock' : (AdvanceInv(clock[v]) /\ RungInv(clock[v]))'
    <3>0. PICK k, t : k = [clock[w] EXCEPT !.pc = "tell"] /\ t = clock[w].to
      OBVIOUS
    <3>1. /\ w \in DOMAIN clock /\ clock[w].pc = "write" /\ FS!Become(w, k)
          /\ status' = t /\ moved' = moved \cup {t}
          /\ UNCHANGED <<now, live, delay, rung, lost>>
      BY <2>2, <3>0 DEF FS!AdvanceWrite, FS!At
    <3>2. k.pc = "tell" /\ k.to = t /\ t \in FS!Moves
      BY <2>t, <3>0, <3>1
    <3>3. /\ now >= DueAt(t) /\ t \notin moved /\ t \notin lost
          /\ t = "boarding" => "departed" \notin moved
          /\ t \in {"boarding", "departed"} => "arrived" \notin moved
      BY <2>i, <3>0, <3>1 DEF AdvanceInv, MovedInv
    <3>4. \A s : DueAt(s)' = DueAt(s)
      BY <3>1 DEF DueAt
    <3>5. RungInv(k)'
      BY <2>i, <3>0, <3>1, <3>2, <3>3 DEF RungInv
    <3>6. AdvanceInv(k)'
      BY <3>1, <3>2, <3>3 DEF AdvanceInv
    <3>7. MovedInv'
      <4>1. lost' \subseteq moved' /\ \A s \in moved' : now' >= DueAt(s)'
        BY <2>i, <3>1, <3>3, <3>4 DEF MovedInv
      <4>2. CASE t = "boarding"
        BY <2>i, <3>1, <3>3, <3>4, <4>1, <4>2 DEF MovedInv, FS!Advanceable
      <4>3. CASE t = "departed"
        BY <2>i, <3>1, <3>3, <3>4, <4>1, <4>3 DEF MovedInv, FS!Advanceable
      <4>4. CASE t = "arrived"
        BY <2>i, <3>1, <3>3, <3>4, <4>1, <4>4 DEF MovedInv, FS!Advanceable
      <4>5. QED
        BY <3>2, <4>2, <4>3, <4>4 DEF FS!Moves
    <3>8. QED
      BY <2>i, <3>1, <3>5, <3>6, <3>7, ClockSteps
  <2>3. ASSUME NEW w \in ClockWorkers, FS!AdvanceTell(w) \/ FS!AdvanceFail(w)
        PROVE  MovedInv' /\ \A v \in DOMAIN clock' : (AdvanceInv(clock[v]) /\ RungInv(clock[v]))'
    <3>0. PICK t : t = clock[w].to
      OBVIOUS
    <3>1. /\ w \in DOMAIN clock /\ FS!Become(w, FS!Idle)
          /\ UNCHANGED <<now, live, status, delay, moved>>
          /\ \/ /\ clock[w].pc = "tell" /\ lost' = lost
                /\ rung' = [rung EXCEPT ![t] = IF @ = 0 THEN 1 ELSE 2]
             \/ clock[w].pc = "tell" /\ rung' = rung /\ lost' = lost \cup {t}
             \/ clock[w].pc = "write" /\ rung' = rung /\ lost' = lost
      BY <2>3, <3>0 DEF FS!AdvanceTell, FS!AdvanceFail, FS!At
    <3>2. t \in FS!Moves /\ (clock[w].pc = "tell" => t \in moved \ lost)
      BY <2>i, <2>t, <3>0, <3>1 DEF AdvanceInv
    <3>3. MovedInv'
      BY <2>i, <3>1, <3>2 DEF MovedInv, DueAt
    <3>4. FS!Idle.pc = "idle"
      BY DEF FS!Idle
    <3>5. AdvanceInv(FS!Idle)'
      BY <3>4 DEF AdvanceInv, FS!Idle
    <3>6. RungInv(clock[w])
      BY <2>i, <3>1
    <3>7. ASSUME NEW s \in FS!Moves
          PROVE  rung'[s] = IF s \in moved' \ lost' THEN 1 ELSE 0
      <4>1. rung[s] = IF s \in moved \ lost /\ ~(clock[w].pc = "tell" /\ t = s) THEN 1 ELSE 0
        BY <3>0, <3>6 DEF RungInv
      <4>2. QED
        BY <2>t, <3>1, <3>2, <4>1
    <3>8. RungInv(FS!Idle)'
      BY <3>4, <3>7 DEF RungInv, FS!Idle, FS!Moves
    <3>9. QED
      BY <2>i, <3>1, <3>3, <3>5, <3>8, ClockSteps
  <2>4. ASSUME NEW s, NEW d \in 0..MaxDelay,
               FS!UpdateStatus(s, d) \/ FS!DelayFlight(d) \/ FS!OccDelayFlight(d)
        PROVE  MovedInv' /\ \A v \in DOMAIN clock' : (AdvanceInv(clock[v]) /\ RungInv(clock[v]))'
    <3>1. /\ moved' = {} /\ lost' = {} /\ rung' = FS!Untold /\ clock' = clock /\ FS!Served
      BY <2>4 DEF FS!UpdateStatus, FS!DelayFlight, FS!OccDelayFlight, FS!SetByHand
    <3>2. \A v \in DOMAIN clock' : clock'[v].pc = "idle"
      BY <3>1 DEF FS!Served, FS!At, FS!OneClock
    <3>3. \A x \in FS!Moves : rung'[x] = 0
      BY <3>1 DEF FS!Untold
    <3>4. QED
      BY <3>1, <3>2, <3>3 DEF MovedInv, AdvanceInv, RungInv
  <2>5. CASE FS!BulkCancel \/ FS!Publish \/ UNCHANGED FS!vars
    <3>1. /\ UNCHANGED <<now, delay, clock, moved, rung, lost>>
          /\ status' \in {status, "cancelled"}
      BY <2>5 DEF FS!BulkCancel, FS!Publish, FS!vars
    <3>2. MovedInv'
      BY <2>i, <3>1 DEF MovedInv, DueAt, FS!Advanceable
    <3>3. \A v \in DOMAIN clock' : (AdvanceInv(clock[v]) /\ RungInv(clock[v]))'
      BY <2>i, <3>1 DEF AdvanceInv, RungInv, DueAt
    <3>4. QED
      BY <3>2, <3>3
  <2>6. CASE FS!Tick
    <3>1. /\ now' = now + 1 /\ UNCHANGED <<status, delay, clock, moved, rung, lost>>
      BY <2>6 DEF FS!Tick
    <3>2. \A s \in FS!Moves : now >= DueAt(s) => now' >= DueAt(s)'
      BY <2>t, <3>1 DEF DueAt, FS!Moves
    <3>3. MovedInv'
      BY <2>i, <2>t, <3>1, <3>2 DEF MovedInv, FS!Moves
    <3>4. \A v \in DOMAIN clock' : (AdvanceInv(clock[v]) /\ RungInv(clock[v]))'
      BY <2>i, <2>t, <3>1, <3>2 DEF AdvanceInv, RungInv
    <3>5. QED
      BY <3>3, <3>4
  <2>7. QED
    BY <1>2, <2>1, <2>2, <2>3, <2>4, <2>5, <2>6 DEF FS!Next, FS!Advance
<1>3. FS!TypeOK /\ (ClockInv \/ ~FS!TypeOK) => ClockInv
  OBVIOUS
<1> QED BY <1>1, <1>2, <1>3, ClockTyped, PTL DEF FS!Spec

\* With one process the crew is told of each status the clock moves the flight to,
\* once, unless that notice is lost or a hand moves it: any times and delays.
THEOREM CrewIsToldOnce == DeskSpec => []ToldOnce
<1>1. ClockInv => ToldOnce
  <2> SUFFICES ASSUME ClockInv, FS!OneClock, NEW s \in FS!Moves
               PROVE  /\ rung[s] <= 1
                      /\ FS!AllIdle => (rung[s] = 1 <=> s \in moved \ lost)
    BY DEF ToldOnce, FS!ToldOnce
  <2>t. FS!TypeOK
    BY DEF ClockInv
  <2>0. DOMAIN clock # {}
    BY <2>t DEF FS!TypeOK
  <2>1. PICK w \in DOMAIN clock : TRUE
    BY <2>0
  <2>2. rung[s] = IF s \in moved \ lost /\ ~(clock[w].pc = "tell" /\ clock[w].to = s) THEN 1 ELSE 0
    BY DEF ClockInv, RungInv
  <2>3. FS!AllIdle => clock[w].pc = "idle"
    BY DEF FS!AllIdle, FS!At
  <2>4. QED
    BY <2>2, <2>3
<1> QED BY <1>1, ClockInvariant, ClockRuns, PTL

----------------------------------------------------------------------------
(* What the crew are told of their duty.                                   *)

OneCaller == \E w : NoticeWorkers = {w}

\* What a handler holds to be true of the roster and of the publication between
\* two of its calls.
CallerSound(k, crew, seen) ==
  /\ k.pc \in {"assignTell", "replaceDelete", "replaceTellOld", "replaceTellNew",
               "finalizeTell"} => k.live = seen /\ k.new \subseteq crew
  /\ k.pc \in {"removeTell", "replaceTellOld"} => k.old \cap crew = {}
  /\ k.pc = "replaceDelete" => k.old \cap k.new = {}
  /\ k.pc \in {"publishAudit", "publishAllocators", "publishCrew", "publishTell"} => seen
  /\ k.pc = "publishTell" => k.new \subseteq crew
  /\ k.pc \in {"unpublishAudit", "unpublishTell"} => ~seen

\* Who is about to be told that he flies, and that he does not.
Joining(k, crew) ==
  IF k.pc \in {"publishAudit", "publishAllocators", "publishCrew"} THEN crew
  ELSE IF k.pc \in {"assignTell", "replaceDelete", "replaceTellOld", "replaceTellNew",
                    "publishTell"} THEN k.new ELSE {}

Leaving(k, crew) ==
  IF k.pc = "unpublishAudit" THEN crew
  ELSE IF k.pc \in {"removeTell", "replaceTellOld"} THEN k.old
  ELSE IF k.pc = "unpublishTell" THEN k.new ELSE {}

\* The lapses under which a member may see a flight he was not told of, and think
\* that he is on one he does not see.
Forgets(past) == past \cap {"duty", "audit", "allocators", "untold"} # {}
Misleads(past) == past \cap {"draft", "audit", "untold"} # {}

\* Whoever sees the flight knows it or is about to be told.
NoneForgotten(k, crew, seen, heard, past) ==
  seen => \A c \in crew : heard[c] = "on" \/ c \in Joining(k, crew) \/ Forgets(past[c])

\* Who stays rostered should the handler roll its write back.
Standing(k, crew) == IF k.pc = "replaceDelete" THEN crew \ k.new ELSE crew

\* Whoever thinks that he flies does, or is about to be told otherwise.
NoneMisled(k, crew, seen, heard, past) ==
  \A c \in Crew : heard[c] = "on" => \/ c \in Standing(k, crew) /\ seen
                                     \/ c \in Leaving(k, crew) \/ Misleads(past[c])

NoticeSound(k, crew, seen, heard, past) ==
  /\ CallerSound(k, crew, seen)
  /\ NoneForgotten(k, crew, seen, heard, past)
  /\ NoneMisled(k, crew, seen, heard, past)

NoticeInv ==
  CN!TypeOK /\ \A w \in NoticeWorkers : NoticeSound(caller[w], on, shown, told, lapse)

LEMMA CallerBecomes ==
  ASSUME CN!TypeOK, NEW w \in NoticeWorkers, NEW s, CN!Become(w, s)
  PROVE  /\ caller'[w] = s
         /\ s \in CN!LocalState => caller' \in [NoticeWorkers -> CN!LocalState]
  BY DEF CN!TypeOK, CN!Become

LEMMA CallerGoes ==
  ASSUME CN!TypeOK, NEW w \in NoticeWorkers, NEW pc, CN!Goto(w, pc)
  PROVE  /\ caller'[w].pc = pc /\ caller'[w].live = caller[w].live
         /\ caller'[w].old = caller[w].old /\ caller'[w].new = caller[w].new
         /\ (\E s \in CN!LocalState : s.pc = pc) => caller' \in [NoticeWorkers -> CN!LocalState]
<1> DEFINE s == [caller[w] EXCEPT !.pc = pc]
<1>1. caller[w] \in CN!LocalState
  BY DEF CN!TypeOK
<1>2. s.pc = pc /\ s.live = caller[w].live /\ s.old = caller[w].old /\ s.new = caller[w].new
  BY <1>1 DEF CN!LocalState
<1>3. (\E x \in CN!LocalState : x.pc = pc) => s \in CN!LocalState
  BY <1>1 DEF CN!LocalState
<1>4. CN!Become(w, s)
  BY DEF CN!Goto
<1> HIDE DEF s
<1> QED BY <1>2, <1>3, <1>4, CallerBecomes

LEMMA CallerFinishes ==
  ASSUME CN!TypeOK, NEW w \in NoticeWorkers, CN!Finish(w)
  PROVE  /\ caller'[w] = CN!Idle /\ caller'[w].pc = "idle"
         /\ caller' \in [NoticeWorkers -> CN!LocalState]
<1>1. CN!Idle \in CN!LocalState /\ CN!Idle.pc = "idle"
  BY DEF CN!Idle, CN!LocalState
<1> QED BY <1>1, CallerBecomes DEF CN!Finish

LEMMA TellIs ==
  ASSUME CN!TypeOK, NEW C, NEW what \in CN!Told, NEW why \in SUBSET CN!Lapses,
         CN!Tell(C, what, why)
  PROVE  /\ \A c \in Crew : IF c \in C THEN told'[c] = what /\ lapse'[c] = why
                            ELSE told'[c] = told[c] /\ lapse'[c] = lapse[c]
         /\ told' \in [Crew -> CN!Told] /\ lapse' \in [Crew -> SUBSET CN!Lapses]
  BY DEF CN!TypeOK, CN!Tell

LEMMA LoseIs ==
  ASSUME CN!TypeOK, NEW C, NEW why \in CN!Lapses, CN!Lose(C, why)
  PROVE  /\ \A c \in Crew : lapse'[c] = IF c \in C THEN lapse[c] \cup {why} ELSE lapse[c]
         /\ told' = told /\ lapse' \in [Crew -> SUBSET CN!Lapses]
  BY DEF CN!TypeOK, CN!Lose

\* A notice that fails leaves its lapse with whom it was meant for.
LEMMA UntoldExcuses ==
  \A past, why :
    /\ Forgets(past) => Forgets(past \cup {why})
    /\ Misleads(past) => Misleads(past \cup {why})
    /\ why \in {"audit", "allocators", "duty", "untold"} => Forgets(past \cup {why})
    /\ why \in {"audit", "untold", "draft"} => Misleads(past \cup {why})
  BY DEF Forgets, Misleads

LEMMA TryIs ==
  ASSUME CN!TypeOK, NEW C, NEW what \in CN!Told, CN!Try(C, what)
  PROVE  /\ \A c \in Crew :
              IF c \in C THEN \/ told'[c] = what /\ lapse'[c] = {}
                              \/ told'[c] = told[c] /\ Forgets(lapse'[c]) /\ Misleads(lapse'[c])
              ELSE told'[c] = told[c] /\ lapse'[c] = lapse[c]
         /\ told' \in [Crew -> CN!Told] /\ lapse' \in [Crew -> SUBSET CN!Lapses]
<1>1. {} \in SUBSET CN!Lapses /\ "untold" \in CN!Lapses
  BY DEF CN!Lapses
<1>2. CASE CN!Tell(C, what, {})
  <2>1. /\ \A c \in Crew : IF c \in C THEN told'[c] = what /\ lapse'[c] = {}
                            ELSE told'[c] = told[c] /\ lapse'[c] = lapse[c]
        /\ told' \in [Crew -> CN!Told] /\ lapse' \in [Crew -> SUBSET CN!Lapses]
    BY <1>1, <1>2, TellIs
  <2>2. QED BY <2>1
<1>3. CASE CN!Lose(C, "untold")
  <2>1. /\ \A c \in Crew : lapse'[c] = IF c \in C THEN lapse[c] \cup {"untold"} ELSE lapse[c]
        /\ told' = told /\ lapse' \in [Crew -> SUBSET CN!Lapses]
    BY <1>1, <1>3, LoseIs
  <2>2. \A c \in C : c \in Crew => Forgets(lapse'[c]) /\ Misleads(lapse'[c])
    BY <2>1, UntoldExcuses
  <2>3. QED BY <2>1, <2>2 DEF CN!TypeOK
<1> QED BY <1>2, <1>3 DEF CN!Try

\* The handler ends, and loses what it still had to tell.
LEMMA HandlerLoses ==
  ASSUME NoticeInv, NEW w \in NoticeWorkers, NEW C, NEW why \in {"audit", "allocators", "untold"},
         CN!Finish(w), CN!Lose(C, why), UNCHANGED <<on, shown>>,
         shown => Joining(caller[w], on) \subseteq C,
         Leaving(caller[w], on) \subseteq IF why = "allocators" THEN {} ELSE C
  PROVE  CN!TypeOK' /\ NoticeSound(caller[w], on, shown, told, lapse)'
<1>t. CN!TypeOK /\ why \in CN!Lapses
  BY DEF NoticeInv, CN!Lapses
<1>1. caller'[w].pc = "idle" /\ caller' \in [NoticeWorkers -> CN!LocalState]
  BY <1>t, CallerFinishes
<1>2. /\ \A c \in Crew : lapse'[c] = IF c \in C THEN lapse[c] \cup {why} ELSE lapse[c]
      /\ told' = told /\ lapse' \in [Crew -> SUBSET CN!Lapses]
  BY <1>t, LoseIs
<1>3. on \subseteq Crew
  BY <1>t DEF CN!TypeOK
<1>4. /\ NoneForgotten(caller[w], on, shown, told, lapse)
      /\ NoneMisled(caller[w], on, shown, told, lapse)
  BY DEF NoticeInv, NoticeSound
<1>5. ASSUME NEW c \in Crew
      PROVE  /\ c \in C \/ Forgets(lapse[c]) => Forgets(lapse'[c])
             /\ (c \in C /\ why # "allocators") \/ Misleads(lapse[c]) => Misleads(lapse'[c])
  <2>1. lapse'[c] = IF c \in C THEN lapse[c] \cup {why} ELSE lapse[c]
    BY <1>2
  <2>2. QED
    BY <2>1, UntoldExcuses
<1>6. NoneForgotten(caller[w], on, shown, told, lapse)'
  BY <1>2, <1>3, <1>4, <1>5 DEF NoneForgotten
<1>7. NoneMisled(caller[w], on, shown, told, lapse)'
  BY <1>1, <1>2, <1>4, <1>5 DEF NoneMisled, Standing
<1>8. CN!TypeOK'
  BY <1>t, <1>1, <1>2 DEF CN!TypeOK
<1> QED BY <1>1, <1>6, <1>7, <1>8 DEF NoticeSound, CallerSound

\* A handler that starts: the write it makes and what it will tell of it.
LEMMA NoticeStarts ==
  ASSUME NoticeInv, NEW w \in NoticeWorkers,
         \/ \E c \in Crew : CN!Assign(w, c) \/ CN!Remove(w, c)
         \/ \E C \in SUBSET Crew : CN!AssignDuty(w, C) \/ CN!Finalize(w, C)
         \/ \E old, new \in Crew : CN!Replace(w, old, new)
         \/ CN!Publish(w) \/ CN!Unpublish(w)
  PROVE  CN!TypeOK' /\ NoticeSound(caller[w], on, shown, told, lapse)'
<1> USE DEF NoticeInv
<1>i. caller[w].pc = "idle"
  BY DEF CN!Assign, CN!Remove, CN!AssignDuty, CN!Finalize, CN!Replace, CN!Publish, CN!Unpublish,
         CN!At
<1>s. /\ NoneForgotten(caller[w], on, shown, told, lapse)
      /\ NoneMisled(caller[w], on, shown, told, lapse)
  BY DEF NoticeSound
<1>n. /\ shown => \A c \in on : told[c] = "on" \/ Forgets(lapse[c])
      /\ \A c \in Crew : told[c] = "on" => (c \in on /\ shown) \/ Misleads(lapse[c])
  BY <1>i, <1>s DEF NoneForgotten, NoneMisled, Standing, Joining, Leaving
<1>1. ASSUME NEW c \in Crew, CN!Assign(w, c)
      PROVE  CN!TypeOK' /\ NoticeSound(caller[w], on, shown, told, lapse)'
  <2> DEFINE s == [CN!Idle EXCEPT !.pc = "assignTell", !.new = {c}, !.live = shown]
  <2>1. s.pc = "assignTell" /\ s.new = {c} /\ s.live = shown
    BY DEF CN!Idle
  <2>2. s \in CN!LocalState
    BY DEF CN!Idle, CN!LocalState, CN!TypeOK
  <2>3. /\ caller'[w] = s /\ caller' \in [NoticeWorkers -> CN!LocalState]
        /\ on' = on \cup {c} /\ UNCHANGED <<shown, told, lapse>>
    BY <1>1, <2>2, CallerBecomes DEF CN!Assign
  <2> HIDE DEF s
  <2>4. CN!TypeOK'
    BY <2>3 DEF CN!TypeOK
  <2>5. QED
    BY <1>n, <2>1, <2>3, <2>4
       DEF NoticeSound, CallerSound, NoneForgotten, NoneMisled, Standing, Joining, Leaving
<1>2. ASSUME NEW c \in Crew, CN!Remove(w, c)
      PROVE  CN!TypeOK' /\ NoticeSound(caller[w], on, shown, told, lapse)'
  <2> DEFINE s == [CN!Idle EXCEPT !.pc = "removeTell", !.old = {c}]
  <2>1. s.pc = "removeTell" /\ s.old = {c}
    BY DEF CN!Idle
  <2>2. s \in CN!LocalState
    BY DEF CN!Idle, CN!LocalState
  <2>3. /\ caller'[w] = s /\ caller' \in [NoticeWorkers -> CN!LocalState]
        /\ on' = on \ {c} /\ UNCHANGED <<shown, told, lapse>>
    BY <1>2, <2>2, CallerBecomes DEF CN!Remove
  <2> HIDE DEF s
  <2>4. CN!TypeOK'
    BY <2>3 DEF CN!TypeOK
  <2>5. QED
    BY <1>n, <2>1, <2>3, <2>4
       DEF NoticeSound, CallerSound, NoneForgotten, NoneMisled, Standing, Joining, Leaving
<1>3. ASSUME NEW C \in SUBSET Crew, CN!AssignDuty(w, C)
      PROVE  CN!TypeOK' /\ NoticeSound(caller[w], on, shown, told, lapse)'
  <2> DEFINE D == IF shown THEN C \ on ELSE {}
  <2>1. on' = on \cup C /\ UNCHANGED <<shown, caller>> /\ CN!Lose(D, "duty")
    BY <1>3 DEF CN!AssignDuty
  <2>2. "duty" \in CN!Lapses
    BY DEF CN!Lapses
  <2> HIDE DEF D
  <2>3. /\ \A c \in Crew : lapse'[c] = IF c \in D THEN lapse[c] \cup {"duty"} ELSE lapse[c]
        /\ told' = told /\ lapse' \in [Crew -> SUBSET CN!Lapses]
    BY <2>1, <2>2, LoseIs
  <2>4. CN!TypeOK'
    BY <2>1, <2>3 DEF CN!TypeOK
  <2>5. ASSUME NEW c \in Crew
        PROVE  /\ c \in D \/ Forgets(lapse[c]) => Forgets(lapse'[c])
               /\ Misleads(lapse[c]) => Misleads(lapse'[c])
    <3>1. lapse'[c] = IF c \in D THEN lapse[c] \cup {"duty"} ELSE lapse[c]
      BY <2>3
    <3>2. QED
      BY <3>1, UntoldExcuses
  <2>6. shown => \A c \in C : c \in on \/ c \in D
    BY DEF D
  <2>7. on \subseteq Crew
    BY DEF CN!TypeOK
  <2>8. NoneForgotten(caller[w], on, shown, told, lapse)'
    BY <1>n, <2>1, <2>3, <2>5, <2>6, <2>7 DEF NoneForgotten
  <2>9. NoneMisled(caller[w], on, shown, told, lapse)'
    BY <1>i, <1>n, <2>1, <2>3, <2>5 DEF NoneMisled, Standing
  <2>10. QED
    BY <1>i, <2>1, <2>4, <2>8, <2>9 DEF NoticeSound, CallerSound
<1>4. ASSUME NEW C \in SUBSET Crew, CN!Finalize(w, C)
      PROVE  CN!TypeOK' /\ NoticeSound(caller[w], on, shown, told, lapse)'
  <2> DEFINE s == [CN!Idle EXCEPT !.pc = "finalizeTell", !.new = on \ C, !.live = shown]
  <2>1. s.pc = "finalizeTell" /\ s.new = on \ C /\ s.live = shown
    BY DEF CN!Idle
  <2>2. s \in CN!LocalState
    BY DEF CN!Idle, CN!LocalState, CN!TypeOK
  <2>3. /\ caller'[w] = s /\ caller' \in [NoticeWorkers -> CN!LocalState]
        /\ UNCHANGED <<on, shown, told, lapse>>
    BY <1>4, <2>2, CallerBecomes DEF CN!Finalize
  <2> HIDE DEF s
  <2>4. CN!TypeOK'
    BY <2>3 DEF CN!TypeOK
  <2>5. QED
    BY <1>n, <2>1, <2>3, <2>4
       DEF NoticeSound, CallerSound, NoneForgotten, NoneMisled, Standing, Joining, Leaving
<1>5. ASSUME NEW old \in Crew, NEW new \in Crew, CN!Replace(w, old, new)
      PROVE  CN!TypeOK' /\ NoticeSound(caller[w], on, shown, told, lapse)'
  <2> DEFINE s == [pc |-> "replaceDelete", old |-> {old}, new |-> {new}, live |-> shown]
  <2>1. s.pc = "replaceDelete" /\ s.old = {old} /\ s.new = {new} /\ s.live = shown
    OBVIOUS
  <2>2. s \in CN!LocalState
    BY DEF CN!LocalState, CN!TypeOK
  <2>3. /\ caller'[w] = s /\ caller' \in [NoticeWorkers -> CN!LocalState]
        /\ on' = on \cup {new} /\ UNCHANGED <<shown, told, lapse>>
        /\ old # new /\ new \notin on
    BY <1>5, <2>2, CallerBecomes DEF CN!Replace
  <2> HIDE DEF s
  <2>4. CN!TypeOK'
    BY <2>3 DEF CN!TypeOK
  <2>5. QED
    BY <1>n, <2>1, <2>3, <2>4
       DEF NoticeSound, CallerSound, NoneForgotten, NoneMisled, Standing, Joining, Leaving
<1>6. ASSUME CN!Publish(w) \/ CN!Unpublish(w)
      PROVE  CN!TypeOK' /\ NoticeSound(caller[w], on, shown, told, lapse)'
  <2>1. \E pc \in {"publishAudit", "unpublishAudit"} :
          /\ CN!Become(w, [CN!Idle EXCEPT !.pc = pc])
          /\ shown = (pc = "unpublishAudit") /\ shown' = (pc = "publishAudit")
          /\ UNCHANGED <<on, told, lapse>>
    BY <1>6 DEF CN!Publish, CN!Unpublish, CN!TypeOK
  <2>2. PICK pc \in {"publishAudit", "unpublishAudit"} :
          /\ CN!Become(w, [CN!Idle EXCEPT !.pc = pc])
          /\ shown = (pc = "unpublishAudit") /\ shown' = (pc = "publishAudit")
          /\ UNCHANGED <<on, told, lapse>>
    BY <2>1
  <2> DEFINE s == [CN!Idle EXCEPT !.pc = pc]
  <2>3. s.pc = pc /\ s \in CN!LocalState
    BY DEF CN!Idle, CN!LocalState
  <2>4. caller'[w] = s /\ caller' \in [NoticeWorkers -> CN!LocalState]
    BY <2>2, <2>3, CallerBecomes
  <2> HIDE DEF s
  <2>5. CN!TypeOK'
    BY <2>2, <2>4 DEF CN!TypeOK
  <2>6. QED
    BY <1>n, <2>2, <2>3, <2>4, <2>5
       DEF NoticeSound, CallerSound, NoneForgotten, NoneMisled, Standing, Joining, Leaving
<1> QED BY <1>1, <1>2, <1>3, <1>4, <1>5, <1>6

\* The handlers of a roster go on: the next call, or the one that fails.
LEMMA RosterContinues ==
  ASSUME NoticeInv, NEW w \in NoticeWorkers,
         \/ CN!AssignTell(w) \/ CN!RemoveTell(w) \/ CN!UnpublishTell(w)
         \/ CN!ReplaceDelete(w) \/ CN!ReplaceSilently(w) \/ CN!ReplaceRollback(w)
         \/ CN!ReplaceTellOld(w) \/ CN!ReplaceTellNew(w) \/ CN!FinalizeTell(w)
  PROVE  CN!TypeOK' /\ NoticeSound(caller[w], on, shown, told, lapse)'
<1> USE DEF NoticeInv
<1>t. CN!TypeOK /\ caller[w] \in CN!LocalState /\ on \subseteq Crew
  BY DEF CN!TypeOK
<1>s. /\ CallerSound(caller[w], on, shown)
      /\ NoneForgotten(caller[w], on, shown, told, lapse)
      /\ NoneMisled(caller[w], on, shown, told, lapse)
  BY DEF NoticeSound
<1>l. "on" \in CN!Told /\ "off" \in CN!Told /\ "untold" \in CN!Lapses /\ ~Misleads({})
  BY DEF CN!Told, CN!Lapses, Misleads
<1>1. ASSUME CN!AssignTell(w) \/ CN!ReplaceTellNew(w)
      PROVE  CN!TypeOK' /\ NoticeSound(caller[w], on, shown, told, lapse)'
  <2> DEFINE C == CN!Newcomers(w)
  <2>1. /\ caller[w].pc \in {"assignTell", "replaceTellNew"} /\ UNCHANGED <<on, shown>>
        /\ CN!Finish(w) /\ CN!Try(C, "on")
    BY <1>1 DEF CN!AssignTell, CN!ReplaceTellNew, CN!At
  <2>2. caller'[w].pc = "idle" /\ caller' \in [NoticeWorkers -> CN!LocalState]
    BY <2>1, CallerFinishes
  <2>3. caller[w].live = shown /\ caller[w].new \subseteq on
    BY <1>s, <2>1 DEF CallerSound
  <2>4. C = IF shown THEN caller[w].new ELSE {}
    BY <2>3 DEF CN!Newcomers
  <2> HIDE DEF C
  <2>5. /\ \A c \in Crew :
             IF c \in C THEN \/ told'[c] = "on" /\ lapse'[c] = {}
                             \/ told'[c] = told[c] /\ Forgets(lapse'[c]) /\ Misleads(lapse'[c])
             ELSE told'[c] = told[c] /\ lapse'[c] = lapse[c]
        /\ told' \in [Crew -> CN!Told] /\ lapse' \in [Crew -> SUBSET CN!Lapses]
    BY <1>l, <2>1, TryIs
  <2>6. CN!TypeOK'
    BY <2>1, <2>2, <2>5 DEF CN!TypeOK
  <2>7. NoneForgotten(caller[w], on, shown, told, lapse)'
    BY <1>t, <1>s, <2>1, <2>2, <2>4, <2>5 DEF NoneForgotten, Joining
  <2>8. NoneMisled(caller[w], on, shown, told, lapse)'
    BY <1>t, <1>s, <2>1, <2>2, <2>3, <2>4, <2>5 DEF NoneMisled, Standing, Leaving
  <2>9. QED
    BY <2>2, <2>6, <2>7, <2>8 DEF NoticeSound, CallerSound
<1>2. ASSUME CN!RemoveTell(w) \/ CN!UnpublishTell(w)
      PROVE  CN!TypeOK' /\ NoticeSound(caller[w], on, shown, told, lapse)'
  <2> DEFINE C == IF caller[w].pc = "removeTell" THEN caller[w].old ELSE caller[w].new
  <2>1. /\ caller[w].pc \in {"removeTell", "unpublishTell"} /\ UNCHANGED <<on, shown>>
        /\ CN!Finish(w) /\ CN!Try(C, "off")
    BY <1>2 DEF CN!RemoveTell, CN!UnpublishTell, CN!At
  <2>2. caller'[w].pc = "idle" /\ caller' \in [NoticeWorkers -> CN!LocalState]
    BY <2>1, CallerFinishes
  <2>3. Leaving(caller[w], on) = C /\ Joining(caller[w], on) = {} /\ (shown => C \cap on = {})
    BY <1>s, <2>1 DEF CallerSound, Leaving, Joining
  <2> HIDE DEF C
  <2>4. /\ \A c \in Crew :
             IF c \in C THEN \/ told'[c] = "off" /\ lapse'[c] = {}
                             \/ told'[c] = told[c] /\ Forgets(lapse'[c]) /\ Misleads(lapse'[c])
             ELSE told'[c] = told[c] /\ lapse'[c] = lapse[c]
        /\ told' \in [Crew -> CN!Told] /\ lapse' \in [Crew -> SUBSET CN!Lapses]
    BY <1>l, <2>1, TryIs
  <2>5. CN!TypeOK'
    BY <2>1, <2>2, <2>4 DEF CN!TypeOK
  <2>6. NoneForgotten(caller[w], on, shown, told, lapse)'
    BY <1>t, <1>s, <2>1, <2>3, <2>4 DEF NoneForgotten
  <2>7. NoneMisled(caller[w], on, shown, told, lapse)'
    BY <1>s, <2>1, <2>2, <2>3, <2>4 DEF NoneMisled, Standing
  <2>8. QED
    BY <2>2, <2>5, <2>6, <2>7 DEF NoticeSound, CallerSound
<1>3. ASSUME CN!ReplaceDelete(w)
      PROVE  CN!TypeOK' /\ NoticeSound(caller[w], on, shown, told, lapse)'
  <2>1. /\ caller[w].pc = "replaceDelete" /\ UNCHANGED <<shown, told, lapse>>
        /\ on' = on \ caller[w].old /\ CN!Goto(w, "replaceTellOld")
    BY <1>3 DEF CN!ReplaceDelete, CN!At
  <2>2. \E s \in CN!LocalState : s.pc = "replaceTellOld"
    <3>1. [CN!Idle EXCEPT !.pc = "replaceTellOld"] \in CN!LocalState
          /\ [CN!Idle EXCEPT !.pc = "replaceTellOld"].pc = "replaceTellOld"
      BY DEF CN!Idle, CN!LocalState
    <3>2. QED BY <3>1
  <2>3. /\ caller'[w].pc = "replaceTellOld" /\ caller'[w].live = caller[w].live
        /\ caller'[w].old = caller[w].old /\ caller'[w].new = caller[w].new
        /\ caller' \in [NoticeWorkers -> CN!LocalState]
    BY <2>1, <2>2, CallerGoes
  <2>4. CN!TypeOK'
    BY <2>1, <2>3 DEF CN!TypeOK
  <2>5. /\ caller[w].live = shown /\ caller[w].new \subseteq on
        /\ caller[w].old \cap caller[w].new = {}
    BY <1>s, <2>1 DEF CallerSound
  <2>6. CallerSound(caller[w], on, shown)'
    BY <2>1, <2>3, <2>5 DEF CallerSound
  <2>7. NoneForgotten(caller[w], on, shown, told, lapse)'
    BY <1>s, <2>1, <2>3 DEF NoneForgotten, Joining
  <2>8. NoneMisled(caller[w], on, shown, told, lapse)'
    BY <1>s, <2>1, <2>3 DEF NoneMisled, Standing, Leaving
  <2>9. QED
    BY <2>4, <2>6, <2>7, <2>8 DEF NoticeSound
<1>4. ASSUME CN!ReplaceTellOld(w)
      PROVE  CN!TypeOK' /\ NoticeSound(caller[w], on, shown, told, lapse)'
  <2>1. /\ caller[w].pc = "replaceTellOld" /\ UNCHANGED <<on, shown>>
        /\ CN!Try(caller[w].old, "off") /\ CN!Goto(w, "replaceTellNew")
    BY <1>4 DEF CN!ReplaceTellOld, CN!At
  <2>2. \E s \in CN!LocalState : s.pc = "replaceTellNew"
    <3>1. [CN!Idle EXCEPT !.pc = "replaceTellNew"] \in CN!LocalState
          /\ [CN!Idle EXCEPT !.pc = "replaceTellNew"].pc = "replaceTellNew"
      BY DEF CN!Idle, CN!LocalState
    <3>2. QED BY <3>1
  <2>3. /\ caller'[w].pc = "replaceTellNew" /\ caller'[w].live = caller[w].live
        /\ caller'[w].old = caller[w].old /\ caller'[w].new = caller[w].new
        /\ caller' \in [NoticeWorkers -> CN!LocalState]
    BY <2>1, <2>2, CallerGoes
  <2>4. /\ \A c \in Crew :
             IF c \in caller[w].old
             THEN \/ told'[c] = "off" /\ lapse'[c] = {}
                  \/ told'[c] = told[c] /\ Forgets(lapse'[c]) /\ Misleads(lapse'[c])
             ELSE told'[c] = told[c] /\ lapse'[c] = lapse[c]
        /\ told' \in [Crew -> CN!Told] /\ lapse' \in [Crew -> SUBSET CN!Lapses]
    BY <1>l, <2>1, TryIs
  <2>5. CN!TypeOK'
    BY <2>1, <2>3, <2>4 DEF CN!TypeOK
  <2>6. /\ caller[w].live = shown /\ caller[w].new \subseteq on
        /\ caller[w].old \cap on = {}
    BY <1>s, <2>1 DEF CallerSound
  <2>7. CallerSound(caller[w], on, shown)'
    BY <2>1, <2>3, <2>6 DEF CallerSound
  <2>8. NoneForgotten(caller[w], on, shown, told, lapse)'
    BY <1>t, <1>s, <2>1, <2>3, <2>4, <2>6 DEF NoneForgotten, Joining
  <2>9. NoneMisled(caller[w], on, shown, told, lapse)'
    BY <1>s, <2>1, <2>3, <2>4 DEF NoneMisled, Standing, Leaving
  <2>10. QED
    BY <2>5, <2>7, <2>8, <2>9 DEF NoticeSound
<1>5. ASSUME CN!ReplaceSilently(w)
      PROVE  CN!TypeOK' /\ NoticeSound(caller[w], on, shown, told, lapse)'
  <2> DEFINE C == caller[w].old \cup CN!Newcomers(w)
  <2>1. /\ caller[w].pc = "replaceDelete" /\ UNCHANGED shown /\ on' = on \ caller[w].old
        /\ CN!Finish(w) /\ CN!Lose(C, "untold")
    BY <1>5 DEF CN!ReplaceSilently, CN!At
  <2>2. caller'[w].pc = "idle" /\ caller' \in [NoticeWorkers -> CN!LocalState]
    BY <2>1, CallerFinishes
  <2>3. caller[w].old \subseteq C /\ (shown => caller[w].new \subseteq C)
    BY <1>s, <2>1 DEF CN!Newcomers, CallerSound
  <2> HIDE DEF C
  <2>4. /\ \A c \in Crew : lapse'[c] = IF c \in C THEN lapse[c] \cup {"untold"} ELSE lapse[c]
        /\ told' = told /\ lapse' \in [Crew -> SUBSET CN!Lapses]
    BY <1>l, <2>1, LoseIs
  <2>5. CN!TypeOK'
    BY <2>1, <2>2, <2>4 DEF CN!TypeOK
  <2>l. ASSUME NEW c \in Crew
        PROVE  /\ c \in C \/ Forgets(lapse[c]) => Forgets(lapse'[c])
               /\ c \in C \/ Misleads(lapse[c]) => Misleads(lapse'[c])
    <3>1. lapse'[c] = IF c \in C THEN lapse[c] \cup {"untold"} ELSE lapse[c]
      BY <2>4
    <3>2. QED
      BY <3>1, UntoldExcuses
  <2>6. NoneForgotten(caller[w], on, shown, told, lapse)'
    BY <1>t, <1>s, <2>1, <2>3, <2>4, <2>l DEF NoneForgotten, Joining
  <2>7. NoneMisled(caller[w], on, shown, told, lapse)'
    BY <1>s, <2>1, <2>2, <2>3, <2>4, <2>l DEF NoneMisled, Leaving, Standing
  <2>8. QED
    BY <2>2, <2>5, <2>6, <2>7 DEF NoticeSound, CallerSound
<1>6. ASSUME CN!ReplaceRollback(w)
      PROVE  CN!TypeOK' /\ NoticeSound(caller[w], on, shown, told, lapse)'
  <2>1. caller[w].pc = "replaceDelete" /\ UNCHANGED shown /\ CN!Finish(w)
    BY <1>6 DEF CN!ReplaceRollback, CN!At
  <2>2. caller'[w].pc = "idle" /\ caller' \in [NoticeWorkers -> CN!LocalState]
    BY <2>1, CallerFinishes
  <2>3. CASE on' = on \ caller[w].new /\ UNCHANGED <<told, lapse>>
    <3>1. CN!TypeOK'
      BY <2>1, <2>2, <2>3 DEF CN!TypeOK
    <3>2. \A c \in Crew : told[c] = "on" => (c \in on' /\ shown) \/ Misleads(lapse[c])
      <4>1. Leaving(caller[w], on) = {} /\ Standing(caller[w], on) = on'
        BY <2>1, <2>3 DEF Leaving, Standing
      <4>2. QED
        BY <1>s, <4>1 DEF NoneMisled
    <3>3. QED
      BY <1>s, <2>1, <2>2, <2>3, <3>1, <3>2
         DEF NoticeSound, CallerSound, NoneForgotten, NoneMisled, Standing, Joining
  <2>4. CASE on' = on /\ CN!Lose(CN!Newcomers(w), "untold")
    <3>1. /\ shown => Joining(caller[w], on) \subseteq CN!Newcomers(w)
          /\ Leaving(caller[w], on) = {}
      BY <1>s, <2>1 DEF Joining, Leaving, CN!Newcomers, CallerSound
    <3>2. QED
      BY <2>1, <2>4, <3>1, HandlerLoses
  <2>5. QED
    BY <1>6, <2>3, <2>4 DEF CN!ReplaceRollback
<1>7. ASSUME CN!FinalizeTell(w)
      PROVE  CN!TypeOK' /\ NoticeSound(caller[w], on, shown, told, lapse)'
  <2> DEFINE why == IF caller[w].live THEN {} ELSE {"draft"}
  <2>1. /\ caller[w].pc = "finalizeTell" /\ UNCHANGED <<on, shown>> /\ CN!Finish(w)
        /\ CN!Tell(caller[w].new, "on", why) \/ UNCHANGED <<told, lapse>>
    BY <1>7 DEF CN!FinalizeTell, CN!At
  <2>2. caller'[w].pc = "idle" /\ caller' \in [NoticeWorkers -> CN!LocalState]
    BY <2>1, CallerFinishes
  <2>3. caller[w].live = shown /\ caller[w].new \subseteq on
    BY <1>s, <2>1 DEF CallerSound
  <2>4. why \in SUBSET CN!Lapses /\ (~shown => Misleads(why))
    BY <2>3, UntoldExcuses DEF CN!Lapses
  <2> HIDE DEF why
  <2>5. /\ \A c \in Crew : \/ c \in caller[w].new /\ told'[c] = "on" /\ lapse'[c] = why
                           \/ told'[c] = told[c] /\ lapse'[c] = lapse[c]
        /\ told' \in [Crew -> CN!Told] /\ lapse' \in [Crew -> SUBSET CN!Lapses]
    <3>1. CASE CN!Tell(caller[w].new, "on", why)
      <4>1. /\ \A c \in Crew : IF c \in caller[w].new THEN told'[c] = "on" /\ lapse'[c] = why
                                ELSE told'[c] = told[c] /\ lapse'[c] = lapse[c]
            /\ told' \in [Crew -> CN!Told] /\ lapse' \in [Crew -> SUBSET CN!Lapses]
        BY <1>t, <1>l, <2>4, <3>1, TellIs
      <4>2. QED BY <4>1
    <3>2. CASE UNCHANGED <<told, lapse>>
      BY <1>t, <3>2 DEF CN!TypeOK
    <3>3. QED BY <2>1, <3>1, <3>2
  <2>6. CN!TypeOK'
    BY <2>1, <2>2, <2>5 DEF CN!TypeOK
  <2>7. NoneForgotten(caller[w], on, shown, told, lapse)'
    BY <1>t, <1>s, <2>1, <2>2, <2>5 DEF NoneForgotten, Joining
  <2>8. NoneMisled(caller[w], on, shown, told, lapse)'
    BY <1>s, <2>1, <2>2, <2>3, <2>4, <2>5 DEF NoneMisled, Standing, Leaving
  <2>9. QED
    BY <2>2, <2>6, <2>7, <2>8 DEF NoticeSound, CallerSound
<1> QED BY <1>1, <1>2, <1>3, <1>4, <1>5, <1>6, <1>7

\* The handlers of publication go on, and any handler is killed.
LEMMA PublicationContinues ==
  ASSUME NoticeInv, NEW w \in NoticeWorkers,
         \/ CN!PublishAudit(w) \/ CN!PublishAllocators(w) \/ CN!PublishCrew(w)
         \/ CN!PublishTell(w) \/ CN!UnpublishAudit(w) \/ CN!Killed(w)
  PROVE  CN!TypeOK' /\ NoticeSound(caller[w], on, shown, told, lapse)'
<1> USE DEF NoticeInv
<1>t. CN!TypeOK /\ caller[w] \in CN!LocalState /\ on \subseteq Crew
  BY DEF CN!TypeOK
<1>s. /\ CallerSound(caller[w], on, shown)
      /\ NoneForgotten(caller[w], on, shown, told, lapse)
      /\ NoneMisled(caller[w], on, shown, told, lapse)
  BY DEF NoticeSound
<1>1. ASSUME NEW pc \in {"publishAllocators", "publishCrew"}, CN!Goto(w, pc),
             caller[w].pc \in {"publishAudit", "publishAllocators"},
             UNCHANGED <<on, shown, told, lapse>>
      PROVE  CN!TypeOK' /\ NoticeSound(caller[w], on, shown, told, lapse)'
  <2>1. \E s \in CN!LocalState : s.pc = pc
    <3>1. /\ [CN!Idle EXCEPT !.pc = pc] \in CN!LocalState
          /\ [CN!Idle EXCEPT !.pc = pc].pc = pc
      BY DEF CN!Idle, CN!LocalState
    <3>2. QED BY <3>1
  <2>2. caller'[w].pc = pc /\ caller' \in [NoticeWorkers -> CN!LocalState]
    BY <1>1, <2>1, CallerGoes
  <2>3. QED
    BY <1>1, <1>s, <2>2
       DEF NoticeSound, CallerSound, NoneForgotten, NoneMisled, Standing, Joining, Leaving, CN!TypeOK
<1>2. ASSUME NEW why \in {"audit", "allocators", "untold"}, CN!Raise(w, why),
             \/ caller[w].pc \in {"publishAllocators", "publishCrew"}
             \/ caller[w].pc \in {"publishAudit", "unpublishAudit"} /\ why = "audit",
             UNCHANGED <<on, shown>>
      PROVE  CN!TypeOK' /\ NoticeSound(caller[w], on, shown, told, lapse)'
  <2>1. CN!Finish(w) /\ CN!Lose(on, why)
    BY <1>2 DEF CN!Raise
  <2>2. /\ Joining(caller[w], on) \subseteq on
        /\ Leaving(caller[w], on) \subseteq IF why = "allocators" THEN {} ELSE on
    BY <1>2 DEF Joining, Leaving
  <2>3. QED
    BY <1>2, <2>1, <2>2, HandlerLoses
<1>3. ASSUME NEW pc \in {"publishTell", "unpublishTell"},
             CN!Become(w, [caller[w] EXCEPT !.pc = pc, !.new = on]),
             \/ caller[w].pc = "publishCrew" /\ pc = "publishTell"
             \/ caller[w].pc = "unpublishAudit" /\ pc = "unpublishTell",
             UNCHANGED <<on, shown, told, lapse>>
      PROVE  CN!TypeOK' /\ NoticeSound(caller[w], on, shown, told, lapse)'
  <2> DEFINE s == [caller[w] EXCEPT !.pc = pc, !.new = on]
  <2>1. s.pc = pc /\ s.new = on
    BY <1>t DEF CN!LocalState
  <2>2. s \in CN!LocalState
    BY <1>t DEF CN!LocalState, CN!TypeOK
  <2>3. caller'[w] = s /\ caller' \in [NoticeWorkers -> CN!LocalState]
    BY <1>3, <2>2, CallerBecomes
  <2> HIDE DEF s
  <2>4. QED
    BY <1>3, <1>s, <2>1, <2>3
       DEF NoticeSound, CallerSound, NoneForgotten, NoneMisled, Standing, Joining, Leaving, CN!TypeOK
<1>4. ASSUME CN!PublishTell(w)
      PROVE  CN!TypeOK' /\ NoticeSound(caller[w], on, shown, told, lapse)'
  <2>1. caller[w].pc = "publishTell" /\ UNCHANGED <<on, shown>>
    BY <1>4 DEF CN!PublishTell, CN!At
  <2>2. shown /\ caller[w].new \subseteq on
    BY <1>s, <2>1 DEF CallerSound
  <2>3. CASE caller[w].new = {}
    <3>1. CN!Finish(w) /\ UNCHANGED <<told, lapse>>
      BY <1>4, <2>3 DEF CN!PublishTell
    <3>2. caller'[w].pc = "idle" /\ caller' \in [NoticeWorkers -> CN!LocalState]
      BY <3>1, CallerFinishes
    <3>3. QED
      BY <1>s, <2>1, <2>2, <2>3, <3>1, <3>2
         DEF NoticeSound, CallerSound, NoneForgotten, NoneMisled, Standing, Joining, Leaving, CN!TypeOK
  <2>4. CASE caller[w].new # {}
    <3>1. PICK c \in caller[w].new : CN!Try({c}, "on")
                 /\ CN!Become(w, [caller[w] EXCEPT !.new = @ \ {c}])
      BY <1>4, <2>4 DEF CN!PublishTell
    <3> DEFINE s == [caller[w] EXCEPT !.new = @ \ {c}]
    <3>2. s.pc = "publishTell" /\ s.new = caller[w].new \ {c} /\ s \in CN!LocalState
      BY <1>t, <2>1 DEF CN!LocalState
    <3>3. caller'[w] = s /\ caller' \in [NoticeWorkers -> CN!LocalState]
      BY <3>1, <3>2, CallerBecomes
    <3> HIDE DEF s
    <3>4. "on" \in CN!Told
      BY DEF CN!Told
    <3>5. /\ \A d \in Crew :
               IF d = c THEN \/ told'[d] = "on" /\ lapse'[d] = {}
                             \/ told'[d] = told[d] /\ Forgets(lapse'[d]) /\ Misleads(lapse'[d])
               ELSE told'[d] = told[d] /\ lapse'[d] = lapse[d]
          /\ told' \in [Crew -> CN!Told] /\ lapse' \in [Crew -> SUBSET CN!Lapses]
      BY <3>1, <3>4, TryIs
    <3>6. CN!TypeOK'
      BY <2>1, <3>3, <3>5 DEF CN!TypeOK
    <3>7. CallerSound(caller[w], on, shown)'
      BY <2>1, <2>2, <3>2, <3>3 DEF CallerSound
    <3>8. NoneForgotten(caller[w], on, shown, told, lapse)'
      BY <1>t, <1>s, <2>1, <3>2, <3>3, <3>5 DEF NoneForgotten, Joining
    <3>9. NoneMisled(caller[w], on, shown, told, lapse)'
      BY <1>s, <2>1, <2>2, <3>1, <3>2, <3>3, <3>5 DEF NoneMisled, Standing, Leaving
    <3>10. QED
      BY <3>6, <3>7, <3>8, <3>9 DEF NoticeSound
  <2>5. QED BY <2>3, <2>4
<1>5. ASSUME CN!Killed(w)
      PROVE  CN!TypeOK' /\ NoticeSound(caller[w], on, shown, told, lapse)'
  <2>1. CN!Finish(w) /\ CN!Lose(CN!Waiting(w), "untold") /\ UNCHANGED <<on, shown>>
    BY <1>5 DEF CN!Killed
  <2>2. /\ shown => Joining(caller[w], on) \subseteq CN!Waiting(w)
        /\ Leaving(caller[w], on) \subseteq CN!Waiting(w)
    <3>1. CASE caller[w].pc \in {"publishAudit", "publishAllocators", "publishCrew",
                                 "unpublishAudit"}
      BY <3>1 DEF Joining, Leaving, CN!Waiting, CN!At
    <3>2. CASE caller[w].pc \in {"assignTell", "replaceDelete", "replaceTellNew"}
      BY <1>s, <3>2 DEF Joining, Leaving, CN!Waiting, CN!At, CN!Newcomers, CallerSound
    <3>3. CASE caller[w].pc = "replaceTellOld"
      BY <1>s, <3>3 DEF Joining, Leaving, CN!Waiting, CN!At, CN!Newcomers, CallerSound
    <3>4. CASE caller[w].pc \in {"removeTell", "publishTell", "unpublishTell"}
      BY <3>4 DEF Joining, Leaving, CN!Waiting, CN!At
    <3>5. CASE caller[w].pc \in {"idle", "finalizeTell"}
      BY <3>5 DEF Joining, Leaving
    <3>6. QED
      BY <1>t, <3>1, <3>2, <3>3, <3>4, <3>5 DEF CN!LocalState
  <2>3. QED
    BY <2>1, <2>2, HandlerLoses
<1>6. CASE CN!PublishAudit(w) \/ CN!PublishAllocators(w)
  BY <1>6, <1>1, <1>2 DEF CN!PublishAudit, CN!PublishAllocators, CN!At
<1>7. CASE CN!UnpublishAudit(w) \/ CN!PublishCrew(w)
  BY <1>7, <1>2, <1>3 DEF CN!UnpublishAudit, CN!PublishCrew, CN!At
<1> QED BY <1>4, <1>5, <1>6, <1>7

LEMMA NoticeInvariant == ASSUME OneCaller PROVE CN!Spec => []NoticeInv
<1>1. CN!Init => NoticeInv
  <2> SUFFICES ASSUME CN!Init PROVE NoticeInv
    OBVIOUS
  <2>1. CN!Idle \in CN!LocalState /\ CN!Idle.pc = "idle"
    BY DEF CN!Idle, CN!LocalState
  <2>2. CN!TypeOK
    BY <2>1 DEF CN!Init, CN!TypeOK, CN!Told
  <2>3. \A w \in NoticeWorkers : caller[w].pc = "idle" /\ ~shown
    BY <2>1 DEF CN!Init
  <2>4. \A c \in Crew : told[c] # "on"
    BY DEF CN!Init
  <2>5. QED
    BY <2>2, <2>3, <2>4 DEF NoticeInv, NoticeSound, CallerSound, NoneForgotten, NoneMisled, Standing
<1>2. NoticeInv /\ [CN!Next]_CN!vars => NoticeInv'
  <2> SUFFICES ASSUME NoticeInv, [CN!Next]_CN!vars PROVE NoticeInv'
    OBVIOUS
  <2>1. CASE UNCHANGED CN!vars
    BY <2>1 DEF CN!vars, NoticeInv, NoticeSound, CallerSound, NoneForgotten, NoneMisled, Standing,
                Joining, Leaving, CN!TypeOK
  <2>2. CASE CN!Next
    <3>1. PICK w \in NoticeWorkers : CN!Handler(w)
      BY <2>2 DEF CN!Next
    <3>2. CN!TypeOK' /\ NoticeSound(caller[w], on, shown, told, lapse)'
      BY <3>1, NoticeStarts, RosterContinues, PublicationContinues DEF CN!Handler
    <3>3. QED
      BY <3>2 DEF NoticeInv, OneCaller
  <2>3. QED BY <2>1, <2>2
<1> QED BY <1>1, <1>2, PTL DEF CN!Spec

\* While one process serves the portal, no interleaving of roster changes,
\* publications and withdrawals, whatever of them fails or is killed, leaves a member
\* who sees the flight untold, or one who was told of it without it, once no handler
\* is under way, but for a lapse of his own (CrewNotices).
THEOREM CrewIsToldOfTheirDuty == ASSUME OneCaller PROVE DeskSpec => []NoticesMatchPortal
<1>1. NoticeInv => NoticesMatchPortal
  <2> SUFFICES ASSUME NoticeInv, CN!AllIdle, NEW c \in Crew
               PROVE  /\ CN!Knows(c, {"draft"})
                      /\ told[c] = "on" /\ lapse[c] \subseteq {"duty", "allocators"} => CN!Visible(c)
    BY DEF NoticesMatchPortal, CN!VisibleIsAnnounced, CN!WithdrawnIsAnnounced
  <2>1. PICK w \in NoticeWorkers : TRUE
    BY DEF OneCaller
  <2>2. /\ NoneForgotten(caller[w], on, shown, told, lapse)
        /\ NoneMisled(caller[w], on, shown, told, lapse)
        /\ caller[w].pc = "idle"
    BY DEF NoticeInv, NoticeSound, CN!AllIdle, CN!At
  <2>3. c \notin Joining(caller[w], on) /\ c \notin Leaving(caller[w], on)
    BY <2>2 DEF Joining, Leaving
  <2>4. /\ lapse[c] \subseteq {"draft"} => ~Forgets(lapse[c])
        /\ lapse[c] \subseteq {"duty", "allocators"} => ~Misleads(lapse[c])
    BY DEF Forgets, Misleads
  <2>5. QED
    BY <2>2, <2>3, <2>4 DEF NoneForgotten, NoneMisled, Standing, CN!Knows, CN!Visible
<1> QED BY <1>1, NoticeInvariant, NoticesRun, PTL

\* And nobody is told of a duty that he cannot see, at whatever call a handler is,
\* but by the approval of a draft (CrewNotices).
THEOREM DraftsStaySilent == ASSUME OneCaller PROVE DeskSpec => DraftStaysSilent
<1>1. NoticeInv /\ [CN!Next]_CN!vars =>
        [\A c \in Crew : told[c] # "on" /\ told'[c] = "on" /\ "draft" \notin lapse'[c]
                         => CN!Visible(c)]_CN!vars
  <2> SUFFICES ASSUME NoticeInv, CN!Next, NEW c \in Crew,
                      told[c] # "on", told'[c] = "on", "draft" \notin lapse'[c]
               PROVE  CN!Visible(c)
    BY DEF CN!vars
  <2>1. PICK w \in NoticeWorkers : CN!Handler(w)
    BY DEF CN!Next
  <2>2. CN!TypeOK /\ CallerSound(caller[w], on, shown)
    BY DEF NoticeInv, NoticeSound
  <2>3. \/ CN!AssignTell(w) \/ CN!RemoveTell(w) \/ CN!ReplaceTellOld(w) \/ CN!ReplaceTellNew(w)
        \/ CN!PublishTell(w) \/ CN!UnpublishTell(w) \/ CN!FinalizeTell(w)
    <3>0. told' # told
      OBVIOUS
    <3>1. ASSUME NEW d, CN!Assign(w, d) \/ CN!Remove(w, d)
          PROVE  FALSE
      <4>1. CASE CN!Assign(w, d) BY <3>0, <4>1 DEF CN!Assign
      <4>2. CASE CN!Remove(w, d) BY <3>0, <4>2 DEF CN!Remove
      <4>3. QED BY <3>1, <4>1, <4>2
    <3>2. ASSUME NEW D, CN!AssignDuty(w, D) \/ CN!Finalize(w, D)
          PROVE  FALSE
      <4>1. CASE CN!AssignDuty(w, D) BY <3>0, <4>1 DEF CN!AssignDuty, CN!Lose
      <4>2. CASE CN!Finalize(w, D) BY <3>0, <4>2 DEF CN!Finalize
      <4>3. QED BY <3>2, <4>1, <4>2
    <3>3. ASSUME NEW old, NEW new, CN!Replace(w, old, new)
          PROVE  FALSE
      BY <3>0, <3>3 DEF CN!Replace
    <3>4. ASSUME CN!Publish(w) \/ CN!Unpublish(w) \/ CN!ReplaceDelete(w)
          PROVE  FALSE
      BY <3>0, <3>4 DEF CN!Publish, CN!Unpublish, CN!ReplaceDelete
    <3>5. ASSUME \/ CN!ReplaceSilently(w) \/ CN!ReplaceRollback(w) \/ CN!Killed(w)
                 \/ CN!PublishAudit(w) \/ CN!PublishAllocators(w)
                 \/ CN!PublishCrew(w) \/ CN!UnpublishAudit(w)
          PROVE  FALSE
      BY <3>0, <3>5 DEF CN!ReplaceSilently, CN!ReplaceRollback, CN!Killed, CN!PublishAudit,
         CN!PublishAllocators, CN!PublishCrew, CN!UnpublishAudit, CN!Raise, CN!Lose
    <3>6. QED BY <2>1, <3>1, <3>2, <3>3, <3>4, <3>5 DEF CN!Handler
  <2>4. PICK C, what, why :
          /\ what \in CN!Told /\ why \in SUBSET CN!Lapses /\ CN!Tell(C, what, why)
          /\ what = "on" => \/ caller[w].pc \in {"assignTell", "replaceTellNew"}
                               /\ C = CN!Newcomers(w)
                            \/ caller[w].pc = "publishTell" /\ C \subseteq caller[w].new
                            \/ /\ caller[w].pc = "finalizeTell" /\ C = caller[w].new
                               /\ caller[w].live \/ "draft" \in why
    <3> DEFINE P(C, what, why) ==
          /\ CN!Tell(C, what, why)
          /\ what = "on" => \/ caller[w].pc \in {"assignTell", "replaceTellNew"}
                               /\ C = CN!Newcomers(w)
                            \/ caller[w].pc = "publishTell" /\ C \subseteq caller[w].new
                            \/ /\ caller[w].pc = "finalizeTell" /\ C = caller[w].new
                               /\ caller[w].live \/ "draft" \in why
    <3>0. \A C, why : ~CN!Lose(C, why)
      BY DEF CN!Lose
    <3>1. CN!AssignTell(w) \/ CN!ReplaceTellNew(w) => P(CN!Newcomers(w), "on", {})
      BY <3>0 DEF CN!AssignTell, CN!ReplaceTellNew, CN!At, CN!Try
    <3>2. CN!RemoveTell(w) \/ CN!ReplaceTellOld(w) => P(caller[w].old, "off", {})
      BY <3>0 DEF CN!RemoveTell, CN!ReplaceTellOld, CN!Try
    <3>3. CN!UnpublishTell(w) => P(caller[w].new, "off", {})
      BY <3>0 DEF CN!UnpublishTell, CN!Try
    <3>4. CN!PublishTell(w) => \E d : P({d}, "on", {})
      BY <3>0 DEF CN!PublishTell, CN!At, CN!Try
    <3>5. CN!FinalizeTell(w) =>
            P(caller[w].new, "on", IF caller[w].live THEN {} ELSE {"draft"})
      BY DEF CN!FinalizeTell, CN!At
    <3> HIDE DEF P
    <3>6. /\ "on" \in CN!Told /\ "off" \in CN!Told /\ {} \in SUBSET CN!Lapses
          /\ {"draft"} \in SUBSET CN!Lapses
      BY DEF CN!Told, CN!Lapses
    <3>7. \E C, what, why : what \in CN!Told /\ why \in SUBSET CN!Lapses /\ P(C, what, why)
      <4>1. CASE CN!AssignTell(w) \/ CN!ReplaceTellNew(w)
        BY <3>1, <3>6, <4>1
      <4>2. CASE CN!RemoveTell(w) \/ CN!ReplaceTellOld(w)
        BY <3>2, <3>6, <4>2
      <4>3. CASE CN!UnpublishTell(w)
        BY <3>3, <3>6, <4>3
      <4>4. CASE CN!PublishTell(w)
        BY <3>4, <3>6, <4>4
      <4>5. CASE CN!FinalizeTell(w)
        <5>1. (IF caller[w].live THEN {} ELSE {"draft"}) \in SUBSET CN!Lapses
          BY <3>6
        <5>2. QED
          BY <3>5, <3>6, <4>5, <5>1
      <4>6. QED BY <2>3, <4>1, <4>2, <4>3, <4>4, <4>5
    <3>8. QED
      BY <3>7 DEF P
  <2>5. c \in C /\ what = "on" /\ lapse'[c] = why
    BY <2>2, <2>4, TellIs
  <2>6. QED
    BY <2>2, <2>4, <2>5 DEF CallerSound, CN!Visible, CN!Newcomers
<1> QED BY <1>1, NoticeInvariant, NoticesRun, PTL DEF DraftStaysSilent, CN!DraftStaysSilent, CN!Spec

----------------------------------------------------------------------------
(* The record of one notice.                                               *)

Stages == {"none", "sent", "failed", "delivered", "delivery_not_confirmed",
           "read", "unread_after_deadline"}

\* The status of a row against its stamps.
RowTold(r) ==
  /\ r.read = (r.status = "read")
  /\ r.status \in {"delivered", "unread_after_deadline"} => r.delivered
  /\ r.status \in {"none", "sent", "failed", "delivery_not_confirmed"} => ~r.delivered

\* A deadline that a dashboard is about to write is the one that is due.
SweepTold(task, r) ==
  task.pc = "sweep" =>
    \/ task.status = "delivery_not_confirmed" /\ r.status = "sent"
    \/ task.status = "unread_after_deadline" /\ r.status = "delivered"

DeliveryInv ==
  /\ record \in [status : Stages, delivered : BOOLEAN, read : BOOLEAN]
  /\ board = [w \in DOMAIN board |-> board[w]]
  /\ \A w \in DOMAIN board : board[w].pc = "sweep" => board[w].status \in Stages
  /\ DL!OneDashboard => /\ RowTold(record)
                        /\ \A w \in DOMAIN board : SweepTold(board[w], record)

LEMMA BoardGoes ==
  ASSUME board = [w \in DOMAIN board |-> board[w]], NEW w \in DOMAIN board, NEW task,
         DL!Go(w, task)
  PROVE  /\ board' = [v \in DOMAIN board' |-> board'[v]]
         /\ DOMAIN board' = DOMAIN board
         /\ board'[w] = task
  BY DEF DL!Go

\* Under one dashboard a step need only be right about the process that takes it.
LEMMA DeliveryStep ==
  ASSUME DeliveryInv, NEW w \in DOMAIN board, DL!Handler(w)
  PROVE  DeliveryInv'
<1> USE DEF DeliveryInv
<1>r. DL!Resting.pc = "idle"
  BY DEF DL!Resting
<1>i. DL!NoRecord \in [status : Stages, delivered : BOOLEAN, read : BOOLEAN]
      /\ DL!NoRecord.status = "none" /\ ~DL!NoRecord.delivered /\ ~DL!NoRecord.read
  BY DEF DL!NoRecord, Stages
\* The board after the step, and what is left to show of the row.
<1>g. ASSUME NEW task, DL!Go(w, task) \/ (UNCHANGED board /\ task = board[w]),
             task.pc = "sweep" => task.status \in Stages,
             record' \in [status : Stages, delivered : BOOLEAN, read : BOOLEAN],
             RowTold(record) /\ SweepTold(board[w], record)
               => RowTold(record') /\ SweepTold(task, record')
      PROVE  DeliveryInv'
  <2>1. /\ board' = [v \in DOMAIN board' |-> board'[v]]
        /\ DOMAIN board' = DOMAIN board /\ board'[w] = task
    BY <1>g, BoardGoes
  <2>2. ASSUME DL!OneDashboard'
        PROVE  RowTold(record') /\ \A v \in DOMAIN board' : SweepTold(board'[v], record')
    <3>1. \A v \in DOMAIN board : v = w
      BY <2>1, <2>2 DEF DL!OneDashboard
    <3>2. DL!OneDashboard
      BY <3>1 DEF DL!OneDashboard
    <3>3. RowTold(record') /\ SweepTold(task, record')
      BY <1>g, <3>2
    <3>4. QED BY <2>1, <3>1, <3>3
  <2>3. \A v \in DOMAIN board' : board'[v].pc = "sweep" => board'[v].status \in Stages
    <3>1. \A v \in DOMAIN board : board'[v] = IF v = w THEN task ELSE board[v]
      BY <1>g, <2>1 DEF DL!Go
    <3>2. QED BY <1>g, <2>1, <3>1
  <2>4. QED
    BY <1>g, <2>1, <2>2, <2>3
<1>1. CASE DL!NotifyInsert(w) \/ DL!MarkRead(w)
  <2>1. PICK pc \in {"push", "read"} : DL!Go(w, [pc |-> pc]) /\ UNCHANGED record
    BY <1>1 DEF DL!NotifyInsert, DL!MarkRead
  <2>2. QED
    BY <2>1, <1>g DEF SweepTold
<1>2. CASE DL!NotifyRecord(w)
  <2>1. PICK status_1 \in {"sent", "failed"} : record' = [DL!NoRecord EXCEPT !.status = status_1]
    BY <1>2 DEF DL!NotifyRecord
  <2>2. /\ record' \in [status : Stages, delivered : BOOLEAN, read : BOOLEAN]
        /\ record'.status = status_1 /\ ~record'.delivered /\ ~record'.read
    BY <1>i, <2>1 DEF Stages
  <2>3. DL!Go(w, DL!Resting)
    BY <1>2 DEF DL!NotifyRecord
  <2>4. QED
    BY <1>r, <2>2, <2>3, <1>g DEF RowTold, SweepTold
<1>3. CASE DL!MarkReadRecord(w)
  <2>1. /\ record' = IF record # DL!NoRecord /\ ~record.read
                     THEN [record EXCEPT !.status = "read", !.read = TRUE] ELSE record
        /\ DL!Go(w, DL!Resting)
    BY <1>3 DEF DL!MarkReadRecord
  <2>2. /\ record' \in [status : Stages, delivered : BOOLEAN, read : BOOLEAN]
        /\ \/ record' = record
           \/ record'.status = "read" /\ record'.read
    BY <2>1 DEF Stages
  <2>3. QED
    BY <1>r, <2>1, <2>2, <1>g DEF RowTold, SweepTold
<1>4. CASE DL!AckDelivered(w)
  <2>1. /\ record' = [record EXCEPT !.status = "delivered", !.delivered = TRUE]
        /\ record.status \in {"sent", "failed", "delivery_not_confirmed"}
        /\ board[w] = DL!Resting /\ UNCHANGED board
    BY <1>4 DEF DL!AckDelivered
  <2>2. /\ record' \in [status : Stages, delivered : BOOLEAN, read : BOOLEAN]
        /\ record'.status = "delivered" /\ record'.delivered /\ record'.read = record.read
    BY <2>1 DEF Stages
  <2>3. QED
    BY <1>r, <2>1, <2>2, <1>g DEF RowTold, SweepTold
<1>5. CASE DL!MarkAllRead(w) \/ DL!DeleteNotification(w)
  BY <1>5, <1>g DEF DL!MarkAllRead, DL!DeleteNotification
<1>6. CASE DL!SweepRead(w)
  <2>1. /\ DL!TimedOut(record) # record.status /\ UNCHANGED record
        /\ DL!Go(w, [pc |-> "sweep", status |-> DL!TimedOut(record)])
    BY <1>6 DEF DL!SweepRead
  <2>2. \/ DL!TimedOut(record) = "delivery_not_confirmed" /\ record.status = "sent"
        \/ DL!TimedOut(record) = "unread_after_deadline" /\ record.status = "delivered"
    BY <2>1 DEF DL!TimedOut
  <2>3. DL!TimedOut(record) \in Stages
    BY <2>2 DEF Stages
  <2>4. QED
    BY <2>1, <2>2, <2>3, <1>g DEF SweepTold
<1>7. CASE DL!SweepWrite(w)
  <2>1. /\ board[w].pc = "sweep" /\ DL!Go(w, DL!Resting)
        /\ record' = [record EXCEPT !.status = board[w].status]
    BY <1>7 DEF DL!SweepWrite
  <2>2. /\ record'.status = board[w].status
        /\ record'.delivered = record.delivered /\ record'.read = record.read
    BY <2>1
  <2>3. board[w].status \in Stages
    BY <2>1
  <2>4. record' \in [status : Stages, delivered : BOOLEAN, read : BOOLEAN]
    BY <2>1, <2>3
  <2>5. QED
    BY <1>r, <2>1, <2>2, <2>4, <1>g DEF RowTold, SweepTold
<1>8. CASE DL!Fails(w)
  BY <1>r, <1>8, <1>g DEF DL!Fails, SweepTold
<1> QED
  BY <1>1, <1>2, <1>3, <1>4, <1>5, <1>6, <1>7, <1>8 DEF DL!Handler

LEMMA DeliveryInvariant == DL!Spec => []DeliveryInv
<1>1. DL!Init => DeliveryInv
  <2> SUFFICES ASSUME DL!Init PROVE DeliveryInv
    OBVIOUS
  <2>1. /\ record \in [status : Stages, delivered : BOOLEAN, read : BOOLEAN]
        /\ RowTold(record)
    BY DEF DL!Init, DL!NoRecord, Stages, RowTold
  <2>2. PICK D : board = [w \in D |-> DL!Resting]
    BY DEF DL!Init
  <2>3. QED
    BY <2>1, <2>2 DEF DeliveryInv, SweepTold, DL!Resting
<1>2. DeliveryInv /\ [DL!Next]_DL!vars => DeliveryInv'
  <2> SUFFICES ASSUME DeliveryInv, [DL!Next]_DL!vars PROVE DeliveryInv'
    OBVIOUS
  <2>1. CASE UNCHANGED <<record, board>>
    BY <2>1 DEF DeliveryInv, DL!OneDashboard
  <2>2. CASE \E w \in DOMAIN board : DL!Handler(w)
    BY <2>2, DeliveryStep
  <2>3. QED
    BY <2>1, <2>2 DEF DL!Next, DL!Minute, DL!vars
<1> QED BY <1>1, <1>2, PTL DEF DL!Spec

\* With one process the status the scheduler sees of a notice is the one that its
\* stamps call for, in whatever order answers, deadlines and failures come, and
\* whatever the deadlines are (Delivery).
THEOREM StatusFollowsStamps == DeskSpec => []StatusTellsStamps
<1>1. DeliveryInv => StatusTellsStamps
  BY DEF DeliveryInv, RowTold, StatusTellsStamps, DL!StatusTellsStamps
<1> QED BY <1>1, DeliveryInvariant, DeliveryRuns, PTL

=============================================================================
