---------------------------- MODULE GendecProofs ----------------------------
(***************************************************************************)
(* Proofs about Gendec, for every set of crew and workers.  First the      *)
(* types; then what holds whatever interleaves and fails; then what holds  *)
(* when handlers run one at a time (the single-process deployment).        *)
(***************************************************************************)
EXTENDS Gendec, TLAPS

(* Types.                                                                  *)

LEMMA IdleType == Idle \in LocalState
  BY DEF Idle, LocalState, PCs, Jobs, AllDocs, Contents, Duties

LEMMA RowWrites ==
  ASSUME NEW r \in Row, NEW departed \in BOOLEAN
  PROVE  /\ RespondAccepted(r, departed) \in Row
         /\ RespondDeclined(r) \in Row
         /\ Acknowledge(r) \in Row
         /\ LegacyDecline(r) \in Row
         /\ AdminConfirm(r) \in Row
  BY DEF Row, RespondAccepted, RespondDeclined, Acknowledge, LegacyDecline,
         AdminConfirm, WriteAccepted, WriteDeclined, WriteLegacyDecline, WriteConfirmed

LEMMA NewRowType == /\ NoRow \in Row
                    /\ \A d \in Duties \cup {"none"} : NewRow(d) \in Row
  BY DEF NoRow, NewRow, Row

LEMMA BecomeType ==
  ASSUME TypeOK, NEW w \in Workers, NEW s \in LocalState, Become(w, s)
  PROVE  worker' \in [Workers -> LocalState]
  BY DEF TypeOK, Become

LEMMA GotoType ==
  ASSUME TypeOK, NEW w \in Workers, NEW p \in PCs, Goto(w, p)
  PROVE  worker' \in [Workers -> LocalState]
<1>1. [worker[w] EXCEPT !.pc = p] \in LocalState
  BY DEF TypeOK, LocalState
<1> QED BY <1>1, BecomeType DEF Goto

LEMMA FinishType ==
  ASSUME TypeOK, NEW w \in Workers, Finish(w)
  PROVE  worker' \in [Workers -> LocalState]
  BY IdleType, BecomeType DEF Finish

LEMMA DeleteRowsType ==
  ASSUME TypeOK, NEW S, NEW w \in Workers, NEW s \in LocalState, DeleteRows(S, w, s)
  PROVE  roster' \in [Crew -> Row] /\ worker' \in [Workers -> LocalState]
<1>1. \A t \in LocalState : [t EXCEPT !.mine = @ \ S] \in LocalState
  BY DEF LocalState
<1> QED BY <1>1, NewRowType DEF TypeOK, DeleteRows

LEMMA InsertRowType ==
  ASSUME TypeOK, NEW c \in Crew, NEW d \in Duties \cup {"none"}, InsertRow(c, d)
  PROVE  roster' \in [Crew -> Row]
  BY NewRowType DEF TypeOK, InsertRow

LEMMA AnswerType ==
  ASSUME TypeOK, NEW w \in Workers, NEW c \in Crew, NEW new \in Row, Answer(w, c, new)
  PROVE  TypeOK'
  BY DEF Answer, TypeOK, flightVars, history

LEMMA StartGatesType ==
  ASSUME TypeOK, NEW w \in Workers, NEW job \in Jobs, StartGates(w, job)
  PROVE  TypeOK'
<1> DEFINE s == [Idle EXCEPT !.pc = "gateCrew", !.job = job, !.ver = ver,
                             !.doc = doc, !.seen.doc = doc]
<1>1. s \in LocalState
  BY IdleType DEF TypeOK, LocalState, PCs, Contents
<1>2. worker' \in [Workers -> LocalState]
  BY <1>1, BecomeType DEF StartGates
<1> QED BY <1>2 DEF StartGates, TypeOK, flightVars, history

----------------------------------------------------------------------------
LEMMA RequestType ==
  ASSUME TypeOK, NEW w \in Workers, Request(w)
  PROVE  TypeOK'
<1> USE DEF flightVars, history
<1>1. ASSUME NEW c \in Crew, NEW d \in Duties, AssignCrew(w, c, d) PROVE TypeOK'
  <2>1. worker' \in [Workers -> LocalState]
    BY <1>1, GotoType DEF AssignCrew, PCs
  <2>2. roster' \in [Crew -> Row]
    BY <1>1, InsertRowType DEF AssignCrew
  <2> QED BY <1>1, <2>1, <2>2 DEF AssignCrew, TypeOK
<1>2. ASSUME NEW c \in Crew, RemoveRead(w, c) PROVE TypeOK'
  <2>1. [Idle EXCEPT !.pc = "removeDelete", !.mine = {c}] \in LocalState
    BY IdleType DEF LocalState, PCs
  <2>2. worker' \in [Workers -> LocalState]
    BY <1>2, <2>1, BecomeType DEF RemoveRead
  <2> QED BY <1>2, <2>2 DEF RemoveRead, TypeOK
<1>3. ASSUME NEW c \in Crew, DeleteCrewRead(w, c) PROVE TypeOK'
  <2>1. [Idle EXCEPT !.pc = "crewDelete", !.todo = {c},
                     !.dirty = Present(roster[c]) /\ fin] \in LocalState
    BY IdleType DEF LocalState, PCs, TypeOK, Present
  <2>2. worker' \in [Workers -> LocalState]
    BY <1>3, <2>1, BecomeType DEF DeleteCrewRead
  <2> QED BY <1>3, <2>2 DEF DeleteCrewRead, TypeOK
<1>4. ASSUME NEW old \in Crew, NEW new \in Crew, ReplaceInsert(w, old, new) PROVE TypeOK'
  <2>1. [Idle EXCEPT !.pc = "replaceDelete", !.todo = {old}, !.mine = {old, new}]
          \in LocalState
    BY IdleType DEF LocalState, PCs
  <2>2. worker' \in [Workers -> LocalState]
    BY <1>4, <2>1, BecomeType DEF ReplaceInsert
  <2>3. roster[old].duty \in Duties \cup {"none"}
    BY DEF TypeOK, Row
  <2>4. roster' \in [Crew -> Row]
    BY <1>4, <2>3, InsertRowType DEF ReplaceInsert
  <2> QED BY <1>4, <2>2, <2>4 DEF ReplaceInsert, TypeOK
<1>5. ASSUME NEW C \in SUBSET Crew, NEW elsewhere \in BOOLEAN, DutyRead(w, C, elsewhere)
      PROVE TypeOK'
  <2>1. [Idle EXCEPT !.pc = "dutyInsert", !.todo = C \ OnFlight, !.dirty = elsewhere]
          \in LocalState
    BY IdleType DEF LocalState, PCs
  <2>2. worker' \in [Workers -> LocalState]
    BY <1>5, <2>1, BecomeType DEF DutyRead
  <2> QED BY <1>5, <2>2 DEF DutyRead, TypeOK
<1>6. ASSUME NEW d \in Docs, UpdateFlightRead(w, d) PROVE TypeOK'
  <2>1. [Idle EXCEPT !.pc = "updateWrite", !.doc = d, !.dirty = fin /\ d # doc]
          \in LocalState
    BY IdleType DEF LocalState, PCs, AllDocs, TypeOK
  <2>2. worker' \in [Workers -> LocalState]
    BY <1>6, <2>1, BecomeType DEF UpdateFlightRead
  <2> QED BY <1>6, <2>2 DEF UpdateFlightRead, TypeOK
<1>7. ASSUME NEW d \in Docs, OccChangeAircraft(w, d) PROVE TypeOK'
  <2>1. worker' \in [Workers -> LocalState]
    BY <1>7, GotoType DEF OccChangeAircraft, PCs
  <2> QED BY <1>7, <2>1 DEF OccChangeAircraft, TypeOK, AllDocs
<1>9. ASSUME Unpublish(w) PROVE TypeOK'
  BY <1>9 DEF Unpublish, TypeOK
<1>10. ASSUME NEW c \in Crew, Respond(w, c) \/ LegacyAnswer(w, c) \/ Confirm(w, c)
       PROVE TypeOK'
  <2>1. roster[c] \in Row
    BY DEF TypeOK
  <2> QED BY <1>10, <2>1, RowWrites, AnswerType DEF Respond, LegacyAnswer, Confirm
<1>11. ASSUME PublishRead(w) \/ FinalizeRead(w) \/ RegenerateRead(w) \/ DownloadRead(w)
       PROVE TypeOK'
  BY <1>11, StartGatesType DEF PublishRead, FinalizeRead, RegenerateRead, DownloadRead, Jobs
<1> QED BY <1>1, <1>2, <1>3, <1>4, <1>5, <1>6, <1>7, <1>9, <1>10, <1>11 DEF Request

LEMMA ContinueType ==
  ASSUME TypeOK, NEW w \in Workers, Continue(w)
  PROVE  TypeOK'
<1> USE DEF flightVars, history
<1>0. worker[w] \in LocalState
  BY DEF TypeOK
<1>1. ASSUME RemoveDelete(w) PROVE TypeOK'
  <2>1. [worker[w] EXCEPT !.pc = "staleRead"] \in LocalState
    BY <1>0 DEF LocalState, PCs
  <2> QED BY <1>1, <2>1, DeleteRowsType DEF RemoveDelete, TypeOK
<1>2. ASSUME ReplaceDelete(w) PROVE TypeOK'
  <2>1. [worker[w] EXCEPT !.pc = "staleRead", !.todo = {}] \in LocalState
    BY <1>0 DEF LocalState, PCs
  <2> QED BY <1>2, <2>1, DeleteRowsType DEF ReplaceDelete, TypeOK
<1>3. ASSUME ReplaceRollback(w) PROVE TypeOK'
  BY <1>3, IdleType, DeleteRowsType DEF ReplaceRollback, TypeOK
<1>4. ASSUME NEW c \in Crew, DutyInsert(w, c) PROVE TypeOK'
  <2>1. [worker[w] EXCEPT !.todo = @ \ {c}, !.mine = @ \cup {c}, !.dirty = TRUE]
          \in LocalState
    BY <1>0 DEF LocalState
  <2>2. worker' \in [Workers -> LocalState]
    BY <1>4, <2>1, BecomeType DEF DutyInsert
  <2>3. roster' \in [Crew -> Row]
    BY <1>4, InsertRowType DEF DutyInsert, Duties
  <2> QED BY <1>4, <2>2, <2>3 DEF DutyInsert, TypeOK
<1>5. ASSUME NEW c \in Crew, DutyRollback(w, c) PROVE TypeOK'
  BY <1>0, <1>5, DeleteRowsType DEF DutyRollback, TypeOK
<1>6. ASSUME DutyFail(w) PROVE TypeOK'
  <2>1. worker' \in [Workers -> LocalState]
    BY <1>6, GotoType DEF DutyFail, PCs
  <2> QED BY <1>6, <2>1 DEF DutyFail, TypeOK
<1>7. ASSUME DutyRolledBack(w) PROVE TypeOK'
  BY <1>7, FinishType DEF DutyRolledBack, TypeOK
<1>8. [Idle EXCEPT !.pc = "staleRead"] \in LocalState
  BY IdleType DEF LocalState, PCs
<1>9. ASSUME DutyDone(w) PROVE TypeOK'
  <2>1. worker' \in [Workers -> LocalState]
    BY <1>8, <1>9, BecomeType, FinishType DEF DutyDone
  <2> QED BY <1>9, <2>1 DEF DutyDone, TypeOK
<1>10. ASSUME DeleteCrewWrite(w) PROVE TypeOK'
  <2>1. (IF worker[w].dirty THEN [Idle EXCEPT !.pc = "staleRead"] ELSE Idle) \in LocalState
    BY <1>8, IdleType
  <2> QED BY <1>10, <2>1, DeleteRowsType DEF DeleteCrewWrite, TypeOK
<1>11. ASSUME UpdateFlightWrite(w) PROVE TypeOK'
  <2>1. worker' \in [Workers -> LocalState]
    BY <1>8, <1>11, BecomeType, FinishType DEF UpdateFlightWrite
  <2>2. doc' \in AllDocs
    BY <1>0, <1>11 DEF UpdateFlightWrite, LocalState
  <2> QED BY <1>11, <2>1, <2>2 DEF UpdateFlightWrite, TypeOK
<1>12. ASSUME MarkStaleRead(w) PROVE TypeOK'
  <2>1. [Idle EXCEPT !.pc = "staleWrite"] \in LocalState
    BY IdleType DEF LocalState, PCs
  <2>2. worker' \in [Workers -> LocalState]
    BY <1>12, <2>1, BecomeType, FinishType DEF MarkStaleRead
  <2> QED BY <1>12, <2>2 DEF MarkStaleRead, TypeOK
<1>13. ASSUME MarkStaleWrite(w) PROVE TypeOK'
  BY <1>13, FinishType DEF MarkStaleWrite, TypeOK
<1>14. ASSUME PublishWrite(w) PROVE TypeOK'
  BY <1>14, FinishType DEF PublishWrite, TypeOK
<1>15. ASSUME GateCrew(w) PROVE TypeOK'
  <2>1. worker' \in [Workers -> LocalState]
    BY <1>15, GotoType, FinishType DEF GateCrew, PCs
  <2> QED BY <1>15, <2>1 DEF GateCrew, TypeOK
<1>16. ASSUME GateAccept(w) PROVE TypeOK'
  <2>1. Duty(roster) \in [Crew -> Duties \cup {"none"}]
    BY DEF TypeOK, Duty, Row
  <2>2. ASSUME NEW p \in PCs
        PROVE [worker[w] EXCEPT !.pc = p, !.seen.crew = Duty(roster)] \in LocalState
    BY <1>0, <2>1 DEF LocalState, Contents
  <2>3. (IF worker[w].job = "download" THEN "logDownload" ELSE "approveWrite") \in PCs
    BY DEF PCs
  <2>4. worker' \in [Workers -> LocalState]
    BY <1>16, <2>2, <2>3, BecomeType, FinishType DEF GateAccept
  <2> QED BY <1>16, <2>4 DEF GateAccept, TypeOK
<1>17. ASSUME ApproveWrite(w) PROVE TypeOK'
  <2>1. worker' \in [Workers -> LocalState]
    BY <1>17, FinishType DEF ApproveWrite
  <2>2. ver' \in Nat /\ approvals' \in Nat /\ approved' \in Contents
    BY <1>0, <1>17 DEF ApproveWrite, LocalState, TypeOK
  <2>3. fin' \in BOOLEAN
    BY <1>17 DEF ApproveWrite, TypeOK
  <2> QED BY <1>17, <2>1, <2>2, <2>3 DEF ApproveWrite, TypeOK
<1>18. ASSUME LogDownload(w) PROVE TypeOK'
  <2>1. worker' \in [Workers -> LocalState]
    BY <1>18, FinishType DEF LogDownload
  <2>2. issued' \in SUBSET [ver : Nat, content : Contents]
    BY <1>0, <1>18 DEF LogDownload, LocalState, TypeOK
  <2> QED BY <1>18, <2>1, <2>2 DEF LogDownload, TypeOK
<1> QED BY <1>1, <1>2, <1>3, <1>4, <1>5, <1>6, <1>7, <1>9, <1>10, <1>11, <1>12,
           <1>13, <1>14, <1>15, <1>16, <1>17, <1>18 DEF Continue

LEMMA FaultType ==
  ASSUME TypeOK, NEW w \in Workers, Fault(w)
  PROVE  TypeOK'
<1> USE DEF flightVars, history
<1>1. ASSUME ReplaceFail(w) PROVE TypeOK'
  <2>1. worker' \in [Workers -> LocalState]
    BY <1>1, GotoType DEF ReplaceFail, PCs
  <2> QED BY <1>1, <2>1 DEF ReplaceFail, TypeOK
<1>2. ASSUME NEW c \in Crew, DutyRollbackSkip(w, c) PROVE TypeOK'
  <2>1. [worker[w] EXCEPT !.mine = @ \ {c}] \in LocalState
    BY DEF TypeOK, LocalState
  <2>2. worker' \in [Workers -> LocalState]
    BY <1>2, <2>1, BecomeType DEF DutyRollbackSkip
  <2> QED BY <1>2, <2>2 DEF DutyRollbackSkip, TypeOK
<1>3. ASSUME Crash(w) PROVE TypeOK'
  BY <1>3, FinishType DEF Crash, TypeOK
<1> QED BY <1>1, <1>2, <1>3 DEF Fault

\* The state of the flight, its roster and every worker stays well typed.
THEOREM TypeCorrect == Spec => []TypeOK
<1>1. Init => TypeOK
  <2> SUFFICES ASSUME Init PROVE TypeOK
    OBVIOUS
  <2>1. roster \in [Crew -> Row]
    BY NewRowType DEF Init
  <2>2. worker \in [Workers -> LocalState]
    BY IdleType DEF Init
  <2>3. Idle.seen \in Contents
    BY IdleType DEF LocalState
  <2> QED BY <2>1, <2>2, <2>3 DEF Init, TypeOK
<1>2. TypeOK /\ [Next]_vars => TypeOK'
  <2>1. TypeOK /\ Next => TypeOK'
    BY RequestType, ContinueType, FaultType DEF Next
  <2>2. TypeOK /\ UNCHANGED vars => TypeOK'
    BY DEF TypeOK, vars, flightVars, history
  <2> QED BY <2>1, <2>2
<1> QED BY <1>1, <1>2, PTL DEF Spec

----------------------------------------------------------------------------
(* Whatever interleaves and whatever fails.                                *)

\* A step that leaves the approval state alone keeps AnyInv if the local
\* states it leaves behind satisfy their part.
LEMMA AnyFrame ==
  ASSUME AnyInv, UNCHANGED <<fin, gd, ver, approvals, issued>>,
         \A w \in Workers : AnyWorkerInv(worker'[w])
  PROVE  AnyInv'
  BY DEF AnyInv, AnyWorkerInv, GdOnlyWhenFinalized, IssuedWasApproved

LEMMA IdleAny == ASSUME TypeOK PROVE AnyWorkerInv(Idle)
  BY DEF AnyWorkerInv, Idle, TypeOK

LEMMA BecomeAny ==
  ASSUME TypeOK, AnyInv, NEW w \in Workers, NEW s, AnyWorkerInv(s), Become(w, s),
         UNCHANGED <<fin, gd, ver, approvals, issued>>
  PROVE  AnyInv'
<1>1. \A x \in Workers : AnyWorkerInv(worker'[x])
  BY DEF TypeOK, AnyInv, Become
<1> QED BY <1>1, AnyFrame

LEMMA DeleteRowsAny ==
  ASSUME TypeOK, AnyInv, NEW S, NEW w \in Workers, NEW s \in LocalState,
         AnyWorkerInv(s), DeleteRows(S, w, s),
         UNCHANGED <<fin, gd, ver, approvals, issued>>
  PROVE  AnyInv'
<1>1. ASSUME NEW t \in LocalState, AnyWorkerInv(t)
      PROVE  AnyWorkerInv([t EXCEPT !.mine = @ \ S])
  BY <1>1 DEF AnyWorkerInv, LocalState
<1>2. \A x \in Workers : AnyWorkerInv(worker'[x])
  BY <1>1 DEF DeleteRows, TypeOK, AnyInv
<1> QED BY <1>2, AnyFrame

LEMMA RequestAny ==
  ASSUME TypeOK, AnyInv, NEW w \in Workers, Request(w)
  PROVE  AnyInv'
<1> USE DEF flightVars, history
<1>0. worker[w] \in LocalState /\ AnyWorkerInv(worker[w])
  BY DEF TypeOK, AnyInv
<1>1. ASSUME NEW c \in Crew, NEW d \in Duties, AssignCrew(w, c, d) PROVE AnyInv'
  <2>1. AnyWorkerInv([worker[w] EXCEPT !.pc = "staleRead"])
    BY <1>0, <1>1 DEF AnyWorkerInv, LocalState, AssignCrew, IsIdle
  <2> QED BY <1>1, <2>1, BecomeAny DEF AssignCrew, Goto
<1>2. ASSUME NEW c \in Crew, RemoveRead(w, c) PROVE AnyInv'
  <2>1. AnyWorkerInv([Idle EXCEPT !.pc = "removeDelete", !.mine = {c}])
    BY IdleAny DEF AnyWorkerInv, Idle
  <2> QED BY <1>2, <2>1, BecomeAny DEF RemoveRead
<1>3. ASSUME NEW c \in Crew, DeleteCrewRead(w, c) PROVE AnyInv'
  <2>1. AnyWorkerInv([Idle EXCEPT !.pc = "crewDelete", !.todo = {c},
                                  !.dirty = Present(roster[c]) /\ fin])
    BY IdleAny DEF AnyWorkerInv, Idle
  <2> QED BY <1>3, <2>1, BecomeAny DEF DeleteCrewRead
<1>4. ASSUME NEW old \in Crew, NEW new \in Crew, ReplaceInsert(w, old, new) PROVE AnyInv'
  <2>1. AnyWorkerInv([Idle EXCEPT !.pc = "replaceDelete", !.todo = {old}, !.mine = {old, new}])
    BY IdleAny DEF AnyWorkerInv, Idle
  <2> QED BY <1>4, <2>1, BecomeAny DEF ReplaceInsert
<1>5. ASSUME NEW C \in SUBSET Crew, NEW elsewhere \in BOOLEAN, DutyRead(w, C, elsewhere)
      PROVE AnyInv'
  <2>1. AnyWorkerInv([Idle EXCEPT !.pc = "dutyInsert", !.todo = C \ OnFlight,
                                  !.dirty = elsewhere])
    BY IdleAny DEF AnyWorkerInv, Idle
  <2> QED BY <1>5, <2>1, BecomeAny DEF DutyRead
<1>6. ASSUME NEW d \in Docs, UpdateFlightRead(w, d) PROVE AnyInv'
  <2>1. AnyWorkerInv([Idle EXCEPT !.pc = "updateWrite", !.doc = d,
                                  !.dirty = fin /\ d # doc])
    BY IdleAny DEF AnyWorkerInv, Idle
  <2> QED BY <1>6, <2>1, BecomeAny DEF UpdateFlightRead
<1>7. ASSUME NEW d \in Docs, OccChangeAircraft(w, d) PROVE AnyInv'
  <2>1. AnyWorkerInv([worker[w] EXCEPT !.pc = "staleRead"])
    BY <1>0, <1>7 DEF AnyWorkerInv, LocalState, OccChangeAircraft, IsIdle
  <2> QED BY <1>7, <2>1, BecomeAny DEF OccChangeAircraft, Goto
<1>9. ASSUME Unpublish(w) PROVE AnyInv'
  BY <1>9, AnyFrame DEF Unpublish, AnyInv
<1>10. ASSUME NEW c \in Crew, Respond(w, c) \/ LegacyAnswer(w, c) \/ Confirm(w, c)
       PROVE AnyInv'
  BY <1>10, AnyFrame DEF Respond, LegacyAnswer, Confirm, Answer, AnyInv
<1>11. ASSUME NEW job \in Jobs \ {"none"}, StartGates(w, job),
              job = "regenerate" => fin, job = "download" => fin
       PROVE  AnyInv'
  <2>1. AnyWorkerInv([Idle EXCEPT !.pc = "gateCrew", !.job = job, !.ver = ver,
                                  !.doc = doc, !.seen.doc = doc])
    BY <1>11 DEF AnyWorkerInv, Idle, AnyInv, TypeOK, Jobs
  <2> QED BY <1>11, <2>1, BecomeAny DEF StartGates
<1>12. ASSUME PublishRead(w) \/ FinalizeRead(w) \/ RegenerateRead(w) \/ DownloadRead(w)
       PROVE AnyInv'
  BY <1>11, <1>12 DEF PublishRead, FinalizeRead, RegenerateRead, DownloadRead, Jobs
<1> QED BY <1>1, <1>2, <1>3, <1>4, <1>5, <1>6, <1>7, <1>9, <1>10, <1>12 DEF Request

LEMMA ContinueAny ==
  ASSUME TypeOK, AnyInv, NEW w \in Workers, Continue(w)
  PROVE  AnyInv'
<1> USE DEF flightVars, history
<1>0. worker[w] \in LocalState /\ AnyWorkerInv(worker[w])
  BY DEF TypeOK, AnyInv
<1>1. ASSUME RemoveDelete(w) PROVE AnyInv'
  <2>1. [worker[w] EXCEPT !.pc = "staleRead"] \in LocalState
    BY <1>0 DEF LocalState, PCs
  <2>2. AnyWorkerInv([worker[w] EXCEPT !.pc = "staleRead"])
    BY <1>0 DEF AnyWorkerInv, LocalState
  <2> QED BY <1>1, <2>1, <2>2, DeleteRowsAny DEF RemoveDelete
<1>2. ASSUME ReplaceDelete(w) PROVE AnyInv'
  <2>1. [worker[w] EXCEPT !.pc = "staleRead", !.todo = {}] \in LocalState
    BY <1>0 DEF LocalState, PCs
  <2>2. AnyWorkerInv([worker[w] EXCEPT !.pc = "staleRead", !.todo = {}])
    BY <1>0 DEF AnyWorkerInv, LocalState
  <2> QED BY <1>2, <2>1, <2>2, DeleteRowsAny DEF ReplaceDelete
<1>3. ASSUME ReplaceRollback(w) PROVE AnyInv'
  BY <1>3, IdleType, IdleAny, DeleteRowsAny DEF ReplaceRollback
<1>4. ASSUME NEW c \in Crew, DutyInsert(w, c) PROVE AnyInv'
  <2>1. AnyWorkerInv([worker[w] EXCEPT !.todo = @ \ {c}, !.mine = @ \cup {c}, !.dirty = TRUE])
    BY <1>0 DEF AnyWorkerInv, LocalState
  <2> QED BY <1>4, <2>1, BecomeAny DEF DutyInsert
<1>5. ASSUME NEW c \in Crew, DutyRollback(w, c) PROVE AnyInv'
  BY <1>0, <1>5, DeleteRowsAny DEF DutyRollback
<1>6. ASSUME DutyFail(w) PROVE AnyInv'
  <2>1. AnyWorkerInv([worker[w] EXCEPT !.pc = "dutyRollback"])
    BY <1>0 DEF AnyWorkerInv, LocalState
  <2> QED BY <1>6, <2>1, BecomeAny DEF DutyFail, Goto
<1>7. ASSUME DutyRolledBack(w) PROVE AnyInv'
  BY <1>7, IdleAny, BecomeAny DEF DutyRolledBack, Finish
<1>8. AnyWorkerInv([Idle EXCEPT !.pc = "staleRead"])
  BY IdleAny DEF AnyWorkerInv, Idle
<1>9. ASSUME DutyDone(w) PROVE AnyInv'
  BY <1>8, <1>9, IdleAny, BecomeAny DEF DutyDone, Finish
<1>10. ASSUME DeleteCrewWrite(w) PROVE AnyInv'
  <2>1. [Idle EXCEPT !.pc = "staleRead"] \in LocalState
    BY IdleType DEF LocalState, PCs
  <2> QED BY <1>8, <1>10, <2>1, IdleType, IdleAny, DeleteRowsAny DEF DeleteCrewWrite
<1>11. ASSUME UpdateFlightWrite(w) PROVE AnyInv'
  BY <1>8, <1>11, IdleAny, BecomeAny DEF UpdateFlightWrite, Finish
<1>12. ASSUME MarkStaleRead(w) PROVE AnyInv'
  <2>1. fin => AnyWorkerInv([Idle EXCEPT !.pc = "staleWrite"])
    BY IdleAny DEF AnyWorkerInv, Idle
  <2> QED BY <1>12, <2>1, IdleAny, BecomeAny DEF MarkStaleRead, Finish
<1>13. ASSUME MarkStaleWrite(w) PROVE AnyInv'
  <2>1. fin
    BY <1>0, <1>13 DEF MarkStaleWrite, At, AnyWorkerInv
  <2>2. \A x \in Workers : AnyWorkerInv(worker[x])'
    BY <1>13, IdleAny DEF MarkStaleWrite, Finish, Become, TypeOK, AnyInv, AnyWorkerInv
  <2> QED BY <1>13, <2>1, <2>2 DEF MarkStaleWrite, AnyInv, GdOnlyWhenFinalized, IssuedWasApproved
<1>14. ASSUME PublishWrite(w) PROVE AnyInv'
  BY <1>14, IdleAny, BecomeAny DEF PublishWrite, Finish
<1>15. ASSUME GateCrew(w) PROVE AnyInv'
  <2>1. AnyWorkerInv([worker[w] EXCEPT
                        !.pc = IF worker[w].job = "publish" THEN "publishWrite"
                                                            ELSE "gateAccept"])
    BY <1>0, <1>15 DEF AnyWorkerInv, LocalState, GateCrew, At
  <2> QED BY <1>15, <2>1, IdleAny, BecomeAny DEF GateCrew, Finish, Goto
<1>16. ASSUME GateAccept(w) PROVE AnyInv'
  <2>1. AnyWorkerInv([worker[w] EXCEPT
                        !.pc = IF worker[w].job = "download" THEN "logDownload"
                                                             ELSE "approveWrite",
                        !.seen.crew = Duty(roster)])
    BY <1>0, <1>16 DEF AnyWorkerInv, LocalState, GateAccept, At, Jobs
  <2> QED BY <1>16, <2>1, IdleAny, BecomeAny DEF GateAccept, Finish
<1>17. ASSUME ApproveWrite(w) PROVE AnyInv'
  <2>1. fin'
    BY <1>0, <1>17 DEF ApproveWrite, At, AnyWorkerInv
  <2>2. ver' >= 1 /\ ver' <= approvals' /\ approvals <= approvals'
    BY <1>0, <1>17 DEF ApproveWrite, AnyWorkerInv, LocalState, TypeOK
  <2>3. \A x \in Workers : AnyWorkerInv(worker[x])'
    <3> SUFFICES ASSUME NEW x \in Workers PROVE AnyWorkerInv(worker[x])'
      OBVIOUS
    <3>1. worker[x] \in LocalState /\ AnyWorkerInv(worker[x])
      BY DEF TypeOK, AnyInv
    <3>2. worker'[x] = Idle \/ worker'[x] = worker[x]
      BY <1>17 DEF ApproveWrite, Finish, Become, TypeOK
    <3>3. approvals' \in Nat /\ approvals \in Nat
      BY <1>17 DEF ApproveWrite, TypeOK
    <3>4. CASE worker'[x] = Idle
      BY <3>3, <3>4 DEF Idle, AnyWorkerInv
    <3>5. CASE worker'[x] = worker[x]
      BY <2>1, <2>2, <3>1, <3>3, <3>5 DEF AnyWorkerInv, LocalState
    <3> QED BY <3>2, <3>4, <3>5
  <2>4. IssuedWasApproved'
    <3> SUFFICES ASSUME NEW i \in issued PROVE 1 <= i.ver /\ i.ver <= approvals'
      BY <1>17 DEF ApproveWrite, IssuedWasApproved
    <3>1. i.ver \in Nat
      BY DEF TypeOK
    <3> QED BY <1>17, <3>1 DEF ApproveWrite, AnyInv, IssuedWasApproved, TypeOK
  <2>5. GdOnlyWhenFinalized'
    BY <1>17, <2>1 DEF ApproveWrite, GdOnlyWhenFinalized
  <2> QED BY <2>1, <2>2, <2>3, <2>4, <2>5 DEF AnyInv
<1>18. ASSUME LogDownload(w) PROVE AnyInv'
  <2>1. \A x \in Workers : AnyWorkerInv(worker[x])'
    BY <1>18, IdleAny DEF LogDownload, Finish, Become, TypeOK, AnyInv, AnyWorkerInv
  <2>2. IssuedWasApproved'
    BY <1>0, <1>18 DEF LogDownload, At, AnyWorkerInv, AnyInv, IssuedWasApproved
  <2> QED BY <1>18, <2>1, <2>2 DEF LogDownload, AnyInv, GdOnlyWhenFinalized
<1> QED BY <1>1, <1>2, <1>3, <1>4, <1>5, <1>6, <1>7, <1>9, <1>10, <1>11, <1>12,
           <1>13, <1>14, <1>15, <1>16, <1>17, <1>18 DEF Continue

LEMMA FaultAny ==
  ASSUME TypeOK, AnyInv, NEW w \in Workers, Fault(w)
  PROVE  AnyInv'
<1> USE DEF flightVars, history
<1>0. worker[w] \in LocalState /\ AnyWorkerInv(worker[w])
  BY DEF TypeOK, AnyInv
<1>1. ASSUME ReplaceFail(w) PROVE AnyInv'
  <2>1. AnyWorkerInv([worker[w] EXCEPT !.pc = "replaceRollback"])
    BY <1>0 DEF AnyWorkerInv, LocalState
  <2> QED BY <1>1, <2>1, BecomeAny DEF ReplaceFail, Goto
<1>2. ASSUME NEW c \in Crew, DutyRollbackSkip(w, c) PROVE AnyInv'
  <2>1. AnyWorkerInv([worker[w] EXCEPT !.mine = @ \ {c}])
    BY <1>0 DEF AnyWorkerInv, LocalState
  <2> QED BY <1>2, <2>1, BecomeAny DEF DutyRollbackSkip
<1>3. ASSUME Crash(w) PROVE AnyInv'
  BY <1>3, IdleAny, BecomeAny DEF Crash, Finish
<1> QED BY <1>1, <1>2, <1>3 DEF Fault

LEMMA AnyInvariant == Spec => []AnyInv
<1>1. Init => AnyInv
  BY DEF Init, AnyInv, AnyWorkerInv, Idle, GdOnlyWhenFinalized, IssuedWasApproved
<1>2. TypeOK /\ AnyInv /\ [Next]_vars => AnyInv'
  <2>1. TypeOK /\ AnyInv /\ Next => AnyInv'
    BY RequestAny, ContinueAny, FaultAny DEF Next
  <2>2. AnyInv /\ UNCHANGED vars => AnyInv'
    BY DEF AnyInv, AnyWorkerInv, GdOnlyWhenFinalized, IssuedWasApproved,
           vars, flightVars, history
  <2> QED BY <2>1, <2>2
<1> QED BY <1>1, <1>2, TypeCorrect, PTL DEF Spec

\* For any number of concurrent instances and any failure, a GD status exists
\* exactly for a finalized flight: the stale hook and a regeneration can act
\* late, but never on a flight that was not finalized.
THEOREM GdStatusNeedsFinalization == Spec => []GdOnlyWhenFinalized
<1>1. AnyInv => GdOnlyWhenFinalized
  BY DEF AnyInv
<1> QED BY <1>1, AnyInvariant, PTL

\* Likewise, no download is ever recorded under a version that no approval made.
THEOREM DownloadsUnderApprovedVersions == Spec => []IssuedWasApproved
<1>1. AnyInv => IssuedWasApproved
  BY DEF AnyInv
<1> QED BY <1>1, AnyInvariant, PTL
----------------------------------------------------------------------------
(* Handlers one at a time: Serial.  The version a handler has read is      *)
(* still current when it approves, also when calls fail.                   *)

LEMMA BecomeAt ==
  ASSUME TypeOK, NEW w \in Workers, NEW s, Become(w, s)
  PROVE  worker'[w] = s
  BY DEF TypeOK, Become

LEMMA DeleteRowsAt ==
  ASSUME TypeOK, NEW S, NEW w \in Workers, NEW s \in LocalState, DeleteRows(S, w, s)
  PROVE  worker'[w] = [s EXCEPT !.mine = @ \ S]
  BY DEF TypeOK, DeleteRows

\* In a serial system the step of w decides the whole invariant.
LEMMA VersionFrame ==
  ASSUME Serial, VersionInv, NEW w \in Workers, UNCHANGED <<ver, approvals>>,
         worker'[w].job # "none" => worker'[w].ver = ver
  PROVE  VersionInv'
  BY DEF Serial, VersionInv

LEMMA RequestVersion ==
  ASSUME Serial, TypeOK, VersionInv, NEW w \in Workers, Request(w)
  PROVE  VersionInv'
<1> USE DEF flightVars, history
<1>1. worker[w] \in LocalState
  BY DEF TypeOK
<1>2. ASSUME NEW p \in PCs, Goto(w, p), UNCHANGED <<ver, approvals>> PROVE VersionInv'
  <2>1. worker'[w] = [worker[w] EXCEPT !.pc = p]
    BY <1>2, BecomeAt DEF Goto
  <2> QED BY <1>1, <1>2, <2>1, VersionFrame DEF VersionInv, LocalState
<1>3. ASSUME NEW s, Become(w, s), s.job = "none", UNCHANGED <<ver, approvals>>
      PROVE VersionInv'
  <2>1. worker'[w] = s
    BY <1>3, BecomeAt
  <2> QED BY <1>3, <2>1, VersionFrame
<1>4. ASSUME NEW c \in Crew, NEW d \in Duties, AssignCrew(w, c, d) PROVE VersionInv'
  BY <1>2, <1>4 DEF AssignCrew, PCs
<1>5. ASSUME NEW c \in Crew, RemoveRead(w, c) \/ DeleteCrewRead(w, c) PROVE VersionInv'
  BY <1>3, <1>5 DEF RemoveRead, DeleteCrewRead, Idle
<1>6. ASSUME NEW old \in Crew, NEW new \in Crew, ReplaceInsert(w, old, new) PROVE VersionInv'
  BY <1>3, <1>6 DEF ReplaceInsert, Idle
<1>7. ASSUME NEW C \in SUBSET Crew, NEW elsewhere \in BOOLEAN, DutyRead(w, C, elsewhere)
      PROVE VersionInv'
  BY <1>3, <1>7 DEF DutyRead, Idle
<1>8. ASSUME NEW d \in Docs, UpdateFlightRead(w, d) PROVE VersionInv'
  BY <1>3, <1>8 DEF UpdateFlightRead, Idle
<1>9. ASSUME NEW d \in Docs, OccChangeAircraft(w, d) PROVE VersionInv'
  BY <1>2, <1>9 DEF OccChangeAircraft, PCs
<1>11. ASSUME Unpublish(w) PROVE VersionInv'
  BY <1>11 DEF Unpublish, VersionInv
<1>12. ASSUME NEW c \in Crew, Respond(w, c) \/ LegacyAnswer(w, c) \/ Confirm(w, c)
       PROVE VersionInv'
  BY <1>12 DEF Respond, LegacyAnswer, Confirm, Answer, VersionInv
<1>13. ASSUME NEW job \in Jobs, StartGates(w, job) PROVE VersionInv'
  <2> DEFINE s == [Idle EXCEPT !.pc = "gateCrew", !.job = job, !.ver = ver,
                               !.doc = doc, !.seen.doc = doc]
  <2>1. worker'[w] = s
    BY <1>13, BecomeAt DEF StartGates
  <2>2. s.ver = ver
    BY DEF Idle
  <2>3. UNCHANGED <<ver, approvals>>
    BY <1>13 DEF StartGates
  <2> QED BY <2>1, <2>2, <2>3, VersionFrame
<1>14. ASSUME PublishRead(w) \/ FinalizeRead(w) \/ RegenerateRead(w) \/ DownloadRead(w)
       PROVE VersionInv'
  BY <1>13, <1>14 DEF PublishRead, FinalizeRead, RegenerateRead, DownloadRead, Jobs
<1> QED BY <1>4, <1>5, <1>6, <1>7, <1>8, <1>9, <1>11, <1>12, <1>14 DEF Request

LEMMA ContinueVersion ==
  ASSUME Serial, TypeOK, AnyInv, VersionInv, NEW w \in Workers, Continue(w) \/ Fault(w)
  PROVE  VersionInv'
<1> USE DEF flightVars, history
<1>0. worker[w] \in LocalState /\ (worker[w].job # "none" => worker[w].ver = ver)
  BY DEF TypeOK, VersionInv
<1>1. ASSUME NEW s, Become(w, s), s.job # "none" => s.ver = ver, UNCHANGED <<ver, approvals>>
      PROVE VersionInv'
  <2>1. worker'[w] = s
    BY <1>1, BecomeAt
  <2> QED BY <1>1, <2>1, VersionFrame
<1>2. ASSUME NEW S, NEW s \in LocalState, DeleteRows(S, w, s), s.job # "none" => s.ver = ver,
             UNCHANGED <<ver, approvals>>
      PROVE VersionInv'
  <2>1. worker'[w] = [s EXCEPT !.mine = @ \ S]
    BY <1>2, DeleteRowsAt
  <2>2. worker'[w].job = s.job /\ worker'[w].ver = s.ver
    BY <2>1 DEF LocalState
  <2> QED BY <1>2, <2>2, VersionFrame
<1>3. ASSUME Finish(w), UNCHANGED <<ver, approvals>> PROVE VersionInv'
  BY <1>1, <1>3 DEF Finish, Idle
<1>4. ASSUME NEW p \in PCs, Goto(w, p), UNCHANGED <<ver, approvals>> PROVE VersionInv'
  BY <1>0, <1>1, <1>4 DEF Goto, LocalState
<1>5. CASE RemoveDelete(w)
  <2>1. [worker[w] EXCEPT !.pc = "staleRead"] \in LocalState
    BY <1>0 DEF LocalState, PCs
  <2> QED BY <1>0, <1>2, <1>5, <2>1 DEF RemoveDelete, LocalState
<1>6. CASE ReplaceDelete(w)
  <2>1. [worker[w] EXCEPT !.pc = "staleRead", !.todo = {}] \in LocalState
    BY <1>0 DEF LocalState, PCs
  <2> QED BY <1>0, <1>2, <1>6, <2>1 DEF ReplaceDelete, LocalState
<1>7. CASE ReplaceRollback(w)
  BY <1>2, <1>7, IdleType DEF ReplaceRollback, Idle
<1>8. ASSUME NEW c \in Crew, DutyInsert(w, c) \/ DutyRollbackSkip(w, c) PROVE VersionInv'
  BY <1>0, <1>1, <1>8 DEF DutyInsert, DutyRollbackSkip, LocalState
<1>9. ASSUME NEW c \in Crew, DutyRollback(w, c) PROVE VersionInv'
  BY <1>0, <1>2, <1>9 DEF DutyRollback
<1>10. CASE DutyFail(w) \/ ReplaceFail(w)
  BY <1>4, <1>10 DEF DutyFail, ReplaceFail, PCs
<1>11. CASE DutyRolledBack(w) \/ PublishWrite(w) \/ MarkStaleWrite(w)
            \/ LogDownload(w) \/ Crash(w)
  BY <1>3, <1>11 DEF DutyRolledBack, PublishWrite, MarkStaleWrite, LogDownload, Crash
<1>12. ASSUME NEW p \in PCs, Become(w, [Idle EXCEPT !.pc = p]), UNCHANGED <<ver, approvals>>
       PROVE VersionInv'
  BY <1>1, <1>12 DEF Idle
<1>13. CASE DutyDone(w) \/ UpdateFlightWrite(w) \/ MarkStaleRead(w)
  BY <1>3, <1>12, <1>13 DEF DutyDone, UpdateFlightWrite, MarkStaleRead, PCs
<1>14. CASE DeleteCrewWrite(w)
  <2>1. [Idle EXCEPT !.pc = "staleRead"] \in LocalState
    BY IdleType DEF LocalState, PCs
  <2> QED BY <1>2, <1>14, <2>1, IdleType DEF DeleteCrewWrite, Idle
<1>15. CASE GateCrew(w)
  BY <1>3, <1>4, <1>15 DEF GateCrew, PCs
<1>16. CASE GateAccept(w)
  BY <1>0, <1>1, <1>3, <1>16 DEF GateAccept, LocalState
<1>17. CASE ApproveWrite(w)
  <2>1. worker[w].job # "none"
    BY <1>17 DEF ApproveWrite, At, AnyInv, AnyWorkerInv
  <2>2. ver' = approvals'
    BY <1>0, <1>17, <2>1 DEF ApproveWrite, VersionInv
  <2>3. worker'[w] = Idle
    BY <1>17, BecomeAt DEF ApproveWrite, Finish
  <2> QED BY <2>2, <2>3 DEF Idle, VersionInv, Serial
<1> QED BY <1>5, <1>6, <1>7, <1>8, <1>9, <1>10, <1>11, <1>13, <1>14, <1>15, <1>16, <1>17
        DEF Continue, Fault

LEMMA VersionInvariant == ASSUME Serial PROVE Spec => []VersionInv
<1>1. Init => VersionInv
  BY DEF Init, VersionInv, Idle
<1>2. TypeOK /\ AnyInv /\ VersionInv /\ [Next]_vars => VersionInv'
  <2>1. TypeOK /\ AnyInv /\ VersionInv /\ Next => VersionInv'
    BY RequestVersion, ContinueVersion DEF Next
  <2>2. VersionInv /\ UNCHANGED vars => VersionInv'
    BY DEF VersionInv, vars, flightVars, history
  <2> QED BY <2>1, <2>2
<1> QED BY <1>1, <1>2, TypeCorrect, AnyInvariant, PTL DEF Spec

\* When handlers run one at a time, every approval makes a new GD version,
\* whatever call of it or of another handler fails.
THEOREM EveryApprovalIsAVersion ==
  ASSUME Serial PROVE Spec => []VersionCountsApprovals
<1>1. VersionInv => VersionCountsApprovals
  BY DEF VersionInv, VersionCountsApprovals
<1> QED BY <1>1, VersionInvariant, PTL

----------------------------------------------------------------------------
(* One handler at a time and nothing fails: SerialInv.                     *)

\* The step of w decides the invariant if it records no approval or download.
LEMMA SerialFrame ==
  ASSUME Serial, SerialInv, NEW w \in Workers, UNCHANGED <<ver, approved, issued>>,
         SerialWorkerInv(worker[w])'
  PROVE  SerialInv'
  BY DEF Serial, SerialInv, OneContentPerVersion

\* An answer changes no duty, hence not the content of the GD.
LEMMA AnswerKeepsContent ==
  ASSUME TypeOK, NEW w \in Workers, NEW c \in Crew, Respond(w, c) \/ LegacyAnswer(w, c) \/ Confirm(w, c)
  PROVE  IsIdle(w) /\ Content' = Content /\ UNCHANGED <<flightVars, worker, history>>
<1>1. ASSUME NEW r \in Row, NEW departed \in BOOLEAN
      PROVE  /\ RespondAccepted(r, departed).duty = r.duty
             /\ RespondDeclined(r).duty = r.duty
             /\ Acknowledge(r).duty = r.duty
             /\ LegacyDecline(r).duty = r.duty
             /\ AdminConfirm(r).duty = r.duty
  BY DEF Row, RespondAccepted, RespondDeclined, Acknowledge, LegacyDecline,
         AdminConfirm, WriteAccepted, WriteDeclined, WriteLegacyDecline, WriteConfirmed
<1>2. roster[c] \in Row
  BY DEF TypeOK
<1>3. ASSUME NEW new, new.duty = roster[c].duty, Answer(w, c, new)
      PROVE  IsIdle(w) /\ Content' = Content /\ UNCHANGED <<flightVars, worker, history>>
  <2>1. \A x \in Crew : roster'[x].duty = roster[x].duty
    BY <1>3 DEF Answer, TypeOK
  <2>2. Duty(roster)' = Duty(roster)
    BY <2>1 DEF Duty
  <2> QED BY <1>3, <2>2 DEF Answer, Content, flightVars
<1> QED BY <1>1, <1>2, <1>3 DEF Respond, LegacyAnswer, Confirm

LEMMA RequestSerial ==
  ASSUME Serial, TypeOK, AnyInv, SerialInv, NEW w \in Workers, Request(w)
  PROVE  SerialInv'
<1> USE DEF flightVars, history
<1>1. worker[w] \in LocalState /\ SerialWorkerInv(worker[w])
  BY DEF TypeOK, SerialInv
<1>2. IsIdle(w) => (gd = "ready" => approved = Content) /\ worker[w].job = "none"
  BY <1>1 DEF IsIdle, SerialWorkerInv, HookPending
<1>3. ASSUME NEW c \in Crew, NEW d \in Duties, AssignCrew(w, c, d) PROVE SerialInv'
  <2>1. worker'[w] = [worker[w] EXCEPT !.pc = "staleRead"]
    BY <1>3, BecomeAt DEF AssignCrew, Goto
  <2>2. worker'[w].pc = "staleRead" /\ worker'[w].job = "none"
    BY <1>1, <1>2, <1>3, <2>1 DEF AssignCrew, LocalState
  <2> QED BY <1>3, <2>2, SerialFrame DEF AssignCrew, SerialWorkerInv, HookPending
<1>4. ASSUME NEW c \in Crew, RemoveRead(w, c) PROVE SerialInv'
  <2>1. worker'[w] = [Idle EXCEPT !.pc = "removeDelete", !.mine = {c}]
    BY <1>4, BecomeAt DEF RemoveRead
  <2>2. worker'[w].pc = "removeDelete" /\ worker'[w].job = "none"
    BY <2>1 DEF Idle
  <2>3. Content' = Content
    BY <1>4 DEF RemoveRead, Content
  <2> QED BY <1>2, <1>4, <2>2, <2>3, SerialFrame DEF RemoveRead, SerialWorkerInv, HookPending
<1>5. ASSUME NEW c \in Crew, DeleteCrewRead(w, c) PROVE SerialInv'
  <2>1. worker'[w] = [Idle EXCEPT !.pc = "crewDelete", !.todo = {c},
                                  !.dirty = Present(roster[c]) /\ fin]
    BY <1>5, BecomeAt DEF DeleteCrewRead
  <2>2. /\ worker'[w].pc = "crewDelete" /\ worker'[w].job = "none"
        /\ worker'[w].todo = {c} /\ worker'[w].dirty = (Present(roster[c]) /\ fin)
    BY <2>1 DEF Idle
  <2>3. Content' = Content /\ roster' = roster
    BY <1>5 DEF DeleteCrewRead, Content
  <2>4. worker'[w].dirty = (fin /\ \E x \in worker'[w].todo : Present(roster'[x]))
    BY <2>2, <2>3
  <2> QED BY <1>2, <1>5, <2>2, <2>3, <2>4, SerialFrame
          DEF DeleteCrewRead, SerialWorkerInv, HookPending
<1>6. ASSUME NEW old \in Crew, NEW new \in Crew, ReplaceInsert(w, old, new) PROVE SerialInv'
  <2>1. worker'[w] = [Idle EXCEPT !.pc = "replaceDelete", !.todo = {old}, !.mine = {old, new}]
    BY <1>6, BecomeAt DEF ReplaceInsert
  <2>2. worker'[w].pc = "replaceDelete" /\ worker'[w].job = "none"
    BY <2>1 DEF Idle
  <2> QED BY <1>6, <2>2, SerialFrame DEF ReplaceInsert, SerialWorkerInv, HookPending
<1>7. ASSUME NEW C \in SUBSET Crew, NEW elsewhere \in BOOLEAN, DutyRead(w, C, elsewhere)
      PROVE SerialInv'
  <2>1. worker'[w] = [Idle EXCEPT !.pc = "dutyInsert", !.todo = C \ OnFlight,
                                  !.dirty = elsewhere]
    BY <1>7, BecomeAt DEF DutyRead
  <2>2. /\ worker'[w].pc = "dutyInsert" /\ worker'[w].job = "none"
        /\ worker'[w].todo = C \ OnFlight
    BY <2>1 DEF Idle
  <2>3. Content' = Content /\ roster' = roster
    BY <1>7 DEF DutyRead, Content
  <2>4. \A c \in worker'[w].todo : ~Present(roster'[c])
    BY <2>2, <2>3 DEF OnFlight
  <2> QED BY <1>2, <1>7, <2>2, <2>3, <2>4, SerialFrame DEF DutyRead, SerialWorkerInv, HookPending
<1>8. ASSUME NEW d \in Docs, UpdateFlightRead(w, d) PROVE SerialInv'
  <2>1. worker'[w] = [Idle EXCEPT !.pc = "updateWrite", !.doc = d, !.dirty = fin /\ d # doc]
    BY <1>8, BecomeAt DEF UpdateFlightRead
  <2>2. /\ worker'[w].pc = "updateWrite" /\ worker'[w].job = "none"
        /\ worker'[w].doc = d /\ worker'[w].dirty = (fin /\ d # doc)
    BY <2>1 DEF Idle
  <2>3. Content' = Content
    BY <1>8 DEF UpdateFlightRead, Content
  <2> QED BY <1>2, <1>8, <2>2, <2>3, SerialFrame DEF UpdateFlightRead, SerialWorkerInv, HookPending
<1>9. ASSUME NEW d \in Docs, OccChangeAircraft(w, d) PROVE SerialInv'
  <2>1. worker'[w] = [worker[w] EXCEPT !.pc = "staleRead"]
    BY <1>9, BecomeAt DEF OccChangeAircraft, Goto
  <2>2. worker'[w].pc = "staleRead" /\ worker'[w].job = "none"
    BY <1>1, <1>2, <1>9, <2>1 DEF OccChangeAircraft, LocalState
  <2> QED BY <1>9, <2>2, SerialFrame DEF OccChangeAircraft, SerialWorkerInv, HookPending
<1>11. ASSUME IsIdle(w), Content' = Content, UNCHANGED <<fin, gd, ver, worker, history>>
       PROVE  SerialInv'
  BY <1>1, <1>2, <1>11, SerialFrame DEF SerialWorkerInv, HookPending, IsIdle
<1>12. ASSUME Unpublish(w) PROVE SerialInv'
  BY <1>11, <1>12 DEF Unpublish, Content
<1>13. ASSUME NEW c \in Crew, Respond(w, c) \/ LegacyAnswer(w, c) \/ Confirm(w, c)
       PROVE SerialInv'
  BY <1>11, <1>13, AnswerKeepsContent
<1>14. ASSUME NEW job \in Jobs \ {"none"}, StartGates(w, job),
              job = "download" => pub /\ fin /\ gd = "ready"
       PROVE  SerialInv'
  <2> DEFINE s == [Idle EXCEPT !.pc = "gateCrew", !.job = job, !.ver = ver,
                               !.doc = doc, !.seen.doc = doc]
  <2>1. worker'[w] = s
    BY <1>14, BecomeAt DEF StartGates
  <2>2. worker'[w].pc = "gateCrew" /\ worker'[w].job = job /\ worker'[w].seen.doc = doc
    BY <2>1 DEF Idle
  <2>3. Content' = Content
    BY <1>14 DEF StartGates, Content
  <2> QED BY <1>2, <1>14, <2>2, <2>3, SerialFrame DEF StartGates, SerialWorkerInv, HookPending
<1>15. ASSUME PublishRead(w) \/ FinalizeRead(w) \/ RegenerateRead(w) \/ DownloadRead(w)
       PROVE SerialInv'
  <2>1. fin /\ gd # "stale" => gd = "ready"
    BY DEF AnyInv, GdOnlyWhenFinalized, TypeOK
  <2> QED BY <1>14, <1>15, <2>1 DEF PublishRead, FinalizeRead, RegenerateRead, DownloadRead, Jobs
<1> QED BY <1>3, <1>4, <1>5, <1>6, <1>7, <1>8, <1>9, <1>12, <1>13, <1>15 DEF Request

LEMMA ContinueSerial ==
  ASSUME Serial, ~Faults, TypeOK, AnyInv, VersionInv, SerialInv, NEW w \in Workers, Continue(w)
  PROVE  SerialInv'
<1> USE DEF flightVars, history
<1>1. worker[w] \in LocalState /\ SerialWorkerInv(worker[w]) /\ AnyWorkerInv(worker[w])
  BY DEF TypeOK, SerialInv, AnyInv
<1>2. gd = "ready" => fin
  BY DEF AnyInv, GdOnlyWhenFinalized
\* Towards the hook: nothing is claimed of the content.
<1>3. ASSUME worker'[w].pc \in {"staleRead", "staleWrite"}, worker'[w].job = "none",
             UNCHANGED <<ver, history>>
      PROVE  SerialInv'
  BY <1>3, SerialFrame DEF SerialWorkerInv, HookPending
\* Back to idle: the content must be the approved one if the GD is ready.
<1>4. ASSUME worker'[w].pc = "idle", worker'[w].job = "none", UNCHANGED <<ver, history>>,
             gd' = "ready" => approved = Content'
      PROVE  SerialInv'
  BY <1>4, SerialFrame DEF SerialWorkerInv, HookPending
<1>5. Idle.pc = "idle" /\ Idle.job = "none" /\ \A p : /\ [Idle EXCEPT !.pc = p].pc = p
                                                      /\ [Idle EXCEPT !.pc = p].job = "none"
  BY DEF Idle
<1>6. CASE RemoveDelete(w)
  <2>1. [worker[w] EXCEPT !.pc = "staleRead"] \in LocalState
    BY <1>1 DEF LocalState, PCs
  <2>2. worker'[w] = [[worker[w] EXCEPT !.pc = "staleRead"] EXCEPT !.mine = @ \ worker[w].mine]
    BY <1>6, <2>1, DeleteRowsAt DEF RemoveDelete
  <2>3. worker[w].job = "none"
    BY <1>1, <1>6 DEF RemoveDelete, At, SerialWorkerInv
  <2>4. worker'[w].pc = "staleRead" /\ worker'[w].job = "none"
    BY <1>1, <2>2, <2>3 DEF LocalState
  <2> QED BY <1>3, <1>6, <2>4 DEF RemoveDelete
<1>7. CASE ReplaceDelete(w)
  <2>1. [worker[w] EXCEPT !.pc = "staleRead", !.todo = {}] \in LocalState
    BY <1>1 DEF LocalState, PCs
  <2>2. worker'[w] = [[worker[w] EXCEPT !.pc = "staleRead", !.todo = {}] EXCEPT
                        !.mine = @ \ (worker[w].todo \cap worker[w].mine)]
    BY <1>7, <2>1, DeleteRowsAt DEF ReplaceDelete
  <2>3. worker[w].job = "none"
    BY <1>1, <1>7 DEF ReplaceDelete, At, SerialWorkerInv
  <2>4. worker'[w].pc = "staleRead" /\ worker'[w].job = "none"
    BY <1>1, <2>2, <2>3 DEF LocalState
  <2> QED BY <1>3, <1>7, <2>4 DEF ReplaceDelete
\* Nothing rolls back: no call fails and nobody else takes a pair.
<1>8. ~ReplaceRollback(w) /\ ~DutyRolledBack(w) /\ (\A c \in Crew : ~DutyRollback(w, c)) /\ ~DutyFail(w)
  BY <1>1 DEF ReplaceRollback, DutyRolledBack, DutyRollback, DutyFail, At, SerialWorkerInv
<1>9. ASSUME NEW c \in Crew, DutyInsert(w, c) PROVE SerialInv'
  <2>1. worker'[w] = [worker[w] EXCEPT !.todo = @ \ {c}, !.mine = @ \cup {c}, !.dirty = TRUE]
    BY <1>9, BecomeAt DEF DutyInsert
  <2>2. worker[w].job = "none" /\ \A x \in worker[w].todo : ~Present(roster[x])
    BY <1>1, <1>9 DEF DutyInsert, At, SerialWorkerInv
  <2>3. /\ worker'[w].pc = "dutyInsert" /\ worker'[w].job = "none" /\ worker'[w].dirty
        /\ worker'[w].todo = worker[w].todo \ {c}
    BY <1>1, <1>9, <2>1, <2>2 DEF LocalState, DutyInsert, At
  <2>4. \A x \in worker'[w].todo : roster'[x] = roster[x]
    BY <1>1, <1>9, <2>3 DEF DutyInsert, InsertRow, TypeOK, LocalState
  <2>5. \A x \in worker'[w].todo : ~Present(roster'[x])
    BY <2>2, <2>3, <2>4
  <2> QED BY <1>9, <2>3, <2>5, SerialFrame DEF DutyInsert, SerialWorkerInv, HookPending
<1>10. CASE DutyDone(w)
  <2>1. CASE worker[w].dirty
    <3>1. worker'[w] = [Idle EXCEPT !.pc = "staleRead"]
      BY <1>10, <2>1, BecomeAt DEF DutyDone
    <3> QED BY <1>3, <1>5, <1>10, <3>1 DEF DutyDone
  <2>2. CASE ~worker[w].dirty
    <3>1. worker'[w] = Idle
      BY <1>10, <2>2, BecomeAt DEF DutyDone, Finish
    <3>2. (gd = "ready" => approved = Content) /\ Content' = Content
      BY <1>1, <1>10, <2>2 DEF DutyDone, At, SerialWorkerInv, HookPending, Content
    <3> QED BY <1>4, <1>5, <1>10, <3>1, <3>2 DEF DutyDone
  <2> QED BY <2>1, <2>2
<1>11. CASE DeleteCrewWrite(w)
  <2>1. CASE worker[w].dirty
    <3>1. [Idle EXCEPT !.pc = "staleRead"] \in LocalState
      BY IdleType DEF LocalState, PCs
    <3>2. worker'[w] = [[Idle EXCEPT !.pc = "staleRead"] EXCEPT !.mine = @ \ worker[w].todo]
      BY <1>11, <2>1, <3>1, DeleteRowsAt DEF DeleteCrewWrite
    <3>3. worker'[w].pc = "staleRead" /\ worker'[w].job = "none"
      BY <3>2 DEF Idle
    <3> QED BY <1>3, <1>11, <3>3 DEF DeleteCrewWrite
  <2>2. CASE ~worker[w].dirty
    <3>1. worker'[w] = [Idle EXCEPT !.mine = @ \ worker[w].todo]
      BY <1>11, <2>2, IdleType, DeleteRowsAt DEF DeleteCrewWrite
    <3>2. worker'[w].pc = "idle" /\ worker'[w].job = "none"
      BY <3>1 DEF Idle
    <3>3. gd = "ready" => approved = Content /\ \A c \in worker[w].todo : ~Present(roster[c])
      BY <1>1, <1>2, <1>11, <2>2 DEF DeleteCrewWrite, At, SerialWorkerInv, HookPending
    <3>4. (\A c \in worker[w].todo : ~Present(roster[c])) => Duty(roster)' = Duty(roster)
      BY <1>11 DEF DeleteCrewWrite, DeleteRows, Duty, Present, NoRow
    <3>5. gd' = "ready" => approved = Content'
      BY <1>11, <3>3, <3>4 DEF DeleteCrewWrite, Content
    <3> QED BY <1>4, <1>11, <3>2, <3>5 DEF DeleteCrewWrite
  <2> QED BY <2>1, <2>2
<1>12. CASE UpdateFlightWrite(w)
  <2>1. CASE worker[w].dirty
    <3>1. worker'[w] = [Idle EXCEPT !.pc = "staleRead"]
      BY <1>12, <2>1, BecomeAt DEF UpdateFlightWrite
    <3> QED BY <1>3, <1>5, <1>12, <3>1 DEF UpdateFlightWrite
  <2>2. CASE ~worker[w].dirty
    <3>1. worker'[w] = Idle
      BY <1>12, <2>2, BecomeAt DEF UpdateFlightWrite, Finish
    <3>2. gd = "ready" => approved = Content /\ worker[w].doc = doc
      BY <1>1, <1>2, <1>12, <2>2 DEF UpdateFlightWrite, At, SerialWorkerInv, HookPending
    <3>3. gd' = "ready" => approved = Content'
      BY <1>12, <3>2 DEF UpdateFlightWrite, Content
    <3> QED BY <1>4, <1>5, <1>12, <3>1, <3>3 DEF UpdateFlightWrite
  <2> QED BY <2>1, <2>2
<1>13. CASE MarkStaleRead(w)
  <2>1. CASE fin /\ gd # "stale"
    <3>1. worker'[w] = [Idle EXCEPT !.pc = "staleWrite"]
      BY <1>13, <2>1, BecomeAt DEF MarkStaleRead
    <3> QED BY <1>3, <1>5, <1>13, <3>1 DEF MarkStaleRead
  <2>2. CASE ~(fin /\ gd # "stale")
    <3>1. worker'[w] = Idle
      BY <1>13, <2>2, BecomeAt DEF MarkStaleRead, Finish
    <3>2. gd' # "ready"
      BY <1>2, <1>13, <2>2 DEF MarkStaleRead
    <3> QED BY <1>4, <1>5, <1>13, <3>1, <3>2 DEF MarkStaleRead
  <2> QED BY <2>1, <2>2
<1>14. CASE MarkStaleWrite(w)
  <2>1. worker'[w] = Idle
    BY <1>14, BecomeAt DEF MarkStaleWrite, Finish
  <2> QED BY <1>4, <1>5, <1>14, <2>1 DEF MarkStaleWrite
<1>15. CASE PublishWrite(w)
  <2>1. worker'[w] = Idle
    BY <1>15, BecomeAt DEF PublishWrite, Finish
  <2>2. (gd = "ready" => approved = Content) /\ Content' = Content
    BY <1>1, <1>15 DEF PublishWrite, At, SerialWorkerInv, HookPending, Content
  <2> QED BY <1>4, <1>5, <1>15, <2>1, <2>2 DEF PublishWrite
<1>16. CASE GateCrew(w)
  <2>1. (gd = "ready" => approved = Content) /\ Content' = Content
    BY <1>1, <1>16 DEF GateCrew, At, SerialWorkerInv, HookPending, Content
  <2>2. CASE MinCrewMet
    <3> DEFINE p == IF worker[w].job = "publish" THEN "publishWrite" ELSE "gateAccept"
    <3>1. worker'[w] = [worker[w] EXCEPT !.pc = p]
      BY <1>16, <2>2, BecomeAt DEF GateCrew, Goto
    <3>2. /\ worker'[w].pc = p /\ worker'[w].job = worker[w].job
          /\ worker'[w].seen = worker[w].seen
      BY <1>1, <3>1 DEF LocalState
    <3>3. MinCrewMet'
      BY <1>16, <2>2 DEF GateCrew, MinCrewMet, Operating
    <3> QED BY <1>1, <1>16, <2>1, <3>2, <3>3, SerialFrame
            DEF GateCrew, At, SerialWorkerInv, HookPending
  <2>3. CASE ~MinCrewMet
    <3>1. worker'[w] = Idle
      BY <1>16, <2>3, BecomeAt DEF GateCrew, Finish
    <3> QED BY <1>4, <1>5, <1>16, <2>1, <3>1 DEF GateCrew
  <2> QED BY <2>2, <2>3
<1>17. CASE GateAccept(w)
  <2>1. (gd = "ready" => approved = Content) /\ Content' = Content
    BY <1>1, <1>17 DEF GateAccept, At, SerialWorkerInv, HookPending, Content
  <2>2. CASE AllAccepted
    <3> DEFINE p == IF worker[w].job = "download" THEN "logDownload" ELSE "approveWrite"
    <3>1. worker'[w] = [worker[w] EXCEPT !.pc = p, !.seen.crew = Duty(roster)]
      BY <1>17, <2>2, BecomeAt DEF GateAccept
    <3>2. /\ worker'[w].pc = p /\ worker'[w].job = worker[w].job
          /\ worker'[w].seen = [crew |-> Duty(roster), doc |-> worker[w].seen.doc]
      BY <1>1, <3>1 DEF LocalState, Contents
    <3>3. worker'[w].seen = Content
      BY <1>1, <1>17, <3>2 DEF GateAccept, At, SerialWorkerInv, Content
    <3>4. worker[w].job # "none"
      BY <1>1, <1>17 DEF GateAccept, At, SerialWorkerInv
    <3>5. MinCrewMet' /\ AllAccepted'
      BY <1>1, <1>17, <2>2 DEF GateAccept, At, SerialWorkerInv, MinCrewMet, Operating, AllAccepted
    <3> QED BY <1>1, <1>17, <2>1, <3>2, <3>3, <3>4, <3>5, SerialFrame
            DEF GateAccept, At, SerialWorkerInv, HookPending
  <2>3. CASE ~AllAccepted
    <3>1. worker'[w] = Idle
      BY <1>17, <2>3, BecomeAt DEF GateAccept, Finish
    <3> QED BY <1>4, <1>5, <1>17, <2>1, <3>1 DEF GateAccept
  <2> QED BY <2>2, <2>3
\* A new version: every recorded download carries an older one.
<1>18. CASE ApproveWrite(w)
  <2>1. worker'[w] = Idle
    BY <1>18, BecomeAt DEF ApproveWrite, Finish
  <2>2. approved' = Content' /\ issued' = issued
    BY <1>1, <1>18 DEF ApproveWrite, At, SerialWorkerInv, Content
  <2>3. worker[w].job # "none"
    BY <1>1, <1>18 DEF ApproveWrite, At, SerialWorkerInv
  <2>4. ver' = ver + 1
    BY <1>18, <2>3 DEF ApproveWrite, VersionInv
  <2>5. \A i \in issued : i.ver \in Nat /\ i.ver <= ver
    BY DEF TypeOK, SerialInv
  <2>6. \A i \in issued' : i.ver <= ver' /\ i.ver # ver'
    BY <2>2, <2>4, <2>5 DEF TypeOK
  <2>7. SerialWorkerInv(worker[w])'
    BY <1>5, <2>1, <2>2 DEF SerialWorkerInv, HookPending
  <2> QED BY <2>2, <2>6, <2>7 DEF SerialInv, OneContentPerVersion, Serial
\* A download under the current version is of the approved content.
<1>19. CASE LogDownload(w)
  <2>1. worker'[w] = Idle
    BY <1>19, BecomeAt DEF LogDownload, Finish
  <2>2. worker[w].job = "download" /\ worker[w].seen = Content
    BY <1>1, <1>19 DEF LogDownload, At, AnyWorkerInv, SerialWorkerInv
  <2>3. approved = Content
    BY <1>1, <1>19, <2>2 DEF LogDownload, At, SerialWorkerInv, HookPending
  <2>4. worker[w].ver = ver
    BY <2>2 DEF VersionInv
  <2>5. issued' = issued \cup {[ver |-> ver, content |-> approved]}
    BY <1>19, <2>2, <2>3, <2>4 DEF LogDownload
  <2>6. \A i \in issued' : i.ver <= ver /\ (i.ver = ver => i.content = approved)
    BY <2>5 DEF SerialInv, TypeOK
  <2>7. OneContentPerVersion'
    BY <2>5 DEF SerialInv, OneContentPerVersion
  <2>8. SerialWorkerInv(worker[w])'
    BY <1>5, <1>19, <2>1, <2>3 DEF SerialWorkerInv, HookPending, LogDownload, Content
  <2> QED BY <1>19, <2>6, <2>7, <2>8 DEF SerialInv, Serial, LogDownload
<1> QED BY <1>6, <1>7, <1>8, <1>9, <1>10, <1>11, <1>12, <1>13, <1>14, <1>15, <1>16, <1>17,
           <1>18, <1>19 DEF Continue

LEMMA SerialInvariant == ASSUME Serial, ~Faults PROVE Spec => []SerialInv
<1>1. Init => SerialInv
  BY DEF Init, SerialInv, SerialWorkerInv, HookPending, Idle, OneContentPerVersion
<1>2. TypeOK /\ AnyInv /\ VersionInv /\ SerialInv /\ [Next]_vars => SerialInv'
  <2>1. \A w \in Workers : ~Fault(w)
    BY DEF Fault, ReplaceFail, DutyRollbackSkip, Crash
  <2>2. TypeOK /\ AnyInv /\ VersionInv /\ SerialInv /\ Next => SerialInv'
    BY <2>1, RequestSerial, ContinueSerial DEF Next
  <2>3. SerialInv /\ UNCHANGED vars => SerialInv'
    <3>1. ASSUME UNCHANGED vars
          PROVE  Content' = Content /\ (MinCrewMet => MinCrewMet') /\ (AllAccepted => AllAccepted')
      <4>1. roster' = roster /\ doc' = doc
        BY <3>1 DEF vars, flightVars
      <4>2. Content' = Content
        BY <4>1 DEF Content
      <4>3. Operating' = Operating
        BY <4>1 DEF Operating
      <4>4. MinCrewMet => MinCrewMet'
        BY <4>3 DEF MinCrewMet
      <4>5. AllAccepted => AllAccepted'
        BY <4>1 DEF AllAccepted
      <4> QED BY <4>2, <4>4, <4>5
    <3> QED BY <3>1 DEF SerialInv, SerialWorkerInv, HookPending, OneContentPerVersion,
                        vars, flightVars, history
  <2> QED BY <2>2, <2>3
<1> QED BY <1>1, <1>2, TypeCorrect, AnyInvariant, VersionInvariant, PTL DEF Spec

\* The stale rule, for every roster: with handlers one at a time and no failed
\* call, a GD offered as ready states exactly what was approved.
THEOREM ReadyGdIsApproved == ASSUME Serial, ~Faults, Workers # {} PROVE Spec => []GDFresh
<1>1. SerialInv => GDFresh
  BY DEF SerialInv, SerialWorkerInv, HookPending, GDFresh, IsIdle
<1> QED BY <1>1, SerialInvariant, PTL

\* Under the same hypotheses the paper trail is consistent: one GD version
\* never names two different documents.
THEOREM VersionsNameOneDocument == ASSUME Serial, ~Faults PROVE Spec => []OneContentPerVersion
<1>1. SerialInv => OneContentPerVersion
  BY DEF SerialInv
<1> QED BY <1>1, SerialInvariant, PTL
\* Every call but four leaves the approvals and the downloads alone, and
\* publishes nothing.
LEMMA QuietStep ==
  ASSUME NEW w \in Workers, Request(w) \/ Continue(w) \/ Fault(w),
         ~PublishWrite(w), ~ApproveWrite(w), ~LogDownload(w), ~MarkStaleWrite(w)
  PROVE  (pub' => pub) /\ UNCHANGED <<gd, ver, approved, approvals, issued>>
<1> USE DEF flightVars, history
<1> DEFINE Kept == (pub' => pub) /\ UNCHANGED <<gd, ver, approved, approvals, issued>>
<1>1. CASE Request(w)
  <2>1. ASSUME NEW c \in Crew, NEW d \in Duties, AssignCrew(w, c, d) PROVE Kept
    BY <2>1 DEF AssignCrew
  <2>2. ASSUME NEW c \in Crew, RemoveRead(w, c) \/ DeleteCrewRead(w, c) PROVE Kept
    BY <2>2 DEF RemoveRead, DeleteCrewRead
  <2>3. ASSUME NEW old \in Crew, NEW new \in Crew, ReplaceInsert(w, old, new) PROVE Kept
    BY <2>3 DEF ReplaceInsert
  <2>4. ASSUME NEW C \in SUBSET Crew, NEW elsewhere \in BOOLEAN, DutyRead(w, C, elsewhere)
        PROVE Kept
    BY <2>4 DEF DutyRead
  <2>5. ASSUME NEW d \in Docs, UpdateFlightRead(w, d) \/ OccChangeAircraft(w, d) PROVE Kept
    BY <2>5 DEF UpdateFlightRead, OccChangeAircraft
  <2>6. CASE Unpublish(w)
    BY <2>6 DEF Unpublish
  <2>7. ASSUME NEW c \in Crew, Respond(w, c) \/ LegacyAnswer(w, c) \/ Confirm(w, c) PROVE Kept
    BY <2>7 DEF Respond, LegacyAnswer, Confirm, Answer
  <2>8. CASE PublishRead(w) \/ FinalizeRead(w) \/ RegenerateRead(w) \/ DownloadRead(w)
    BY <2>8 DEF PublishRead, FinalizeRead, RegenerateRead, DownloadRead, StartGates
  <2> QED BY <1>1, <2>1, <2>2, <2>3, <2>4, <2>5, <2>6, <2>7, <2>8 DEF Request
<1>2. CASE Continue(w)
  <2>1. CASE RemoveDelete(w) \/ ReplaceDelete(w) \/ ReplaceRollback(w)
    BY <2>1 DEF RemoveDelete, ReplaceDelete, ReplaceRollback
  <2>2. ASSUME NEW c \in Crew, DutyInsert(w, c) \/ DutyRollback(w, c) PROVE Kept
    BY <2>2 DEF DutyInsert, DutyRollback
  <2>3. CASE DutyFail(w) \/ DutyRolledBack(w) \/ DutyDone(w)
    BY <2>3 DEF DutyFail, DutyRolledBack, DutyDone
  <2>4. CASE DeleteCrewWrite(w) \/ UpdateFlightWrite(w) \/ MarkStaleRead(w)
    BY <2>4 DEF DeleteCrewWrite, UpdateFlightWrite, MarkStaleRead
  <2>5. CASE GateCrew(w) \/ GateAccept(w)
    BY <2>5 DEF GateCrew, GateAccept
  <2> QED BY <1>2, <2>1, <2>2, <2>3, <2>4, <2>5 DEF Continue
<1>3. CASE Fault(w)
  <2>1. ASSUME NEW c \in Crew, DutyRollbackSkip(w, c) PROVE Kept
    BY <2>1 DEF DutyRollbackSkip
  <2>2. CASE ReplaceFail(w) \/ Crash(w)
    BY <2>2 DEF ReplaceFail, Crash
  <2> QED BY <1>3, <2>1, <2>2 DEF Fault
<1> QED BY <1>1, <1>2, <1>3

\* One step of a serial system: what the deciding writes find.
LEMMA DecisionStep ==
  ASSUME Serial, TypeOK, AnyInv, SerialInv, [Next]_vars
  PROVE  /\ ~pub /\ pub' => doc # NoReg /\ MinCrewMet
         /\ approvals' # approvals => doc # NoReg /\ MinCrewMet /\ AllAccepted
         /\ issued' # issued => /\ pub /\ fin /\ gd = "ready"
                                /\ MinCrewMet /\ AllAccepted
<1> USE DEF flightVars, history
<1>1. CASE UNCHANGED vars
  BY <1>1 DEF vars
<1>2. ASSUME NEW w \in Workers, Request(w) \/ Continue(w) \/ Fault(w),
             ~PublishWrite(w), ~ApproveWrite(w), ~LogDownload(w), ~MarkStaleWrite(w)
      PROVE  (pub' => pub) /\ UNCHANGED <<approvals, issued>>
  BY <1>2, QuietStep
<1>3. ASSUME NEW w \in Workers PROVE SerialWorkerInv(worker[w]) /\ AnyWorkerInv(worker[w])
  BY DEF SerialInv, AnyInv
<1>4. ASSUME NEW w \in Workers, PublishWrite(w)
      PROVE  doc # NoReg /\ MinCrewMet /\ UNCHANGED <<approvals, issued>>
  BY <1>3, <1>4 DEF PublishWrite, At, SerialWorkerInv
<1>5. ASSUME NEW w \in Workers, ApproveWrite(w)
      PROVE  doc # NoReg /\ MinCrewMet /\ AllAccepted /\ UNCHANGED <<pub, issued>>
  BY <1>3, <1>5 DEF ApproveWrite, At, SerialWorkerInv
<1>6. ASSUME NEW w \in Workers, LogDownload(w)
      PROVE  /\ pub /\ fin /\ gd = "ready" /\ MinCrewMet /\ AllAccepted
             /\ UNCHANGED <<pub, approvals>>
  <2>1. worker[w].job = "download"
    BY <1>3, <1>6 DEF LogDownload, At, AnyWorkerInv
  <2> QED BY <1>3, <1>6, <2>1 DEF LogDownload, At, SerialWorkerInv
<1>7. ASSUME NEW w \in Workers, MarkStaleWrite(w)
      PROVE  UNCHANGED <<pub, approvals, issued>>
  BY <1>7 DEF MarkStaleWrite
<1> QED BY <1>1, <1>2, <1>4, <1>5, <1>6, <1>7 DEF Next

\* With handlers one at a time, what a gate has read still holds when the
\* handler acts on it: publications and approvals are cleared.
THEOREM DecisionsAreCleared == ASSUME Serial, ~Faults PROVE Spec => DecisionsCleared
<1>1. TypeOK /\ AnyInv /\ SerialInv /\ [Next]_vars =>
        [/\ ~pub /\ pub' => doc # NoReg /\ MinCrewMet
         /\ approvals' # approvals => doc # NoReg /\ MinCrewMet /\ AllAccepted]_vars
  BY DecisionStep
<1> QED BY <1>1, TypeCorrect, AnyInvariant, SerialInvariant, PTL
        DEF Spec, DecisionsCleared

\* So are the downloads of the GD.
THEOREM DownloadsAreCleared == ASSUME Serial, ~Faults PROVE Spec => DownloadCleared
<1>1. TypeOK /\ AnyInv /\ SerialInv /\ [Next]_vars =>
        [issued' # issued => /\ pub /\ fin /\ gd = "ready"
                             /\ MinCrewMet /\ AllAccepted]_vars
  BY DecisionStep
<1> QED BY <1>1, TypeCorrect, AnyInvariant, SerialInvariant, PTL
        DEF Spec, DownloadCleared

----------------------------------------------------------------------------
(* Refinement of OfficialGd.                                               *)

LEMMA OfficialStep ==
  ASSUME Serial, ~Faults, TypeOK, AnyInv, VersionInv, SerialInv, [Next]_vars
  PROVE  [Official!Next]_(Official!vars)
<1> USE DEF flightVars, history
<1>1. CASE UNCHANGED vars
  BY <1>1 DEF vars, Official!vars
<1>2. ASSUME NEW w \in Workers, Request(w) \/ Continue(w) \/ Fault(w),
             ~PublishWrite(w), ~ApproveWrite(w), ~LogDownload(w), ~MarkStaleWrite(w)
      PROVE  UNCHANGED Official!vars
  BY <1>2, QuietStep DEF Official!vars
<1>3. ASSUME NEW w \in Workers, PublishWrite(w) PROVE UNCHANGED Official!vars
  BY <1>3 DEF PublishWrite, Official!vars
<1>4. ASSUME NEW w \in Workers, MarkStaleWrite(w) PROVE Official!Withdraw \/ UNCHANGED Official!vars
  BY <1>4 DEF MarkStaleWrite, Official!Withdraw, Official!vars
<1>5. ASSUME NEW w \in Workers PROVE SerialWorkerInv(worker[w]) /\ AnyWorkerInv(worker[w])
  BY DEF SerialInv, AnyInv
<1>6. ASSUME NEW w \in Workers, ApproveWrite(w) PROVE \E c \in Contents : Official!Approve(c)
  <2>1. worker[w].job # "none"
    BY <1>5, <1>6 DEF ApproveWrite, At, SerialWorkerInv
  <2>2. ver' = ver + 1
    BY <1>6, <2>1 DEF ApproveWrite, VersionInv
  <2>3. worker[w].seen \in Contents
    BY DEF TypeOK, LocalState
  <2> QED BY <1>6, <2>2, <2>3 DEF ApproveWrite, Official!Approve
<1>7. ASSUME NEW w \in Workers, LogDownload(w) PROVE Official!Issue
  <2>1. worker[w].job = "download"
    BY <1>5, <1>7 DEF LogDownload, At, AnyWorkerInv
  <2>2. gd = "ready" /\ approved = Content /\ worker[w].seen = Content
    BY <1>5, <1>7, <2>1 DEF LogDownload, At, SerialWorkerInv, HookPending
  <2>3. worker[w].ver = ver
    BY <2>1 DEF VersionInv
  <2> QED BY <1>7, <2>2, <2>3 DEF LogDownload, Official!Issue
<1> QED BY <1>1, <1>2, <1>3, <1>4, <1>6, <1>7 DEF Next, Official!Next

\* With handlers one at a time and no failed call, the flight's approvals and
\* downloads are a series of numbered official documents: an issued document
\* is always the current one, under its own number, while on offer.
THEOREM GdIsOfficial == ASSUME Serial, ~Faults PROVE Spec => ImplementsOfficialGd
<1>1. Init => Official!Init
  BY IdleType DEF Init, Official!Init, LocalState
<1>2. TypeOK /\ AnyInv /\ VersionInv /\ SerialInv /\ [Next]_vars => [Official!Next]_(Official!vars)
  BY OfficialStep
<1> QED BY <1>1, <1>2, TypeCorrect, AnyInvariant, VersionInvariant, SerialInvariant, PTL
        DEF Spec, ImplementsOfficialGd, Official!Spec
=============================================================================
