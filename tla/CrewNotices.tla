----------------------------- MODULE CrewNotices -----------------------------
(***************************************************************************)
(* What the crew of one flight are told about their duty on it, against    *)
(* what their portal shows: a member sees a flight once it is published,   *)
(* if rostered.  The notices are sent by six handlers after the write they *)
(* tell of.  Workers are as in module Gendec: each action is one call      *)
(* others can observe, with the reads before it that only refuse.          *)
(* Removed members are told whether or not they could see the flight.      *)
(* A notice may fail, which most handlers catch and log, and a handler may *)
(* be killed before it.  Where a member is so left untold, or by design,   *)
(* the history variable lapse says so of him until he is next told; each   *)
(* property names the lapses it excepts.                                   *)
(***************************************************************************)
EXTENDS Naturals, FiniteSets

CONSTANTS
  Crew,
  Workers

VARIABLES
  on,       \* members with an operating row on the flight
  pub,      \* publish_status = 'published'
  told,     \* what each member was last told: that he is on the flight or is not
  worker,   \* what each worker is executing
  lapse     \* history: for each member, what has kept a notice from him since he
            \* was last told anything, or made one premature

vars == <<on, pub, told, worker, lapse>>

Told == {"never", "on", "off"}

\* duty: put on the published flight by a connected duty.  draft: told of it as a
\* draft, by the approval of its roster.  audit, allocators: that call of
\* (un)publish raised.  untold: the notice failed, was not asked for or its handler
\* was killed.
Lapses == {"duty", "draft", "audit", "allocators", "untold"}

LocalState == [pc   : {"idle", "assignTell", "removeTell", "replaceDelete",
                       "replaceTellOld", "replaceTellNew",
                       "publishAudit", "publishAllocators", "publishCrew", "publishTell",
                       "unpublishAudit", "unpublishTell", "finalizeTell"},
               old  : SUBSET Crew,
               new  : SUBSET Crew,     \* members still to be told
               live : BOOLEAN]         \* the flight was read as published

Idle == [pc |-> "idle", old |-> {}, new |-> {}, live |-> FALSE]

At(w, pc)    == worker[w].pc = pc
Become(w, s) == worker' = [worker EXCEPT ![w] = s]
Goto(w, pc)  == Become(w, [worker[w] EXCEPT !.pc = pc])
Finish(w)    == Become(w, Idle)

\* They are told; why is what is to be said of it.
Tell(C, what, why) ==
  /\ told'  = [c \in Crew |-> IF c \in C THEN what ELSE told[c]]
  /\ lapse' = [c \in Crew |-> IF c \in C THEN why ELSE lapse[c]]

\* They are not told, although the handler should.
Lose(C, why) ==
  /\ lapse' = [c \in Crew |-> IF c \in C THEN lapse[c] \cup {why} ELSE lapse[c]]
  /\ UNCHANGED told

\* "Best-effort": a notice that fails is logged.
Try(C, what) == Tell(C, what, {}) \/ Lose(C, "untold")

\* This call of the handler raises and ends it, before anyone rostered is told.
Raise(w, call) == Finish(w) /\ Lose(on, call)

\* Whom a handler that has read the flight as published tells that they are on it.
Newcomers(w) == IF worker[w].live THEN worker[w].new ELSE {}

Visible(c) == c \in on /\ pub

----------------------------------------------------------------------------
(* Roster changes.                                                         *)

Assign(w, c) ==
  /\ At(w, "idle")
  /\ c \notin on
  /\ on' = on \cup {c}
  /\ Become(w, [Idle EXCEPT !.pc = "assignTell", !.new = {c}, !.live = pub])
  /\ UNCHANGED <<pub, told, lapse>>

\* Mutant: drafts are announced too.
AssignTellDraft(w) ==
  /\ At(w, "assignTell")
  /\ Tell(worker[w].new, "on", {})
  /\ Finish(w)
  /\ UNCHANGED <<on, pub>>

\* "ONLY when the flight is already published", as it was read.
AssignTell(w) ==
  /\ At(w, "assignTell")
  /\ Try(Newcomers(w), "on")
  /\ Finish(w)
  /\ UNCHANGED <<on, pub>>

\* POST /connected-duty tells nobody.
AssignDuty(w, C) ==
  /\ At(w, "idle")
  /\ on' = on \cup C
  /\ Lose(IF pub THEN C \ on ELSE {}, "duty")
  /\ UNCHANGED <<pub, worker>>

Remove(w, c) ==
  /\ At(w, "idle")
  /\ c \in on
  /\ on' = on \ {c}
  /\ Become(w, [Idle EXCEPT !.pc = "removeTell", !.old = {c}])
  /\ UNCHANGED <<pub, told, lapse>>

RemoveTell(w) ==
  /\ At(w, "removeTell")
  /\ Try(worker[w].old, "off")
  /\ Finish(w)
  /\ UNCHANGED <<on, pub>>

\* POST /replace: the replacement comes, the other leaves ...
Replace(w, old, new) ==
  /\ At(w, "idle")
  /\ old \in on /\ new \notin on
  /\ on' = on \cup {new}
  /\ Become(w, [pc |-> "replaceDelete", old |-> {old}, new |-> {new}, live |-> pub])
  /\ UNCHANGED <<pub, told, lapse>>

ReplaceDelete(w) ==
  /\ At(w, "replaceDelete")
  /\ on' = on \ worker[w].old
  /\ Goto(w, "replaceTellOld")
  /\ UNCHANGED <<pub, told, lapse>>

\* ... nobody is told if the request says so ...
ReplaceSilently(w) ==
  /\ At(w, "replaceDelete")
  /\ on' = on \ worker[w].old
  /\ Lose(worker[w].old \cup Newcomers(w), "untold")
  /\ Finish(w)
  /\ UNCHANGED pub

\* ... and if the deletion fails the replacement goes again, unless that fails too.
ReplaceRollback(w) ==
  /\ At(w, "replaceDelete")
  /\ \/ on' = on \ worker[w].new /\ UNCHANGED <<told, lapse>>
     \/ on' = on /\ Lose(Newcomers(w), "untold")
  /\ Finish(w)
  /\ UNCHANGED pub

\* The one is told in any case, the other if the flight was read as published.
ReplaceTellOld(w) ==
  /\ At(w, "replaceTellOld")
  /\ Try(worker[w].old, "off")
  /\ Goto(w, "replaceTellNew")
  /\ UNCHANGED <<on, pub>>

ReplaceTellNew(w) ==
  /\ At(w, "replaceTellNew")
  /\ Try(Newcomers(w), "on")
  /\ Finish(w)
  /\ UNCHANGED <<on, pub>>

----------------------------------------------------------------------------
(* Publication.                                                            *)

Publish(w) ==
  /\ At(w, "idle")
  /\ ~pub
  /\ pub' = TRUE
  /\ Become(w, [Idle EXCEPT !.pc = "publishAudit"])
  /\ UNCHANGED <<on, told, lapse>>

\* The audit row.  If it raises so does the except branch: publish_flight assigns
\* log further down, so log has no value here; unpublish_flight has no log at all.
PublishAudit(w) ==
  /\ At(w, "publishAudit")
  /\ \/ Goto(w, "publishAllocators") /\ UNCHANGED <<told, lapse>>
     \/ Raise(w, "audit")
  /\ UNCHANGED <<on, pub>>

\* The notices to the allocators are not guarded.
PublishAllocators(w) ==
  /\ At(w, "publishAllocators")
  /\ \/ Goto(w, "publishCrew") /\ UNCHANGED <<told, lapse>>
     \/ Raise(w, "allocators")
  /\ UNCHANGED <<on, pub>>

\* Everyone rostered is read, and told one by one; nobody if the read fails.
PublishCrew(w) ==
  /\ At(w, "publishCrew")
  /\ \/ /\ Become(w, [worker[w] EXCEPT !.pc = "publishTell", !.new = on])
        /\ UNCHANGED <<told, lapse>>
     \/ Raise(w, "untold")
  /\ UNCHANGED <<on, pub>>

\* Mutant: the last one is forgotten.
PublishTellAllButOne(w) ==
  /\ At(w, "publishTell")
  /\ IF Cardinality(worker[w].new) <= 1 THEN Finish(w) /\ UNCHANGED <<told, lapse>>
     ELSE \E c \in worker[w].new :
            /\ Try({c}, "on")
            /\ Become(w, [worker[w] EXCEPT !.new = @ \ {c}])
  /\ UNCHANGED <<on, pub>>

PublishTell(w) ==
  /\ At(w, "publishTell")
  /\ IF worker[w].new = {} THEN Finish(w) /\ UNCHANGED <<told, lapse>>
     ELSE \E c \in worker[w].new :
            /\ Try({c}, "on")
            /\ Become(w, [worker[w] EXCEPT !.new = @ \ {c}])
  /\ UNCHANGED <<on, pub>>

Unpublish(w) ==
  /\ At(w, "idle")
  /\ pub
  /\ pub' = FALSE
  /\ Become(w, [Idle EXCEPT !.pc = "unpublishAudit"])
  /\ UNCHANGED <<on, told, lapse>>

UnpublishAudit(w) ==
  /\ At(w, "unpublishAudit")
  /\ \/ /\ Become(w, [worker[w] EXCEPT !.pc = "unpublishTell", !.new = on])
        /\ UNCHANGED <<told, lapse>>
     \/ Raise(w, "audit")
  /\ UNCHANGED <<on, pub>>

\* One insert for all of them.
UnpublishTell(w) ==
  /\ At(w, "unpublishTell")
  /\ Try(worker[w].new, "off")
  /\ Finish(w)
  /\ UNCHANGED <<on, pub>>

\* finalize_roster: the roster is read, less those the caller skips; the approval
\* is saved; they are told that they are assigned.  It does not ask whether the
\* flight is published.
Finalize(w, skip) ==
  /\ At(w, "idle")
  /\ Become(w, [Idle EXCEPT !.pc = "finalizeTell", !.new = on \ skip, !.live = pub])
  /\ UNCHANGED <<on, pub, told, lapse>>

\* If the insert raises so does the request.
FinalizeTell(w) ==
  /\ At(w, "finalizeTell")
  /\ \/ Tell(worker[w].new, "on", IF worker[w].live THEN {} ELSE {"draft"})
     \/ UNCHANGED <<told, lapse>>
  /\ Finish(w)
  /\ UNCHANGED <<on, pub>>

----------------------------------------------------------------------------
\* Whom the handler would still have told of a change it has made.
Waiting(w) ==
  CASE At(w, "removeTell") -> worker[w].old
    [] At(w, "replaceTellOld") -> worker[w].old \cup Newcomers(w)
    [] worker[w].pc \in {"assignTell", "replaceDelete", "replaceTellNew"} -> Newcomers(w)
    [] worker[w].pc \in {"publishAudit", "publishAllocators", "publishCrew",
                        "unpublishAudit"} -> on
    [] worker[w].pc \in {"publishTell", "unpublishTell"} -> worker[w].new
    [] OTHER -> {}

\* The instance is killed, between any two calls.
Killed(w) ==
  /\ ~At(w, "idle")
  /\ Lose(Waiting(w), "untold")
  /\ Finish(w)
  /\ UNCHANGED <<on, pub>>

----------------------------------------------------------------------------
Init ==
  /\ on = {}
  /\ pub = FALSE
  /\ told = [c \in Crew |-> "never"]
  /\ worker = [w \in Workers |-> Idle]
  /\ lapse = [c \in Crew |-> {}]

Handler(w) ==
  \/ \E c \in Crew : Assign(w, c) \/ Remove(w, c)
  \/ \E C \in SUBSET Crew : AssignDuty(w, C) \/ Finalize(w, C)
  \/ \E old, new \in Crew : Replace(w, old, new)
  \/ AssignTell(w) \/ RemoveTell(w)
  \/ ReplaceDelete(w) \/ ReplaceSilently(w) \/ ReplaceRollback(w)
  \/ ReplaceTellOld(w) \/ ReplaceTellNew(w)
  \/ Publish(w) \/ PublishAudit(w) \/ PublishAllocators(w) \/ PublishCrew(w) \/ PublishTell(w)
  \/ Unpublish(w) \/ UnpublishAudit(w) \/ UnpublishTell(w)
  \/ FinalizeTell(w) \/ Killed(w)

Next == \E w \in Workers : Handler(w)

Spec == Init /\ [][Next]_vars
----------------------------------------------------------------------------
(* Properties.                                                             *)

TypeOK ==
  /\ on \subseteq Crew
  /\ pub \in BOOLEAN
  /\ told \in [Crew -> Told]
  /\ worker \in [Workers -> LocalState]
  /\ lapse \in [Crew -> SUBSET Lapses]

AllIdle == \A w \in Workers : At(w, "idle")

\* A member who sees the flight in the portal has been told that he is on it, unless
\* one of these lapses is his.
Knows(c, lapses) == (Visible(c) /\ lapse[c] \subseteq lapses) => told[c] = "on"

\* "Notify every crew member rostered on this flight": when no request is running
\* everyone knows, however he came to be rostered and the flight to be published,
\* unless by a connected duty, a publication cut short or the loss of the very
\* notice; another member's lapse excuses nothing, nor does one before a later notice.
VisibleIsAnnounced == AllIdle => \A c \in Crew : Knows(c, {"draft"})

\* "it must never vanish silently", "removal must [notify] too, otherwise crew
\* keep a stale duty": nobody is left thinking that he flies, unless he was told of
\* a draft, the withdrawal was cut short or its notice to him was lost.
WithdrawnIsAnnounced ==
  AllIdle => \A c \in Crew :
               (told[c] = "on" /\ lapse[c] \subseteq {"duty", "allocators"}) => Visible(c)

\* "assigning to a DRAFT flight stays silent", "crew are notified when the roster
\* is PUBLISHED": nobody is told of a duty he cannot see, whatever fails, but by the
\* approval of the draft.
DraftStaysSilent ==
  [][\A c \in Crew : told[c] # "on" /\ told'[c] = "on" /\ "draft" \notin lapse'[c]
                     => Visible(c)]_vars

\* The audit row is best effort (try ... except, log a warning): that it cannot
\* be written keeps no notice from the crew.
AuditIsBestEffort == AllIdle => \A c \in Crew : Knows(c, {"audit"})
=============================================================================
