----------------------------- MODULE Reminders -----------------------------
(***************************************************************************)
(* The pending-acceptance reminders of one flight: the sweep of            *)
(* _scan_company_acceptance_reminders, run by the daily cron and by hand.  *)
(* There is no table of its own: what was sent before is read from the     *)
(* notifications, from which everyone may delete his own, so a sweep is    *)
(* one read followed by one insert per reminder.                           *)
(*                                                                         *)
(* Time is counted in steps of some hours and a step is an interval: two   *)
(* instants one cooldown apart may be a little less or a little more than  *)
(* the cooldown apart, so there the dedupe may go either way.  A sweep     *)
(* takes seconds: the clock stands while one runs.                         *)
(***************************************************************************)
EXTENDS Integers, FiniteSets

CONSTANTS
  Members,          \* operating crew of the flight
  Ops,              \* stands for the schedulers and ops managers
  Workers,
  Horizon,          \* _ACCEPT_REMIND_GENTLE_HOURS, also the lookback
  Urgent,           \* _ACCEPT_REMIND_URGENT_HOURS
  Cooldown,         \* _ACCEPT_REMIND_COOLDOWN_HOURS
  FollowCooldown,   \* _ACCEPT_FOLLOWUP_COOLDOWN_HOURS
  Day,              \* period of the cron
  Delays,           \* how much a delay may add to the departure time
  Faults,           \* BOOLEAN: a sweep may be cut off
  MaxTime           \* bound of the clock

\* Assumed of the constants by Records, which gives them values.
OpsAssumption  == Ops \notin Members
TimeAssumption ==
  /\ {Horizon, Urgent, Cooldown, FollowCooldown, MaxTime} \subseteq Nat
  /\ Day \in Nat \ {0}
  /\ Delays \subseteq Nat
  /\ Faults \in BOOLEAN

VARIABLES
  now,      \* the clock
  ran,      \* the cron has run at this instant
  dep,      \* departure_time of the flight
  pub,      \* published (and not cancelled)
  pending,  \* members whose acceptance is pending
  accounts,   \* members whose account is active
  sent,     \* the reminders in notifications: [id, type, to, at]
  worker,   \* the sweep each worker is executing
  waiting,  \* history: for how long each member has been remindable
  std,      \* history: the departure time first scheduled
  last,     \* history: when each member was last sent a reminder
  cut       \* history: a sweep has been cut off

history == <<waiting, std, last, cut>>
vars    == <<now, ran, dep, pub, pending, accounts, sent, worker, history>>

Times   == 0..MaxTime
Notices == [id : Nat, type : {"gentle", "urgent", "followup"},
            to : Members \cup {Ops}, at : Times]

\* todo: members still to be sent a reminder; follow: ops are to be alerted too.
Sweep == [pc : {"idle", "sweep"}, todo : SUBSET Members, urgent : BOOLEAN, follow : BOOLEAN]
Idle  == [pc |-> "idle", todo |-> {}, urgent |-> FALSE, follow |-> FALSE]

\* One more row in the notifications table.
Insert(type, x) ==
  LET row(i) == [id |-> i, type |-> type, to |-> x, at |-> now]
  IN  sent' = sent \cup {row(CHOOSE i \in 0..Cardinality(sent) : row(i) \notin sent)}

AllIdle   == \A w \in Workers : worker[w].pc = "idle"
InScope   == pub /\ now <= dep /\ dep <= now + Horizon
Never     == -(Horizon + Day) - 1    \* before any time the properties speak of
CronIsDue == now % Day = 0 /\ ~ran

\* x still has a notice of this type that is less than, or at most, d old.
SentWithin(type, x, d)  == \E s \in sent : s.type = type /\ s.to = x /\ s.at + d > now
SentWithinOr(type, x, d) == \E s \in sent : s.type = type /\ s.to = x /\ s.at + d >= now

\* How far back the sweep looks for a notice of each type: the urgent tier as far as
\* the notifications were read.
Lookback(type) == CASE type = "gentle"   -> Cooldown
                    [] type = "urgent"   -> Horizon
                    [] type = "followup" -> FollowCooldown

\* Mutant: the follow-up's cooldown for the gentle tier.
DedupeShort(type, x, verdict) ==
  LET d == IF type = "urgent" THEN Horizon ELSE FollowCooldown
  IN  /\ SentWithin(type, x, d) => verdict
      /\ verdict => SentWithinOr(type, x, d)

\* The verdict of gentle_recent, urgent_ever and follow_recent on x.
Dedupe(type, x, verdict) ==
  /\ SentWithin(type, x, Lookback(type)) => verdict
  /\ verdict => SentWithinOr(type, x, Lookback(type))

----------------------------------------------------------------------------
\* The reads of a sweep: the flight, its pending members, their accounts and the
\* notices so far.  Members without an account are named to ops but not reminded.
ReadFlight(w) ==
  /\ worker[w].pc = "idle"
  /\ InScope /\ pending # {}
  /\ LET urgent == dep <= now + Urgent
     IN  \E due \in SUBSET (pending \cap accounts), follow \in BOOLEAN :
           /\ \A m \in pending \cap accounts :
                Dedupe(IF urgent THEN "urgent" ELSE "gentle", m, m \notin due)
           /\ IF urgent THEN Dedupe("followup", Ops, ~follow) ELSE ~follow
           /\ worker' = [worker EXCEPT ![w] =
                [pc |-> "sweep", todo |-> due, urgent |-> urgent, follow |-> follow]]

\* POST /acceptance-reminders/run, at any time.
ManualSweep(w) ==
  /\ ReadFlight(w)
  /\ UNCHANGED <<now, ran, dep, pub, pending, accounts, sent, history>>

\* Mutant: the cron leaves the gentle tier to the supervisors.
CronSweepUrgentOnly(w) ==
  /\ CronIsDue
  /\ worker[w].pc = "idle"
  /\ \/ dep <= now + Urgent /\ ReadFlight(w)
     \/ ~(dep <= now + Urgent /\ InScope /\ pending # {}) /\ UNCHANGED worker
  /\ ran' = TRUE
  /\ UNCHANGED <<now, dep, pub, pending, accounts, sent, history>>

\* GET /cron/acceptance-reminders, once a day.
CronSweep(w) ==
  /\ CronIsDue
  /\ worker[w].pc = "idle"
  /\ \/ ReadFlight(w)
     \/ ~(InScope /\ pending # {}) /\ UNCHANGED worker
  /\ ran' = TRUE
  /\ UNCHANGED <<now, dep, pub, pending, accounts, sent, history>>

\* One reminder per member that is due.
SendReminder(w, m) ==
  /\ m \in worker[w].todo
  /\ Insert(IF worker[w].urgent THEN "urgent" ELSE "gentle", m)
  /\ worker' = [worker EXCEPT ![w].todo = @ \ {m}]
  /\ last' = [last EXCEPT ![m] = now]
  /\ UNCHANGED <<now, ran, dep, pub, pending, accounts, waiting, std, cut>>

\* The follow-up to schedulers and ops comes last; if it fails that is logged.
EndSweep(w) ==
  /\ worker[w].pc = "sweep"
  /\ worker[w].todo = {}
  /\ \/ worker[w].follow /\ Insert("followup", Ops)
     \/ (worker[w].follow => Faults) /\ UNCHANGED sent
  /\ worker' = [worker EXCEPT ![w] = Idle]
  /\ UNCHANGED <<now, ran, dep, pub, pending, accounts, history>>

\* A call raises or the instance is killed.
Crash(w) ==
  /\ Faults
  /\ worker[w].pc = "sweep"
  /\ worker' = [worker EXCEPT ![w] = Idle]
  /\ cut' = TRUE
  /\ UNCHANGED <<now, ran, dep, pub, pending, accounts, sent, waiting, std, last>>

----------------------------------------------------------------------------
(* The flight, its crew and what they do with their notices.               *)

\* DELETE /notifications/{id}, and POST /clear-all for all of one's own that are
\* read; a follow-up is gone when everyone it went to has deleted it.
DeleteNotice(n) ==
  /\ sent' = sent \ {n}
  /\ UNCHANGED <<now, ran, dep, pub, pending, accounts, worker, history>>

\* Published or withdrawn (or cancelled).
Publish ==
  /\ pub' = ~pub
  /\ waiting' = [m \in Members |-> 0]
  /\ UNCHANGED <<now, ran, dep, pending, accounts, sent, worker, std, last, cut>>

\* A member accepts, declines or is confirmed; a new row awaits an answer.
Answer(m) ==
  /\ pending' = IF m \in pending THEN pending \ {m} ELSE pending \cup {m}
  /\ waiting' = [waiting EXCEPT ![m] = 0]
  /\ UNCHANGED <<now, ran, dep, pub, accounts, sent, worker, std, last, cut>>

\* His account is deactivated, or activated.
Account(m) ==
  /\ accounts' = IF m \in accounts THEN accounts \ {m} ELSE accounts \cup {m}
  /\ waiting' = [waiting EXCEPT ![m] = 0]
  /\ UNCHANGED <<now, ran, dep, pub, pending, sent, worker, std, last, cut>>

Delay(d) ==
  /\ now <= dep
  /\ dep + d <= MaxTime
  /\ dep' = dep + d
  /\ UNCHANGED <<now, ran, pub, pending, accounts, sent, worker, history>>

\* The cron of this instant has run before the clock moves on.  Notices that no
\* sweep looks back to any more are left out, but for the urgent ones.
Tick ==
  /\ AllIdle
  /\ ~CronIsDue
  /\ now < MaxTime
  /\ now' = now + 1
  /\ ran' = FALSE
  /\ sent' = {s \in sent : s.type = "urgent" \/ s.at + Lookback(s.type) >= now'}
  /\ waiting' = [m \in Members |-> IF ~(InScope /\ m \in pending \cap accounts) THEN 0
                                   ELSE IF waiting[m] > Day THEN waiting[m]
                                   ELSE waiting[m] + 1]
  /\ UNCHANGED <<dep, pub, pending, accounts, worker, std, last, cut>>

Init ==
  /\ now = 0 /\ ran = FALSE
  /\ dep \in Times
  /\ pub = FALSE
  /\ pending = Members /\ accounts = Members
  /\ sent = {}
  /\ worker = [w \in Workers |-> Idle]
  /\ waiting = [m \in Members |-> 0]
  /\ std = dep
  /\ last = [m \in Members |-> Never]
  /\ cut = FALSE

Next ==
  \/ \E w \in Workers :
       \/ ManualSweep(w) \/ CronSweep(w) \/ EndSweep(w) \/ Crash(w)
       \/ \E m \in Members : SendReminder(w, m)
  \/ Publish \/ Tick
  \/ \E m \in Members : Answer(m) \/ Account(m)
  \/ \E n \in sent : DeleteNotice(n)
  \/ \E d \in Delays : Delay(d)

Spec == Init /\ [][Next]_vars
----------------------------------------------------------------------------
(* Properties.                                                             *)

TypeOK ==
  /\ now \in Times /\ ran \in BOOLEAN /\ dep \in Times /\ pub \in BOOLEAN
  /\ pending \subseteq Members /\ accounts \subseteq Members
  /\ sent \subseteq Notices
  /\ worker \in [Workers -> Sweep]
  /\ waiting \in [Members -> 0..Day + 1]
  /\ std \in Times /\ last \in [Members -> Times \cup {Never}] /\ cut \in BOOLEAN

\* Two notices of a type that one recipient has are at least d apart.
Spaced(type, d) ==
  \A a, b \in sent :
    a.type = type /\ b.type = type /\ a.to = b.to /\ a # b =>
      a.at + d <= b.at \/ b.at + d <= a.at

\* "gentle (... max one per 24h per member/flight)", of those he has not deleted,
\* whatever is run by hand, cut off, delayed, declined and accepted in between.
GentleSpaced == Spaced("gentle", Cooldown)

\* "ONE follow-up alert to schedulers/ops per flight per 6h", unless deleted.
FollowupSpaced == Spaced("followup", FollowCooldown)

\* "URGENT (<=6h out, once per member/flight)", unless he has deleted the first, as
\* long as the departure has not been moved by so much that the lookback misses it.
UrgentOnce ==
  (dep - std) + Urgent < Horizon =>
  \A a, b \in sent : a.type = "urgent" /\ b.type = "urgent" /\ a.to = b.to => a = b

\* "two tiers by time to departure": a member who could be reminded for more than a
\* day has been, at most a lookback and a day ago, whatever he deletes, unless a
\* sweep was cut off.
PendingIsReminded ==
  (AllIdle /\ ~cut) => \A m \in Members : waiting[m] > Day => last[m] + Horizon + Day >= now

\* ... and a member still pending all through the urgent window has had a reminder
\* in it when the flight departs.
UrgentBeforeDeparture ==
  (AllIdle /\ ~CronIsDue /\ now = dep) =>
    \A m \in Members : waiting[m] > Urgent => last[m] + Urgent >= now
=============================================================================
