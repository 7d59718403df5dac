----------------------------- MODULE Documents -----------------------------
(***************************************************************************)
(* The documents of a company's crew and the reminders of their expiry     *)
(* (endpoints/documents.py), sent by a daily cron and on demand.  A scan   *)
(* inserts all its notices in one call, then stamps the documents one by   *)
(* one; a killed scan leaves the notices without the stamps.  The company  *)
(* has managers, so that every reminder has somebody to go to.             *)
(***************************************************************************)
EXTENDS Integers

CONSTANTS
  Papers,      \* document records
  Window,      \* _REMINDER_WINDOW_DAYS
  CoolDays,    \* _REMINDER_COOLDOWN_DAYS
  Renewals,    \* how many days from today an editor may set the expiry
  LastDay,     \* bound of the clock
  Scanners     \* the instances there may be

VARIABLES
  today,
  expiry,      \* expiry_date of each document, or NoDate
  verified,    \* the verified ones
  stamped,     \* last_reminder_sent, or NoDate
  scan,        \* what each deployed worker is doing
  told,        \* history: the day of the last notice about each document, or NoDate
  told_early,  \* history: documents of which a notice came within the cooldown of one
               \* that had been stamped
  cut          \* history: documents whose last notice is not stamped

vars == <<today, expiry, verified, stamped, scan, told, told_early, cut>>

NoDate  == -99
AtRest  == [pc |-> "idle"]
OneScanner == \A v, w \in DOMAIN scan : v = w

----------------------------------------------------------------------------
(* The scan.                                                               *)

\* Mutant: the cooldown is forgotten on the last day.
DueLastDay(p) ==
  /\ expiry[p] \in today..(today + Window)
  /\ stamped[p] = NoDate \/ today - stamped[p] >= CoolDays \/ expiry[p] = today

\* Expiring within the window, today included, and not reminded of lately.
Due(p) ==
  /\ expiry[p] \in today..(today + Window)
  /\ stamped[p] = NoDate \/ today - stamped[p] >= CoolDays

\* POST /check-expiring-reminders and GET /cron/expiry-reminders
ScanRead(w) ==
  /\ scan[w] = AtRest
  /\ \E p \in Papers : Due(p)
  /\ scan' = [scan EXCEPT ![w] = [pc |-> "notify", at |-> today, due |-> {p \in Papers : Due(p)}]]
  /\ UNCHANGED <<today, expiry, verified, stamped, told, told_early, cut>>

ScanNotify(w) ==
  /\ scan[w].pc = "notify"
  /\ LET s == scan[w] IN
       /\ told' = [p \in Papers |-> IF p \in s.due THEN s.at ELSE told[p]]
       /\ told_early' = told_early \cup 
            {p \in s.due \ cut : told[p] # NoDate /\ s.at - told[p] < CoolDays}
       /\ cut' = cut \cup s.due
  /\ scan' = [scan EXCEPT ![w].pc = "stamp"]
  /\ UNCHANGED <<today, expiry, verified, stamped>>

ScanStamp(w) ==
  /\ scan[w].pc = "stamp"
  /\ \E p \in scan[w].due :
       /\ stamped' = [stamped EXCEPT ![p] = IF expiry[p] = NoDate THEN @ ELSE scan[w].at]
       /\ cut' = cut \ {p}
       /\ LET s == scan[w] IN
            scan' = [scan EXCEPT ![w] = IF s.due = {p} THEN AtRest
                                        ELSE [s EXCEPT !.due = s.due \ {p}]]
  /\ UNCHANGED <<today, expiry, verified, told, told_early>>

Killed(w) ==
  /\ scan[w] # AtRest
  /\ scan' = [scan EXCEPT ![w] = AtRest]
  /\ UNCHANGED <<today, expiry, verified, stamped, told, told_early, cut>>

----------------------------------------------------------------------------
(* The editors.                                                            *)

CreateDocument(w) ==
  /\ scan[w] = AtRest
  /\ \E p \in Papers, left \in Renewals :
       /\ expiry[p] = NoDate /\ told[p] = NoDate
       /\ expiry' = [expiry EXCEPT ![p] = today + left]
  /\ UNCHANGED <<today, verified, stamped, scan, told, told_early, cut>>

\* PATCH: neither the verification nor the last reminder is reset.
UpdateDocument(w) ==
  /\ scan[w] = AtRest
  /\ \E p \in Papers, left \in Renewals :
       expiry[p] # NoDate /\ expiry' = [expiry EXCEPT ![p] = today + left]
  /\ UNCHANGED <<today, verified, stamped, scan, told, told_early, cut>>

VerifyDocument(w) ==
  /\ scan[w] = AtRest
  /\ \E p \in Papers : expiry[p] # NoDate /\ verified' = (verified \cup {p}) \ (verified \cap {p})
  /\ UNCHANGED <<today, expiry, stamped, scan, told, told_early, cut>>

DeleteDocument(w) ==
  /\ scan[w] = AtRest
  /\ \E p \in Papers : expiry[p] # NoDate /\ expiry' = [expiry EXCEPT ![p] = NoDate]
                       /\ verified' = verified \ {p}
  /\ UNCHANGED <<today, stamped, scan, told, told_early, cut>>

DayPasses ==
  /\ today < LastDay
  /\ today' = today + 1
  /\ UNCHANGED <<expiry, verified, stamped, scan, told, told_early, cut>>

Init ==
  /\ today = 0
  /\ expiry \in [Papers -> {NoDate} \cup Renewals]
  /\ verified = {}
  /\ stamped = [p \in Papers |-> NoDate] /\ told = stamped
  /\ \E deployed \in SUBSET Scanners : deployed # {} /\ scan = [w \in deployed |-> AtRest]
  /\ told_early = {} /\ cut = {}

Handler(w) ==
  \/ ScanRead(w) \/ ScanNotify(w) \/ ScanStamp(w) \/ Killed(w)
  \/ CreateDocument(w) \/ UpdateDocument(w) \/ VerifyDocument(w) \/ DeleteDocument(w)

Next == DayPasses \/ \E w \in DOMAIN scan : Handler(w)

Spec == Init /\ [][Next]_vars
----------------------------------------------------------------------------
(* Properties.                                                             *)

\* "Idempotent per doc via last_reminder_sent": with one process, of no document
\* do two reminders come within the cooldown, whatever its expiry is changed to,
\* unless a scan was cut off between the notice and the document's stamp.  Two
\* processes break it: both read the document before either stamps it.
DocRemindersSpaced == OneScanner => told_early = {}
=============================================================================
