---------------------------- MODULE OmGovernance ----------------------------
(***************************************************************************)
(* The clauses of the operations manual that govern the compliance checks  *)
(* (endpoints/om.py) and the gate in front of their changes                *)
(* (core/om_governance.py): a clause of a safety critical check is         *)
(* weakened by a Super Admin with a written reason only.  What a clause    *)
(* then does to the checks is in module Compliance.  Texts, visibility,    *)
(* the audit log and the notice to management are left out.                *)
(*                                                                         *)
(* A body is whatever JSON the request holds.  The flags is_active and     *)
(* affects_compliance are "true", "false" or "text": a value such as the   *)
(* string "false", which counts as true in Python and is false once the    *)
(* table has it.  (A 0 is like "text" for the first flag and like "false"  *)
(* for the second.)                                                        *)
(***************************************************************************)
CONSTANTS
  Articles,
  Critical,   \* SAFETY_CRITICAL_CHECKS
  Drafts,     \* bound: the clauses that may be created or seeded
  Changes,    \* bound: the bodies of PATCH, each giving some of the fields
  Editors     \* the instances there may be

VARIABLES
  article,    \* each row, NoRow if there is none
  author,     \* what each deployed worker is doing
  way         \* history: how each clause came to be weak, "none" if it is not

vars == <<article, author, way>>

\* What the gate takes an absent clause for.
NoRow ==
  [key |-> "none", affects |-> "false", type |-> "none", active |-> "true", params |-> "none"]
AtDesk == [doing |-> "nothing"]
OneAuthor == \A v, w \in DOMAIN author : v = w

----------------------------------------------------------------------------
(* The gate.                                                               *)

Blocking == {"blocking"}    \* and "approval_required", which blocks alike

Truthy(flag) == flag # "false"
Stored(flag) == IF flag = "text" THEN "false" ELSE flag
StoredRow(r) ==
  [key |-> r.key, affects |-> Stored(r.affects), type |-> r.type, active |-> Stored(r.active),
   params |-> r.params]

IsSafetyCritical(r) == Truthy(r.affects) /\ r.key \in Critical

\* evaluate_governance_change: what only a Super Admin may do, giving a reason.  To
\* disable is to send false itself (`is False`).
Protected(before, after) ==
  \/ /\ IsSafetyCritical(before)
     /\ \/ Truthy(before.active) /\ after.active = "false"
        \/ before.type \in Blocking /\ after.type \notin Blocking
        \/ after.key # before.key
        \/ ~Truthy(after.affects)
  \/ IsSafetyCritical(after) /\ ~IsSafetyCritical(before) /\ after.type \notin Blocking
  \/ (IsSafetyCritical(before) \/ IsSafetyCritical(after)) /\ before.params # after.params

Merged(r, body) == [f \in DOMAIN r |-> IF f \in DOMAIN body THEN body[f] ELSE r[f]]

\* Mutant: the gate sees the fields of the request alone.
GateOfBody(r, body) == Protected(r, Merged(NoRow, body))

\* The gate of an update looks at the row as it would become.
Gate(r, body) == Protected(r, Merged(r, body))

\* A clause under which a breach of its check does not block.
Weak(r) == IsSafetyCritical(r) /\ (r.active = "false" \/ r.type \notin Blocking)

\* How a clause that becomes `seen`, as the gate sees it, came to be weak; "dormant" is
\* a blocking clause bound to the check while inactive, "untyped" one made inactive by
\* a value that is not false itself.
WayTo(a, seen, protected) ==
  LET old == article[a]
      new == StoredRow(seen)
  IN CASE ~Weak(new)                              -> "none"
       [] Weak(new) /\ protected                  -> "sanctioned"
       [] Weak(new) /\ ~protected /\ Weak(old)    -> way[a]
       [] OTHER -> IF ~IsSafetyCritical(old) /\ new.type \in Blocking THEN "dormant"
                   ELSE IF seen.active = "text" THEN "untyped" ELSE "unsanctioned"

----------------------------------------------------------------------------
(* The endpoints.  A protected change that gets past the gate is one of a  *)
(* Super Admin who gave a reason; the others are turned away.              *)

\* POST: the id must be new; the gate compares with an empty row.
CreateRead(w) ==
  /\ author[w] = AtDesk
  /\ \E a \in Articles, row \in Drafts :
       /\ article[a] = NoRow
       /\ author' = [author EXCEPT ![w] =
            [doing |-> "create", id |-> a, row |-> row, protected |-> Protected(NoRow, row)]]
  /\ UNCHANGED <<article, way>>

\* An id that exists by now refuses the insert.
CreateInsert(w) ==
  LET task == author[w]
  IN  /\ task.doing = "create"
      /\ article[task.id] = NoRow
      /\ article' = [article EXCEPT ![task.id] = StoredRow(task.row)]
      /\ way' = [way EXCEPT ![task.id] = WayTo(task.id, task.row, task.protected)]
      /\ author' = [author EXCEPT ![w] = AtDesk]

\* PATCH: the gate decides on the row read, and the fields given are written to
\* the row there is.
UpdateRead(w) ==
  /\ author[w] = AtDesk
  /\ \E a \in Articles, body \in Changes :
       /\ article[a] # NoRow
       /\ author' = [author EXCEPT ![w] =
            [doing |-> "update", id |-> a, body |-> body, protected |-> Gate(article[a], body)]]
  /\ UNCHANGED <<article, way>>

UpdateWrite(w) ==
  LET task == author[w]
      seen == Merged(article[task.id], task.body)
  IN  /\ task.doing = "update"
      /\ article[task.id] # NoRow
      /\ article' = [article EXCEPT ![task.id] = StoredRow(seen)]
      /\ way' = [way EXCEPT ![task.id] = WayTo(task.id, seen, task.protected)]
      /\ author' = [author EXCEPT ![w] = AtDesk]

\* The request ends without a write: the row is there (create) or gone (update),
\* the call fails, or the instance is killed.
GiveUp(w) ==
  /\ author[w] # AtDesk
  /\ author' = [author EXCEPT ![w] = AtDesk]
  /\ UNCHANGED <<article, way>>

\* DELETE: no gate; the check is back to its own rule.
DeleteArticle(w) ==
  /\ author[w] = AtDesk
  /\ \E a \in Articles :
       /\ article[a] # NoRow
       /\ article' = [article EXCEPT ![a] = NoRow]
       /\ way' = [way EXCEPT ![a] = "none"]
  /\ UNCHANGED author

\* POST /seed: no gate either; a clause that exists is left alone.  Each row is a
\* look and an insert, which the primary key makes one.
Seed(w) ==
  /\ author[w] = AtDesk
  /\ \E a \in Articles, row \in {r \in Drafts : r.active = "true" /\ r.params = "none"} :
       /\ article[a] = NoRow
       /\ article' = [article EXCEPT ![a] = row]
       /\ way' = [way EXCEPT ![a] = IF Weak(row) THEN "seeded" ELSE "none"]
  /\ UNCHANGED author

Init ==
  /\ article = [a \in Articles |-> NoRow]
  /\ way = [a \in Articles |-> "none"]
  /\ \E deployed \in SUBSET Editors : deployed # {} /\ author = [w \in deployed |-> AtDesk]

Handler(w) ==
  \/ CreateRead(w) \/ CreateInsert(w) \/ UpdateRead(w) \/ UpdateWrite(w)
  \/ GiveUp(w) \/ DeleteArticle(w) \/ Seed(w)

Next == \E w \in DOMAIN author : Handler(w)

Spec == Init /\ [][Next]_vars
----------------------------------------------------------------------------
(* Properties.                                                             *)

\* "A clause bound to a safety critical check may not be weakened by anyone below
\* Super Admin": by no sequence of changes of one process, but for three ways the gate
\* does not see: a seeded clause, a blocking clause bound while inactive, and one made
\* inactive by a value that is not false itself.  Two processes break it: each change
\* is harmless to the row the other has read.
WeakIsSanctioned == OneAuthor => \A a \in Articles : way[a] # "unsanctioned"

\* The docstring as it stands, without exception.
WeakenedUnderGate ==
  OneAuthor => \A a \in Articles : Weak(article[a]) => way[a] = "sanctioned"
=============================================================================
