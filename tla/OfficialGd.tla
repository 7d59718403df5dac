----------------------------- MODULE OfficialGd -----------------------------
(***************************************************************************)
(* What the General Declaration of a flight promises its readers: a series *)
(* of numbered documents.  Each approval makes the next one; the current   *)
(* one may be withdrawn; only the current one, while on offer, is issued,  *)
(* and it is issued under its own number.                                  *)
(***************************************************************************)
EXTENDS Naturals

CONSTANT Contents   \* what a document may state

VARIABLES
  version,    \* number of the current document, 0 if there is none yet
  document,   \* what it states
  onOffer,    \* may be downloaded
  issued      \* [ver, content] of the downloads so far

vars == <<version, document, onOffer, issued>>

Init ==
  /\ version = 0
  /\ document \in Contents
  /\ onOffer = FALSE
  /\ issued = {}

Approve(c) ==
  /\ version' = version + 1
  /\ document' = c
  /\ onOffer' = TRUE
  /\ UNCHANGED issued

Withdraw ==
  /\ onOffer
  /\ onOffer' = FALSE
  /\ UNCHANGED <<version, document, issued>>

Issue ==
  /\ onOffer
  /\ issued' = issued \cup {[ver |-> version, content |-> document]}
  /\ UNCHANGED <<version, document, onOffer>>

Next ==
  \/ \E c \in Contents : Approve(c)
  \/ Withdraw
  \/ Issue

Spec == Init /\ [][Next]_vars
=============================================================================
