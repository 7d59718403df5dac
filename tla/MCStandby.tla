----------------------------- MODULE MCStandby -----------------------------
(* Instances of Standby for TLC. *)
EXTENDS Standby, TLC

\* Rows, flights and instances are interchangeable (used for safety only).
MCSymmetry == Permutations(Rows) \cup Permutations(Flights) \cup Permutations(Workers)
=============================================================================
