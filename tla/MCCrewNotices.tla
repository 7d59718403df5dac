--------------------------- MODULE MCCrewNotices ---------------------------
(* Instances of CrewNotices for TLC. *)
EXTENDS CrewNotices, TLC

\* Members and instances are interchangeable.
MCSymmetry == Permutations(Crew) \cup Permutations(Workers)
=============================================================================
