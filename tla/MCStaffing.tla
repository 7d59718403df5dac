----------------------------- MODULE MCStaffing -----------------------------
(* Instances of Staffing for TLC: two members of one position, or of two,    *)
(* caps of one, and the two directions of one Do-Not-Pair couple.            *)
EXTENDS Staffing, TLC

CONSTANTS p1, p2

MCPilots   == [c \in Crew |-> "pilot"]
MCMixed    == [c \in Crew |-> IF c = p1 THEN "pilot" ELSE "cabin"]
MCCap      == [p \in Positions |-> 1]
MCPairs    == {<<p1, p2>>, <<p2, p1>>}

\* Instances are interchangeable (used for safety only).
MCSymmetry == Permutations(Workers)
=============================================================================
