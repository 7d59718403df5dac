------------------------------ MODULE MCGendec ------------------------------
(* Instances of Gendec for TLC: one captain and one cabin member, a floor of *)
(* one pilot and one cabin member, two values of the flight's GD fields.     *)
EXTENDS Gendec, TLC

CONSTANTS captain, hostess

MCCrew     == {captain, hostess}
MCCaptains == {captain}
MCPilots   == {captain}
MCCabin    == {hostess}

\* Instances are interchangeable (used for invariants only).
MCSymmetry == Permutations(Workers)
=============================================================================
