------------------------ MODULE MCEEPROMSectionSystem ------------------------
(* EEPROMSectionSystem for TLC: all names have the same hash. *)
EXTENDS EEPROMSectionSystem, TLC
CONSTANT SameHash
MCHash == [n \in Names |-> SameHash]
Symmetry == Permutations(Names) \cup Permutations(Tags)
=============================================================================
