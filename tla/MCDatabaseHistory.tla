------------------------- MODULE MCDatabaseHistory --------------------------
(* Instances of DatabaseHistory for TLC.                                   *)
EXTENDS DatabaseHistory, TLC

Symmetry == Permutations(Devices) \cup Permutations(Vals)
=============================================================================
