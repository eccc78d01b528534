-------------------------- MODULE MCDatabaseClient --------------------------
(* Instances of DatabaseClient for TLC.                                    *)
EXTENDS DatabaseClient, TLC

Symmetry == Permutations(Devices) \cup Permutations(Vals)
=============================================================================
