----------------------------- MODULE MCAccounts -----------------------------
(* Instances of Accounts for TLC.                                          *)
EXTENDS Accounts, TLC

Symmetry == Permutations(Devices) \cup Permutations(Users)
=============================================================================
