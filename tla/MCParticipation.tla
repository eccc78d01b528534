-------------------------- MODULE MCParticipation ---------------------------
(* Instances of Participation for TLC.                                     *)
EXTENDS Participation, TLC

CONSTANTS d1, d2, ann, bob, cat

\* who is signed in on which phone; cat, who has none, joined before in some runs
SignedIn == (d1 :> ann @@ d2 :> bob)
=============================================================================
