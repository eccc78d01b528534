------------------------------ MODULE MCPosts -------------------------------
(* Instances of Posts for TLC.                                             *)
EXTENDS Posts, TLC

CONSTANTS d1, d2, ann, bob, event1

\* the two parts of every post
Parts == UNION {Place(p) : p \in Ids}

\* who is signed in on which phone
SignedIn == (d1 :> ann @@ d2 :> bob)
OnOne == (d1 :> ann)
=============================================================================
