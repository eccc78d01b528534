----------------------------- MODULE MCSharing -----------------------------
(* Instances of Sharing for TLC.                                           *)
EXTENDS Sharing, TLC

Symmetry == Permutations(Devices)

(* What screen and session showed at a tap is recorded for one property    *)
(* (SharesWhatIsShown) and decides no step: the run of the others does not *)
(* tell states apart by it.                                                *)
Untold(S) == {[s EXCEPT !.told = Nil] : s \in S}

WithoutTold ==
    <<vars, Untold(posts), forms, [d \in Devices |-> Untold(shares[d])], room>>
=============================================================================
