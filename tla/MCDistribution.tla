---------------------------- MODULE MCDistribution ----------------------------
(* Instances of Distribution: one signal with a full bracket, and as many     *)
(* requests as are needed to post it twice, or to post it and withdraw it.    *)
EXTENDS Distribution, TLC
CONSTANTS s1, r1, r2
MCChildren == [s \in Signals |-> {"sl", "tp"}]
MCStop == [s \in Signals |-> {"sl"}]
MCSymmetry == Permutations(Requests)
===============================================================================
