---------------------------- MODULE MCOrderRace ----------------------------
(* Instances of OrderRace for TLC. *)
EXTENDS OrderRace, TLC

RaceSymmetry == Permutations(Orders)

=============================================================================
