--------------------------- MODULE MCSandboxLedger ---------------------------
(***************************************************************************)
(* Values for model-checking SandboxLedger: leverage tables and the        *)
(* symmetry of order identifiers.                                          *)
(***************************************************************************)
EXTENDS SandboxLedger, TLC

\* Intraday trades at twofold leverage, delivery in full.
TwofoldMIS == [k \in Products \X Actions |-> IF k[1] = "MIS" THEN 2 ELSE 1]

OrderSymmetry == Permutations(OrderIds)

=============================================================================
