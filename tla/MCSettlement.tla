----------------------------- MODULE MCSettlement -----------------------------
(* An instance of Settlement: the row being settled and the one before it; two *)
(* threads, so that settlements may also overlap.                              *)
EXTENDS Settlement, TLC
CONSTANTS a, b, t1, t2
===============================================================================
