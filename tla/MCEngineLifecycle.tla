-------------------------- MODULE MCEngineLifecycle --------------------------
(* One caller stands for any number: a request that waits for the lock has no *)
(* state of its own.                                                          *)
EXTENDS EngineLifecycle, TLC
CONSTANTS c1, p1, p2, w1, w2, e1, m1, l1, l2
===============================================================================
