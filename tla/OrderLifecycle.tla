--------------------------- MODULE OrderLifecycle ---------------------------
(***************************************************************************)
(* What the order book promises of each order: once placed it is filled or *)
(* dropped (cancelled, rejected), never both and never twice.              *)
(***************************************************************************)
CONSTANTS Orders,   \* orders that may be placed
          Reached   \* orders that must not stay open for ever

VARIABLE state

Init == state = [o \in Orders |-> "none"]

Place(o) == state[o] = "none" /\ state' = [state EXCEPT ![o] = "open"]
Fill(o)  == state[o] = "open" /\ state' = [state EXCEPT ![o] = "filled"]
Drop(o)  == state[o] = "open" /\ state' = [state EXCEPT ![o] = "dropped"]

Next == \E o \in Orders : Place(o) \/ Fill(o) \/ Drop(o)

Spec == Init /\ [][Next]_state

FairSpec == Spec /\ \A o \in Reached : WF_state(Fill(o) \/ Drop(o))

=============================================================================
