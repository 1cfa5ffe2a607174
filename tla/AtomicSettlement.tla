--------------------------- MODULE AtomicSettlement ---------------------------
(***************************************************************************)
(* The T+1 settlement as the rest of the sandbox, and SandboxLedger, takes  *)
(* it: a delivery position of an earlier day becomes a holding, and its     *)
(* price leaves the margin, in one step.  The price of a share is one.      *)
(***************************************************************************)
EXTENDS Integers

CONSTANT Symbols

VARIABLES shares,    \* quantity of the delivery position; 0 without one
          due,       \* symbols with a position of an earlier day
          holding,   \* shares held
          paid       \* money moved out of the margin less proceeds

Init ==
    /\ shares = [s \in Symbols |-> 0] /\ due = {}
    /\ holding = [s \in Symbols |-> 0] /\ paid = [s \in Symbols |-> 0]

Fill(s, n) ==
    /\ shares' = [shares EXCEPT ![s] = @ + n]
    /\ UNCHANGED <<due, holding, paid>>

Midnight ==
    /\ due \subseteq due'
    /\ \A s \in Symbols : shares[s] # 0 => s \in due'
    /\ UNCHANGED <<shares, holding, paid>>

\* A sale without a holding moves its absolute value; the code looks at the
\* sign only when there is a row.
Price(s, n) == IF n < 0 /\ holding[s] = 0 THEN - n ELSE n

Move(s, n) ==
    /\ holding' = [holding EXCEPT ![s] = @ + n]
    /\ paid' = [paid EXCEPT ![s] = @ + Price(s, n)]

Settle(s) ==
    /\ s \in due
    /\ Move(s, shares[s])
    /\ shares' = [shares EXCEPT ![s] = 0] /\ due' = due \ {s}

Next ==
    \/ Midnight
    \/ \E s \in Symbols : Settle(s) \/ \E n \in {-1, 1} : Fill(s, n)

\* Faults cost positions, or settle them again; what comes into a holding is
\* paid for even then.
Damaged ==
    \/ UNCHANGED <<holding, paid>>
    \/ \E s \in Symbols : Move(s, holding'[s] - holding[s])
===============================================================================
