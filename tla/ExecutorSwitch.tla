----------------------------- MODULE ExecutorSwitch -----------------------------
(***************************************************************************)
(* What starting and stopping the sandbox engines promises: of everything   *)
(* that could execute orders one thing does, from a start to the next stop. *)
(* Polling may give way to the WebSocket engine, in one step; only a failed *)
(* subscription leaves a started sandbox without an executor; and a stop    *)
(* that has finished has ended whatever executed.                           *)
(***************************************************************************)
EXTENDS Integers

VARIABLES switch,    \* "off", "on" or "stopping"
          executor,  \* "none", "polling" or "websocket"
          failures

vars == <<switch, executor, failures>>

Init == switch = "off" /\ executor = "none" /\ failures = 0

\* A second start finds the first.
Start ==
    /\ switch # "stopping" /\ switch' = "on"
    /\ IF executor = "none" THEN executor' \in {"polling", "websocket"} ELSE UNCHANGED executor
    /\ UNCHANGED failures

Upgrade ==
    /\ switch = "on" /\ executor = "polling"
    /\ executor' = "websocket"
    /\ UNCHANGED <<switch, failures>>

\* The subscription of a start or an upgrade fails, or a callback leaks.
Fail ==
    /\ failures' > failures
    /\ \/ switch # "stopping" /\ switch' = "on" /\ executor' = "none" /\ executor # "websocket"
       \/ UNCHANGED <<switch, executor>>

BeginStop == switch # "stopping" /\ switch' = "stopping" /\ UNCHANGED <<executor, failures>>

End == switch = "stopping" /\ executor' = "none" /\ UNCHANGED <<switch, failures>>

EndStop == switch = "stopping" /\ executor = "none" /\ switch' = "off" /\ UNCHANGED <<executor, failures>>

Next == Start \/ Upgrade \/ Fail \/ BeginStop \/ End \/ EndStop

Spec == Init /\ [][Next]_vars
===============================================================================
