---------------------------- MODULE OrderDecision ----------------------------
(***************************************************************************)
(* What semi-automatic trading promises of an order that waits for its user: *)
(* it is approved or rejected, once, and only an approved one is sent, once. *)
(* An order that two people have taken up at the same time is disputed, and *)
(* nothing more is said of it.                                              *)
(***************************************************************************)
CONSTANT Orders

VARIABLE stage

Init == stage = [o \in Orders |-> "none"]

Turns(o, from, to) == stage[o] = from /\ stage' = [stage EXCEPT ![o] = to]

Queue(o)   == Turns(o, "none", "pending")
Approve(o) == Turns(o, "pending", "approved")
Reject(o)  == Turns(o, "pending", "rejected")
Send(o)    == Turns(o, "approved", "sent")
Dispute(o) == Turns(o, "pending", "disputed")

Next == \E o \in Orders : Queue(o) \/ Approve(o) \/ Reject(o) \/ Send(o) \/ Dispute(o)

Spec == Init /\ [][Next]_stage
===============================================================================
