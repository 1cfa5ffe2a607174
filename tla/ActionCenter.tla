------------------------------ MODULE ActionCenter ------------------------------
(***************************************************************************)
(* Semi-automatic trading: an order that arrives is stored                  *)
(* (services/order_router_service.py, database/action_center_db.py) until a *)
(* user approves, rejects or deletes it (blueprints/orders.py); what is     *)
(* approved is sent to the broker by the same request                       *)
(* (services/pending_order_execution_service.py).                           *)
(*                                                                         *)
(* Requests run in threads of their own and meet in the row of an order.    *)
(* A decision reads the row and writes it in two steps, and the row is      *)
(* written by its key alone: what was read need no longer be true.          *)
(***************************************************************************)
EXTENDS Integers, FiniteSets

CONSTANTS Orders,     \* orders that may arrive
          Requests,   \* threads of the web server
          Kinds,      \* kinds of orders that arrive, see AllKinds
          MaxFaults,  \* bound: failed commits, lost answers and restarts
          None

\* A single order is answered with its identifier, and so is a smart order,
\* unless the position already is what it asks for and nothing is sent; a batch
\* (basket, split) is answered without one.  GTT and multi-leg option orders are
\* queued, but the execution has no service for them.
AllKinds == {"single", "smart", "batch", "unrouted"}

ASSUME KindsAssumption == Kinds \subseteq AllKinds
ASSUME NoneAssumption == None \notin Orders
ASSUME FaultsAssumption == MaxFaults \in Nat
ASSUME RequestsAssumption == IsFiniteSet(Requests)

VARIABLES rows,        \* the table pending_orders
          req,         \* what each request has in hand
          sent,        \* history: broker orders placed for a row
          approvals,   \* history: approvals of a row that were committed
          rejections,  \* history: rejections of a row that were committed
          overlapped,  \* history: rows that two requests decided at once
          unnumbered,  \* history: rows answered success without an identifier
          faults

vars == <<rows, req, sent, approvals, rejections, overlapped, unnumbered, faults>>
history == <<approvals, rejections, overlapped, unnumbered>>

\* broker: the column broker_status, open for whatever the broker says of an
\* order it took; broker_order_id is written with it.
RowType == [status : {"none", "pending", "approved", "rejected", "deleted"},
            kind : AllKinds, broker : {"none", "open", "rejected"}]
Row(status, kind) == [status |-> status, kind |-> kind, broker |-> "none"]
NoRow == Row("none", "single")

\* todo: the orders an approve-all has still to look at; mode: a single
\* decision, a list of loaded rows, or one whose rows a commit has expired;
\* seen: the row as the execution knows it.
RequestType == [pc : {"idle", "next", "approve", "reject", "reload", "execute", "place", "record"},
                order : Orders \cup {None}, todo : SUBSET Orders,
                mode : {"one", "list", "expired"},
                seen : RowType, answer : {"open", "rejected"}]
Request(pc, order, todo, mode) ==
    [pc |-> pc, order |-> order, todo |-> todo, mode |-> mode, seen |-> NoRow, answer |-> "rejected"]
Idle == Request("idle", None, {}, "one")

TypeOK ==
    /\ rows \in [Orders -> RowType]
    /\ req \in [Requests -> RequestType]
    /\ sent \in [Orders -> Nat] /\ approvals \in [Orders -> Nat] /\ rejections \in [Orders -> Nat]
    /\ overlapped \in SUBSET Orders /\ unnumbered \in SUBSET Orders
    /\ faults \in 0 .. MaxFaults

Init ==
    /\ rows = [o \in Orders |-> NoRow]
    /\ req = [r \in Requests |-> Idle]
    /\ sent = [o \in Orders |-> 0]
    /\ approvals = [o \in Orders |-> 0] /\ rejections = [o \in Orders |-> 0]
    /\ overlapped = {} /\ unnumbered = {}
    /\ faults = 0

Fault == faults < MaxFaults /\ faults' = faults + 1

\* The request goes on with its order, as it knows it.
Carry(r, pc, row, answer) ==
    req' = [req EXCEPT ![r] = [pc |-> pc, order |-> req[r].order, todo |-> req[r].todo,
                               mode |-> req[r].mode, seen |-> row, answer |-> answer]]

\* The request goes on with its list, whose rows a commit or rollback has
\* expired, or ends.
Done(r) ==
    req' = [req EXCEPT ![r] = IF req[r].todo = {} THEN Idle
                              ELSE Request("next", None, req[r].todo, "expired")]

---------------------------------------------------------------------------
(* Orders arrive and are decided upon. *)

Queue(o) ==
    /\ rows[o].status = "none"
    /\ \E k \in Kinds : rows' = [rows EXCEPT ![o] = Row("pending", k)]
    /\ UNCHANGED <<req, sent, history, faults>>

Deciding(o) == {r \in Requests : req[r].order = o /\ req[r].pc \in {"approve", "reject"}}

\* A decision starts by finding the row pending; otherwise it is refused.
Begin(r, o, pc, todo) ==
    /\ rows[o].status = "pending"
    /\ req' = [req EXCEPT ![r] = Request(pc, o, todo, req[r].mode)]
    /\ overlapped' = IF Deciding(o) = {} THEN overlapped ELSE overlapped \cup {o}
    /\ UNCHANGED <<rows, sent, approvals, rejections, unnumbered, faults>>

Approve(r, o) == req[r].pc = "idle" /\ Begin(r, o, "approve", {})

FaultyReject(r, o) ==
    /\ req[r].pc = "idle" /\ rows[o].status \in {"pending", "approved"}
    /\ req' = [req EXCEPT ![r] = Request("reject", o, {}, "one")]
    /\ overlapped' = IF Deciding(o) = {} THEN overlapped ELSE overlapped \cup {o}
    /\ UNCHANGED <<rows, sent, approvals, rejections, unnumbered, faults>>

Reject(r, o) == req[r].pc = "idle" /\ Begin(r, o, "reject", {})

ApproveAll(r) ==
    /\ req[r].pc = "idle"
    /\ LET pending == {o \in Orders : rows[o].status = "pending"} IN
       /\ pending # {}
       /\ req' = [req EXCEPT ![r] = Request("next", None, pending, "list")]
    /\ UNCHANGED <<rows, sent, history, faults>>

\* The list is worked off in the order of creation, any order here.  A commit
\* has expired its rows: reading the key of one that was deleted raises, and
\* the rest of the list is left pending.
NextOrder(r) ==
    /\ req[r].pc = "next"
    /\ \E o \in req[r].todo :
          \/ Begin(r, o, "approve", req[r].todo \ {o})
          \/ /\ rows[o].status # "pending"
             /\ req' = [req EXCEPT ![r] =
                          IF req[r].todo = {o} \/ (rows[o].status = "deleted" /\ req[r].mode = "expired")
                          THEN Idle ELSE [req[r] EXCEPT !.todo = req[r].todo \ {o}]]
             /\ UNCHANGED <<rows, sent, history, faults>>

FaultyCommitApprove(r) ==
    LET o == req[r].order IN
    /\ req[r].pc = "approve"
    /\ \/ /\ rows[o].status # "deleted"
          /\ rows' = [rows EXCEPT ![o].status = "approved"]
          /\ approvals' = [approvals EXCEPT ![o] = @ + 1]
          /\ UNCHANGED faults
       \/ Fault /\ UNCHANGED <<rows, approvals>>
    /\ Carry(r, "execute", [rows[o] EXCEPT !.status = "approved"], "rejected")
    /\ UNCHANGED <<sent, rejections, overlapped, unnumbered>>

FaultyApproveOnly(r) ==
    LET o == req[r].order IN
    /\ req[r].pc = "approve" /\ rows[o].status # "deleted"
    /\ rows' = [rows EXCEPT ![o].status = "approved"]
    /\ approvals' = [approvals EXCEPT ![o] = @ + 1]
    /\ IF req[r].todo = {} THEN Carry(r, "execute", [rows[o] EXCEPT !.status = "approved"], "rejected")
       ELSE Done(r)
    /\ UNCHANGED <<sent, rejections, overlapped, unnumbered, faults>>

\* The row is written whatever became of it since it was read; only if it is
\* gone, or the commit fails, is the approval refused.
CommitApprove(r) ==
    LET o == req[r].order IN
    /\ req[r].pc = "approve"
    /\ \/ /\ rows[o].status # "deleted"
          /\ rows' = [rows EXCEPT ![o].status = "approved"]
          /\ approvals' = [approvals EXCEPT ![o] = @ + 1]
          /\ req' = [req EXCEPT ![r].pc = IF req[r].mode = "one" THEN "execute" ELSE "reload"]
          /\ UNCHANGED faults
       \/ /\ (rows[o].status = "deleted" /\ UNCHANGED faults) \/ Fault
          /\ Done(r)
          /\ UNCHANGED <<rows, approvals>>
    /\ UNCHANGED <<sent, rejections, overlapped, unnumbered>>

CommitReject(r) ==
    LET o == req[r].order IN
    /\ req[r].pc = "reject"
    /\ \/ /\ rows[o].status # "deleted"
          /\ rows' = [rows EXCEPT ![o].status = "rejected"]
          /\ rejections' = [rejections EXCEPT ![o] = @ + 1]
          /\ UNCHANGED faults
       \/ /\ (rows[o].status = "deleted" /\ UNCHANGED faults) \/ Fault
          /\ UNCHANGED <<rows, rejections>>
    /\ Done(r)
    /\ UNCHANGED <<sent, approvals, overlapped, unnumbered>>

\* One step: a row that was decided never becomes pending again.
Delete(r, o) ==
    /\ req[r].pc = "idle" /\ rows[o].status \in {"approved", "rejected"}
    /\ rows' = [rows EXCEPT ![o].status = "deleted"]
    /\ UNCHANGED <<req, sent, history, faults>>

---------------------------------------------------------------------------
(* execute_approved_order. *)

FaultyExecute(r) ==
    LET row == IF req[r].mode = "one" THEN rows[req[r].order] ELSE req[r].seen IN
    /\ req[r].pc = "execute"
    /\ IF row.status = "approved" /\ row.kind # "unrouted"
       THEN Carry(r, "place", row, "rejected")
       ELSE Done(r)
    /\ UNCHANGED <<rows, sent, history, faults>>

\* Logging the approval loads the row again; approve-all keeps it, and what
\* comes after is not seen by its execution.
Reload(r) ==
    LET row == rows[req[r].order] IN
    /\ req[r].pc = "reload"
    /\ IF row.status = "deleted" THEN Done(r)
       ELSE Carry(r, "execute", row, "rejected")
    /\ UNCHANGED <<rows, sent, history, faults>>

\* The row is looked up.  Without credentials or a service it is recorded as
\* rejected.
Execute(r) ==
    LET now == rows[req[r].order]
        row == IF req[r].mode = "one" \/ now.status = "deleted" THEN now ELSE req[r].seen
    IN
    /\ req[r].pc = "execute"
    /\ \/ row.status # "approved" /\ Done(r)
       \/ /\ row.status = "approved" /\ row.kind # "unrouted"
          /\ Carry(r, "place", row, "rejected")
       \/ /\ row.status = "approved"
          /\ Carry(r, "record", row, "rejected")
    /\ UNCHANGED <<rows, sent, history, faults>>

\* The service sends the order, or finds that there is nothing to do, or fails.
\* Only an answer with an identifier, or a failure, is recorded; a failure after
\* the broker took the order (an answer that is lost) counts as a fault.
Place(r) ==
    LET o == req[r].order
        sends == sent' = [sent EXCEPT ![o] = @ + 1]
        unrecorded == Done(r) /\ unnumbered' = unnumbered \cup {o}
        recorded(answer) == Carry(r, "record", req[r].seen, answer) /\ UNCHANGED unnumbered
    IN
    /\ req[r].pc = "place"
    /\ \/ /\ sends /\ UNCHANGED faults
          /\ IF rows[o].kind = "batch" THEN unrecorded ELSE recorded("open")
       \/ /\ rows[o].kind \in {"smart", "batch"}
          /\ unrecorded /\ UNCHANGED <<sent, faults>>
       \/ /\ UNCHANGED <<sent, faults>> \/ (sends /\ Fault)
          /\ recorded("rejected")
    /\ UNCHANGED <<rows, approvals, rejections, overlapped>>

\* update_broker_status writes what differs from the row the execution loaded.
Recorded(row, seen, answer) ==
    [row EXCEPT !.broker = IF answer = seen.broker THEN row.broker ELSE answer]

Record(r) ==
    LET o == req[r].order IN
    /\ req[r].pc = "record"
    /\ \/ /\ rows[o].status # "deleted"
          /\ rows' = [rows EXCEPT ![o] = Recorded(rows[o], req[r].seen, req[r].answer)]
          /\ UNCHANGED faults
       \/ ((rows[o].status = "deleted" /\ UNCHANGED faults) \/ Fault) /\ UNCHANGED rows
    /\ Done(r)
    /\ UNCHANGED <<sent, history>>

Restart ==
    /\ Fault
    /\ req' = [r \in Requests |-> Idle]
    /\ UNCHANGED <<rows, sent, history>>

Working(r) ==
    NextOrder(r) \/ CommitApprove(r) \/ CommitReject(r) \/ Reload(r) \/ Execute(r) \/ Place(r) \/ Record(r)

Next ==
    \/ \E o \in Orders : Queue(o)
    \/ \E r \in Requests :
          \/ \E o \in Orders : Approve(r, o) \/ Reject(r, o) \/ Delete(r, o)
          \/ ApproveAll(r) \/ Working(r)
    \/ Restart

Spec == Init /\ [][Next]_vars

\* A request that was begun is worked off; nobody has to make one.
FairSpec == Spec /\ \A r \in Requests : WF_vars(Working(r))

---------------------------------------------------------------------------
\* Each approval sends an order at most once, and nothing is sent without one:
\* through approve-all, overlapping requests, failures and restarts.
OneOrderPerApproval == \A o \in Orders : sent[o] <= approvals[o]

\* An order is approved or rejected, and once, unless two requests had both
\* found it pending before either decided.
OneDecision == \A o \in Orders \ overlapped : approvals[o] + rejections[o] <= 1

\* What has happened to an order by the history, whatever its row says; before
\* anything was decided, its row.
Stage(o) ==
    LET tally == <<approvals[o], rejections[o], sent[o]>> IN
    IF o \in overlapped THEN "disputed"
    ELSE CASE tally = <<0, 0, 0>> -> rows[o].status
           [] tally = <<1, 0, 0>> -> "approved"
           [] tally = <<0, 1, 0>> -> "rejected"
           [] tally = <<1, 0, 1>> -> "sent"
           [] OTHER -> "wrong"

Decision == INSTANCE OrderDecision WITH stage <- [o \in Orders |-> Stage(o)]

\* An order is decided once and sent once, after its approval and never after
\* its rejection, through lists, failed commits, lost answers, deletions and
\* restarts, unless two requests have found it pending at the same time.
ImplementsDecision == Decision!Spec

Busy(o) == \E r \in Requests : req[r].order = o /\ req[r].pc # "idle"

\* Without overlap or fault, the table tells what became of an order that
\* nobody is working on.  What is pending or rejected was not sent.  What was
\* approved was sent exactly if the broker's identifier is there; it has no
\* answer of the broker only if the service answered success without one, as a
\* batch does, and a smart order for which nothing had to be sent.
RowTellsTheOrder ==
    \A o \in Orders \ overlapped :
        faults = 0 /\ ~Busy(o) =>
            /\ rows[o].status \in {"none", "pending", "rejected"} => sent[o] = 0
            /\ rows[o].status = "approved" =>
                  CASE rows[o].broker = "open" -> sent[o] = 1
                    [] rows[o].broker = "rejected" -> sent[o] = 0
                    [] rows[o].broker = "none" ->
                          /\ o \in unnumbered /\ rows[o].kind \in {"smart", "batch"}
                          /\ rows[o].kind = "smart" => sent[o] = 0

\* What was approved reaches its service and is answered with success or is
\* recorded as rejected, also as part of a list, unless it is deleted or a
\* fault stops the request.
ApprovedIsExecuted ==
    \A o \in Orders :
        rows[o].status = "approved"
            ~> \/ rows[o].status # "approved" \/ rows[o].broker # "none"
               \/ o \in unnumbered \/ faults > 0
================================================================================
