------------------------------ MODULE Distribution ------------------------------
(***************************************************************************)
(* The distribution inbox: a publisher posts trade signals to webhooks     *)
(* (blueprints/distribution.py), each handled by a thread of its own; the   *)
(* signal log (database/distribution_db.py) holds one row per signal; and   *)
(* one background thread (services/fill_poller.py) copies the broker's      *)
(* order states into the log, reports them to the publisher and places the  *)
(* stop-loss and target children of a bracket once its entry has filled.    *)
(*                                                                         *)
(* A handler is cut where it waits: a broker call is one step and each      *)
(* commit is one step.  The poller works on ORM objects of one session: it  *)
(* keeps the attributes it loaded until a commit or a rollback expires      *)
(* them, and a commit writes the changes of every object of the session.    *)
(***************************************************************************)
EXTENDS Integers, FiniteSets, FiniteSetsExt

CONSTANTS Signals,      \* signal ids the publisher uses
          Requests,     \* webhook requests, one thread each
          Children,     \* the bracket legs a signal's payload asks for
          Quantity,     \* quantity of a signal
          ForceAlways,  \* the poller runs outside market hours, too
          Parts,        \* bound: legs whose orders may fill in parts
          Aging,        \* bound: legs whose rows may outlive the poller's window
          MaxOrders,    \* bound: orders the broker ever holds
          MaxFaults     \* bound: lost answers, failed commits and restarts

ASSUME BoundsAssumption == Quantity \in Nat \ {0} /\ MaxOrders \in Nat /\ MaxFaults \in Nat
ASSUME HoursAssumption == ForceAlways \in BOOLEAN
ASSUME SignalsAssumption == Signals # {}
ASSUME ChildrenAssumption == Children \in [Signals -> {{}, {"sl"}, {"sl", "tp"}}]

VARIABLES row,          \* the signal log, by signal id
          book,         \* the broker's orders, by order number
          orders,       \* how many orders the broker holds
          published,    \* the fill status the publisher last received
          req,          \* the webhook threads
          poll,         \* the poller's thread and its ORM session
          market,       \* the poller's hours, Monday to Friday 9:00 to 15:45
          old,          \* rows received more than 36 hours ago
          faults        \* faults so far

vars == <<row, book, orders, published, req, poll, market, old, faults>>
clock == <<market, old>>

Legs == {"entry", "sl", "tp", "exit"}
Ids == Signals \X Legs
Entry(s) == <<s, "entry">>
Failed == 0
OrderIds == 1 .. MaxOrders
Terminal == {"complete", "cancelled", "rejected"}
FillStates == Terminal \cup {"unseen", "open", "partial"}
ReqPc == {"ready", "place", "record", "attach", "cancel", "recheck", "status", "position",
          "close", "record_close", "mark", "clear", "cascade", "cancel_child", "mark_child", "done"}
PollPc == {"idle", "fetch", "compare", "place", "record", "clear"}

RowType == [status : {"absent", "placed", "failed", "cancelled"}, order : 0 .. MaxOrders,
            fill : FillStates, filled : 0 .. Quantity, bracket : BOOLEAN]
OrderType == [id : Ids, state : Terminal \cup {"open"}, filled : 0 .. Quantity, size : 0 .. Quantity]
ReqType == [pc : ReqPc, op : {"none", "receive", "cancel", "exit"}, s : Signals,
            order : 0 .. MaxOrders, qty : 0 .. Quantity, legs : SUBSET {"sl", "tp"},
            out : {"none", "success", "duplicate", "error"}]
SeenType == [fill : FillStates, filled : 0 .. Quantity, bracket : BOOLEAN]
PollType == [pc : PollPc, todo : SUBSET Ids, held : SUBSET Ids, seen : [Ids -> SeenType],
             ob : [OrderIds -> [state : FillStates, filled : 0 .. Quantity]],
             dirty : SUBSET Ids, drop : SUBSET Ids, cur : Ids, leg : {"sl", "tp"},
             order : 0 .. MaxOrders]

StateTypeOK ==
    /\ row \in [Ids -> RowType]
    /\ book \in [OrderIds -> OrderType]
    /\ orders \in 0 .. MaxOrders
    /\ published \in [Ids -> FillStates]
    /\ req \in [Requests -> ReqType]
    /\ poll \in PollType
    /\ faults \in 0 .. MaxFaults
ClockTypeOK == market \in BOOLEAN /\ old \in SUBSET Ids
TypeOK == StateTypeOK /\ ClockTypeOK

NoRow == [status |-> "absent", order |-> Failed, fill |-> "unseen", filled |-> 0, bracket |-> FALSE]
AnySignal == CHOOSE s \in Signals : TRUE
NoOrder == [id |-> Entry(AnySignal), state |-> "rejected", filled |-> 0, size |-> 0]
NoView == [fill |-> "unseen", filled |-> 0, bracket |-> FALSE]
Asleep == [pc |-> "idle", todo |-> {}, held |-> {}, seen |-> [i \in Ids |-> NoView],
           ob |-> [o \in OrderIds |-> [state |-> "unseen", filled |-> 0]],
           dirty |-> {}, drop |-> {}, cur |-> Entry(AnySignal), leg |-> "sl",
           order |-> Failed]
Ready == [pc |-> "ready", op |-> "none", s |-> AnySignal, order |-> Failed, qty |-> 0,
          legs |-> {}, out |-> "none"]

Init ==
    /\ row = [i \in Ids |-> NoRow]
    /\ book = [o \in OrderIds |-> NoOrder]
    /\ orders = 0
    /\ published = [i \in Ids |-> "unseen"]
    /\ req = [r \in Requests |-> Ready]
    /\ poll = Asleep
    /\ market = FALSE /\ old = {}
    /\ faults = 0

Fault == faults < MaxFaults /\ faults' = faults + 1

---------------------------------------------------------------------------
(* The broker. *)

\* The broker takes an order of n for signal id i.
Accept(i, n) ==
    /\ orders < MaxOrders
    /\ orders' = orders + 1
    /\ book' = [book EXCEPT ![orders + 1] = [id |-> i, state |-> "open", filled |-> 0, size |-> n]]

\* place_order: the answer is the order's number, or Failed: the broker
\* refused, or it took the order and the answer was lost or had no number.
Placed(i, n, answer) ==
    \/ Accept(i, n) /\ answer = orders + 1 /\ UNCHANGED faults
    \/ answer = Failed /\ UNCHANGED <<book, orders, faults>>
    \/ Accept(i, n) /\ answer = Failed /\ Fault

\* cancel_order: an open order is cancelled, unless the call fails; the
\* cancel of an order that has ended fails.
Cancels(o) ==
    /\ book[o].state = "open" /\ book' = [book EXCEPT ![o].state = "cancelled"]
    /\ UNCHANGED faults
CancelRefused(o) ==
    /\ UNCHANGED book
    /\ IF book[o].state = "open" THEN Fault ELSE UNCHANGED faults

\* Part or all of an open order fills.
BrokerFills(o) ==
    /\ o <= orders /\ book[o].state = "open"
    /\ \E n \in 1 .. (book[o].size - book[o].filled) :
         /\ book[o].id[2] \in Parts \/ n = book[o].size - book[o].filled
         /\ book' = [book EXCEPT ![o].filled = @ + n,
                                 ![o].state = IF book[o].filled + n = book[o].size THEN "complete" ELSE "open"]
    /\ UNCHANGED <<row, orders, published, req, poll, faults, clock>>

\* The exchange rejects an open order that has no fill, or cancels what is
\* left of one (the end-of-day square-off).
BrokerEnds(o) ==
    /\ o <= orders /\ book[o].state = "open"
    /\ \/ book[o].filled = 0 /\ book' = [book EXCEPT ![o].state = "rejected"]
       \/ book' = [book EXCEPT ![o].state = "cancelled"]
    /\ UNCHANGED <<row, orders, published, req, poll, faults, clock>>

\* The net position: entries buy, every other leg sells.
Net == MapThenSumSet(LAMBDA o : IF book[o].id[2] = "entry" THEN book[o].filled ELSE - book[o].filled,
                     1 .. orders)

---------------------------------------------------------------------------
(* Webhook threads. *)

Goto(r, pc) == req' = [req EXCEPT ![r].pc = pc]
Answered(r, out, order) ==
    [pc |-> "done", op |-> req[r].op, s |-> req[r].s, order |-> order, qty |-> 0, legs |-> {}, out |-> out]
Reply(r, out) ==
    req' = [req EXCEPT ![r] = Answered(r, out, IF out = "success" THEN req[r].order ELSE Failed)]

\* receive_signal_endpoint up to the broker call: a known signal id is
\* answered with the first result; without a broker session the signal fails.
Receive(r, s) ==
    /\ req[r].pc = "ready"
    /\ IF row[Entry(s)].status # "absent"
       THEN req' = [req EXCEPT ![r].pc = "done", ![r].op = "receive", ![r].s = s, ![r].out = "duplicate"]
       ELSE \E pc \in {"place", "record"} :
              req' = [req EXCEPT ![r].pc = pc, ![r].op = "receive", ![r].s = s]
    /\ UNCHANGED <<row, book, orders, published, poll, faults, clock>>

PlaceEntry(r) ==
    /\ req[r].pc = "place"
    /\ \E answer \in 0 .. MaxOrders :
         /\ Placed(Entry(req[r].s), Quantity, answer)
         /\ req' = [req EXCEPT ![r].pc = "record", ![r].order = answer]
    /\ UNCHANGED <<row, published, poll, clock>>

\* A row without an order number is as good as failed, also that of a child
\* whose success had none: nobody acts on it.
NewRow(order) ==
    [NoRow EXCEPT !.status = IF order = Failed THEN "failed" ELSE "placed", !.order = order]

FaultyRecordEntry(r) ==
    /\ req[r].pc = "record"
    /\ LET s == req[r].s IN
       /\ row' = [row EXCEPT ![Entry(s)] = IF @.status = "absent" THEN NewRow(req[r].order) ELSE @]
       /\ IF req[r].order = Failed THEN Reply(r, "error")
          ELSE IF Children[s] = {} THEN Reply(r, "success") ELSE Goto(r, "attach")
    /\ UNCHANGED <<book, orders, published, poll, faults, clock>>

\* record_signal: the unique constraint refuses a second row of one id, and
\* the request fails with the order it placed.
RecordEntry(r) ==
    /\ req[r].pc = "record"
    /\ LET s == req[r].s IN
       IF row[Entry(s)].status # "absent"
       THEN Reply(r, "error") /\ UNCHANGED row
       ELSE /\ row' = [row EXCEPT ![Entry(s)] = NewRow(req[r].order)]
            /\ IF req[r].order = Failed THEN Reply(r, "error")
               ELSE IF Children[s] = {} THEN Reply(r, "success") ELSE Goto(r, "attach")
    /\ UNCHANGED <<book, orders, published, poll, faults, clock>>

\* set_pending_bracket, a commit of its own after the row's.
AttachBracket(r) ==
    /\ req[r].pc = "attach"
    /\ row' = [row EXCEPT ![Entry(req[r].s)].bracket = TRUE]
    /\ Reply(r, "success")
    /\ UNCHANGED <<book, orders, published, poll, faults, clock>>

\* _lookup_original_for_modify_or_cancel: only a placed signal can be
\* cancelled or exited (a request refused here leaves no trace).  The row's
\* filled quantity is read now, the signal's own standing in for none.
Lookup(r, s, op, pc) ==
    /\ req[r].pc = "ready"
    /\ row[Entry(s)].status = "placed" /\ row[Entry(s)].order # Failed
    /\ req' = [req EXCEPT ![r] =
            [pc |-> pc, op |-> op, s |-> s, order |-> row[Entry(s)].order,
             qty |-> IF row[Entry(s)].filled = 0 THEN Quantity ELSE row[Entry(s)].filled,
             legs |-> {"sl", "tp"}, out |-> "none"]]
    /\ UNCHANGED <<row, book, orders, published, poll, faults, clock>>

Cancel(r, s) == Lookup(r, s, "cancel", "cancel")
Exit(r, s) == Lookup(r, s, "exit", "status")

\* The cancel call of /cancel and /exit.  /exit answers a failure with an
\* error, /cancel looks at the order's state first.
CallCancel(r) ==
    /\ req[r].pc = "cancel"
    /\ \/ Cancels(req[r].order) /\ Goto(r, "mark")
       \/ CancelRefused(req[r].order) /\ IF req[r].op = "cancel" THEN Goto(r, "recheck") ELSE Reply(r, "error")
    /\ UNCHANGED <<row, orders, published, poll, clock>>

\* A failed cancel of an order that is cancelled or rejected already is a
\* success without a cascade.  Otherwise (or if the order cannot be read)
\* "placed" is written over the "placed" this session loaded: no change.
Recheck(r) ==
    /\ req[r].pc = "recheck"
    /\ IF book[req[r].order].state \in {"cancelled", "rejected"}
       THEN \/ req' = [req EXCEPT ![r].pc = "mark", ![r].legs = {}] /\ UNCHANGED faults
            \/ Reply(r, "error") /\ Fault
       ELSE Reply(r, "error") /\ UNCHANGED faults
    /\ UNCHANGED <<row, book, orders, published, poll, clock>>

\* /exit reads the order's state.  Not every broker reports an open order
\* with fills as partial.
ReadStatus(r) ==
    /\ req[r].pc = "status"
    /\ LET o == book[req[r].order] IN
       \/ o.state = "open" /\ Goto(r, "cancel") /\ UNCHANGED faults
       \/ (o.state = "complete" \/ (o.state = "open" /\ o.filled > 0)) /\ Goto(r, "position") /\ UNCHANGED faults
       \/ o.state \in {"cancelled", "rejected"} /\ Goto(r, "mark") /\ UNCHANGED faults
       \/ Reply(r, "error") /\ Fault
    /\ UNCHANGED <<row, book, orders, published, poll, clock>>

\* /exit reads the position.  None left, or none that could be read, is
\* taken as already closed; otherwise it closes no more than the position.
ReadPosition(r) ==
    /\ req[r].pc = "position"
    /\ IF Net > 0
       THEN \/ \E n \in 1 .. req[r].qty :
                 /\ n <= Net /\ n \in {req[r].qty, Net}
                 /\ req' = [req EXCEPT ![r].pc = "close", ![r].qty = n]
                 /\ UNCHANGED faults
            \/ Goto(r, "mark") /\ Fault
       ELSE Goto(r, "mark") /\ UNCHANGED faults
    /\ UNCHANGED <<row, book, orders, published, poll, clock>>

FaultyPlaceClose(r) ==
    /\ req[r].pc = "close"
    /\ \E answer \in 0 .. MaxOrders :
         /\ Placed(<<req[r].s, "exit">>, req[r].qty, answer)
         /\ IF answer = Failed THEN Reply(r, "error") ELSE Goto(r, "mark")
    /\ UNCHANGED <<row, published, poll, clock>>

\* An order the broker took is logged, also if its answer has no number.
PlaceClose(r) ==
    /\ req[r].pc = "close"
    /\ \E answer \in 0 .. MaxOrders :
         /\ Placed(<<req[r].s, "exit">>, req[r].qty, answer)
         /\ \/ answer = Failed /\ Reply(r, "error")
            \/ /\ orders' # orders
               /\ req' = [req EXCEPT ![r].pc = "record_close", ![r].order = answer]
    /\ UNCHANGED <<row, published, poll, clock>>

\* The close order is logged under an id of its own, once.
RecordClose(r) ==
    /\ req[r].pc = "record_close"
    /\ LET i == <<req[r].s, "exit">> IN
       IF row[i].status # "absent"
       THEN Reply(r, "error") /\ UNCHANGED row
       ELSE /\ row' = [row EXCEPT ![i] = [NewRow(req[r].order) EXCEPT !.status = "placed"]]
            /\ Goto(r, "mark")
    /\ UNCHANGED <<book, orders, published, poll, clock, faults>>

\* update_signal_status(..., "cancelled") of the entry.
MarkCancelled(r) ==
    /\ req[r].pc = "mark"
    /\ row' = [row EXCEPT ![Entry(req[r].s)].status = "cancelled"]
    /\ Goto(r, "clear")
    /\ UNCHANGED <<book, orders, published, poll, faults, clock>>

\* clear_pending_bracket.
ClearBracket(r) ==
    /\ req[r].pc = "clear"
    /\ row' = [row EXCEPT ![Entry(req[r].s)].bracket = FALSE]
    /\ Goto(r, "cascade")
    /\ UNCHANGED <<book, orders, published, poll, faults, clock>>

\* _cascade_cancel_bracket_children: the stop first, then the target; a
\* child that is not in the log as placed with an order is passed over.
CascadeLeg(r) == IF "sl" \in req[r].legs THEN "sl" ELSE "tp"
Child(r) == <<req[r].s, CascadeLeg(r)>>
PassLeg(r) == req' = [req EXCEPT ![r].pc = "cascade", ![r].legs = @ \ {CascadeLeg(r)}]

Cascade(r) ==
    /\ req[r].pc = "cascade"
    /\ IF req[r].legs = {} THEN Reply(r, "success")
       ELSE IF row[Child(r)].status = "placed" /\ row[Child(r)].order # Failed
       THEN Goto(r, "cancel_child")
       ELSE PassLeg(r)
    /\ UNCHANGED <<row, book, orders, published, poll, faults, clock>>

CancelChild(r) ==
    /\ req[r].pc = "cancel_child"
    /\ \/ Cancels(row[Child(r)].order) /\ Goto(r, "mark_child")
       \/ CancelRefused(row[Child(r)].order) /\ PassLeg(r)
    /\ UNCHANGED <<row, orders, published, poll, clock>>

MarkChild(r) ==
    /\ req[r].pc = "mark_child"
    /\ row' = [row EXCEPT ![Child(r)].status = "cancelled"]
    /\ PassLeg(r)
    /\ UNCHANGED <<book, orders, published, poll, faults, clock>>

\* A commit fails (the database is locked): the request ends with an error.
CommitFails(r) ==
    /\ req[r].pc \in {"record", "attach", "record_close", "mark", "clear", "mark_child"}
    /\ Fault
    /\ Reply(r, "error")
    /\ UNCHANGED <<row, book, orders, published, poll, clock>>

---------------------------------------------------------------------------
(* The fill poller. *)

FaultyPollable(i) == row[i].status = "placed" /\ row[i].fill \notin Terminal /\ i \notin old

\* A row whose order is known and not yet final, while it is in the window.
Pollable(i) == row[i].order # Failed /\ row[i].fill \notin Terminal /\ i \notin old
View(i) == [fill |-> row[i].fill, filled |-> row[i].filled, bracket |-> row[i].bracket]

\* What the poller's session shows of a row: the loaded attributes, or the
\* row itself once a commit or a rollback has expired them.
Shown(i) == IF i \in poll.held THEN poll.seen[i] ELSE View(i)

\* poll_once loads the rows it polls.
PollStart ==
    /\ poll.pc = "idle" /\ (ForceAlways \/ market)
    /\ LET open == {i \in Ids : Pollable(i)} IN
       /\ open # {}
       /\ poll' = [Asleep EXCEPT !.pc = "fetch", !.todo = open, !.held = open,
                                 !.seen = [i \in Ids |-> IF i \in open THEN View(i) ELSE NoView]]
    /\ UNCHANGED <<row, book, orders, published, req, faults, clock>>

FaultyReported(o) ==
    [state |-> IF book[o].state \in {"cancelled", "rejected"} THEN "cancelled" ELSE book[o].state,
     filled |-> book[o].filled]

\* _extract_fill_state: an open order with some fills is partial.
Reported(o) ==
    [state |-> IF book[o].state = "open" /\ book[o].filled > 0 THEN "partial" ELSE book[o].state,
     filled |-> book[o].filled]

\* One orderbook fetch for the cycle.  It need not show every order that is
\* asked for: the broker may have dropped one, or use a status nobody knows.
Fetch(visible) ==
    /\ poll.pc = "fetch"
    /\ poll' = [poll EXCEPT !.pc = "compare",
                            !.ob = [o \in OrderIds |-> IF o \in visible THEN Reported(o) ELSE @[o]]]
    /\ UNCHANGED <<row, book, orders, published, req, clock, faults>>

Polled == {row[i].order : i \in poll.todo}
FetchShows(o) == \E visible \in SUBSET Polled : o \in visible /\ Fetch(visible)
FetchOrderbook == \E visible \in SUBSET Polled : Fetch(visible)

\* Without a broker session or an answer nothing is compared.
OrderbookFails ==
    /\ poll.pc = "fetch"
    /\ poll' = Asleep
    /\ UNCHANGED <<row, book, orders, published, req, clock, faults>>

\* The rows are taken in any order (the query names none); one whose order is
\* not visible, or that shows what the broker shows (_is_unchanged), is passed
\* over.
Differs(i) ==
    LET now == poll.ob[row[i].order] IN
    now.state # "unseen" /\ (Shown(i).fill # now.state \/ Shown(i).filled # now.filled)

FaultyNextStep(bracket, fill) ==
    IF bracket /\ fill \in {"complete", "partial"} THEN {"place", "clear"} ELSE {"compare"}

\* What is to be done about the bracket of a row that has changed: a complete
\* entry gets its children, unless there is no broker session: then they
\* are given up and the bracket is cleared all the same.
NextStep(bracket, fill) ==
    IF bracket /\ fill = "complete" THEN {"place", "clear"} ELSE {"compare"}

\* The object takes the broker's state; the publisher is told now, before
\* any commit, and a post that fails is not repeated.  The bracket of an
\* entry that ended without completing is dropped.
Compare(i) ==
    /\ poll.pc = "compare" /\ i \in poll.todo /\ Differs(i)
    /\ LET now == poll.ob[row[i].order]
           bracket == Shown(i).bracket
       IN
       /\ \E pc \in NextStep(bracket, now.state) :
            poll' = [poll EXCEPT !.pc = pc, !.cur = i, !.leg = "sl",
                        !.todo = @ \ {i},
                        !.dirty = @ \cup {i}, !.held = @ \cup {i},
                        !.drop = IF bracket /\ now.state \in {"cancelled", "rejected"} THEN @ \cup {i} ELSE @,
                        !.seen[i] = [fill |-> now.state, filled |-> now.filled, bracket |-> bracket]]
       /\ \/ published' = [published EXCEPT ![i] = now.state] /\ UNCHANGED faults
          \/ Fault /\ UNCHANGED published
    /\ UNCHANGED <<row, book, orders, req, clock>>

\* place_order of a child, for the quantity its entry filled.
ChildOf(i, leg) == <<i[1], leg>>

PlaceChild ==
    /\ poll.pc = "place"
    /\ \E answer \in 0 .. MaxOrders :
         /\ Placed(ChildOf(poll.cur, poll.leg), poll.seen[poll.cur].filled, answer)
         /\ poll' = [poll EXCEPT !.pc = "record", !.order = answer]
    /\ UNCHANGED <<row, published, req, clock>>

\* What a commit of the session writes, and the session after it.
Flushed ==
    [i \in Ids |->
        [row[i] EXCEPT !.fill = IF i \in poll.dirty THEN poll.seen[i].fill ELSE @,
                       !.filled = IF i \in poll.dirty THEN poll.seen[i].filled ELSE @,
                       !.bracket = @ /\ i \notin poll.drop]]
Expired(pc) == [poll EXCEPT !.pc = pc, !.held = {}, !.dirty = {}, !.drop = {}]

FaultyRecordChild ==
    /\ poll.pc = "record"
    /\ LET i == ChildOf(poll.cur, poll.leg) IN
       IF row[i].status # "absent"
       THEN poll' = [Expired("compare") EXCEPT !.leg = "sl"] /\ UNCHANGED row
       ELSE /\ row' = [Flushed EXCEPT ![i] = NewRow(poll.order)]
            /\ poll' = IF poll.leg = "sl" /\ "tp" \in Children[poll.cur[1]]
                       THEN Expired("place")
                       ELSE Expired("clear")
    /\ UNCHANGED <<book, orders, published, req, faults, clock>>

\* record_signal of a child: its commit also writes the entry's new state,
\* and so makes it final, before the second child and before the bracket is
\* cleared.  A child that is in the log already rolls all of it back.
RecordChild ==
    /\ poll.pc = "record"
    /\ LET i == ChildOf(poll.cur, poll.leg) IN
       IF row[i].status # "absent"
       THEN poll' = Expired("compare") /\ UNCHANGED row
       ELSE /\ row' = [Flushed EXCEPT ![i] = NewRow(poll.order)]
            /\ poll' = IF poll.leg = "sl" /\ "tp" \in Children[poll.cur[1]]
                       THEN [Expired("place") EXCEPT !.leg = "tp"]
                       ELSE Expired("clear")
    /\ UNCHANGED <<book, orders, published, req, faults, clock>>

\* clear_pending_bracket in the poller's session.
ClearPlaced ==
    /\ poll.pc = "clear"
    /\ IF Shown(poll.cur).bracket
       THEN /\ row' = [Flushed EXCEPT ![poll.cur].bracket = FALSE]
            /\ poll' = Expired("compare")
       ELSE poll' = [poll EXCEPT !.pc = "compare"] /\ UNCHANGED row
    /\ UNCHANGED <<book, orders, published, req, faults, clock>>

\* The end of the cycle: no row is left that differs.
CycleEnds == poll.pc = "compare" /\ \A i \in poll.todo : ~Differs(i)

PollCommit ==
    /\ CycleEnds
    /\ row' = Flushed
    /\ poll' = Asleep
    /\ UNCHANGED <<book, orders, published, req, faults, clock>>

\* A commit of the poller fails and rolls the session back.  In a child's
\* placement the exception ends the placement; at the end, the cycle.
PollCommitFails ==
    /\ \/ poll.pc \in {"record", "clear"} /\ poll' = Expired("compare")
       \/ CycleEnds /\ poll' = Asleep
    /\ Fault
    /\ UNCHANGED <<row, book, orders, published, req, clock>>

---------------------------------------------------------------------------
(* The container stops and starts again: threads and sessions are gone, the *)
(* log, the broker and the publisher remain.                                *)
Restart ==
    /\ Fault
    /\ req' = [r \in Requests |-> IF req[r].pc \in {"ready", "done"} THEN req[r]
                                  ELSE Answered(r, "error", Failed)]
    /\ poll' = Asleep
    /\ UNCHANGED <<row, book, orders, published, clock>>

---------------------------------------------------------------------------
(* The clock. *)

\* The poller's hours begin and end, unless it does not ask for them.
MarketOpens ==
    /\ ~ForceAlways /\ ~market /\ market' = TRUE
    /\ UNCHANGED <<row, book, orders, published, req, poll, old, faults>>
MarketCloses ==
    /\ ~ForceAlways /\ market /\ market' = FALSE
    /\ UNCHANGED <<row, book, orders, published, req, poll, old, faults>>

\* A row that is still polled passes the 36 hours of the poller's window.
GrowsOld(i) ==
    /\ i[2] \in Aging /\ Pollable(i)
    /\ old' = old \cup {i}
    /\ UNCHANGED <<row, book, orders, published, req, poll, market, faults>>

Webhook(r) ==
    \/ \E s \in Signals : Receive(r, s) \/ Cancel(r, s) \/ Exit(r, s)
    \/ PlaceEntry(r) \/ RecordEntry(r) \/ AttachBracket(r)
    \/ CallCancel(r) \/ Recheck(r) \/ ReadStatus(r) \/ ReadPosition(r) \/ PlaceClose(r)
    \/ RecordClose(r) \/ MarkCancelled(r) \/ ClearBracket(r)
    \/ Cascade(r) \/ CancelChild(r) \/ MarkChild(r) \/ CommitFails(r)

Cycle ==
    \/ FetchOrderbook \/ OrderbookFails
    \/ \E i \in Ids : Compare(i)
    \/ PlaceChild \/ RecordChild \/ ClearPlaced \/ PollCommit \/ PollCommitFails
Poller == PollStart \/ Cycle

Clock == MarketOpens \/ MarketCloses \/ \E i \in Ids : GrowsOld(i)

Next ==
    \/ \E r \in Requests : Webhook(r)
    \/ Poller
    \/ \E o \in OrderIds : BrokerFills(o) \/ BrokerEnds(o)
    \/ Clock
    \/ Restart

Spec == Init /\ [][Next]_vars

\* The poller's thread is never starved: a cycle goes on to its end, and as
\* it tries every 30 seconds, of the sessions that go on to come some are met.
\* Of the cycles that ask for an entry some get an orderbook that shows it:
\* this is assumed of the broker and of the owner, who must log in to it.
\* Requests, faults and age are under no obligation.
FairSpec ==
    /\ Spec
    /\ WF_vars(Cycle) /\ WF_vars(MarketOpens) /\ SF_vars(PollStart)
    /\ \A s \in Signals : SF_vars(FetchShows(row[Entry(s)].order))

---------------------------------------------------------------------------
\* A request that reports success has its own order in the log: of two posts
\* of one signal that both reach the broker, the one whose order is not
\* recorded is answered with an error.
SuccessMeansTracked ==
    \A r \in Requests :
        req[r].pc = "done" /\ req[r].op = "receive" /\ req[r].out = "success"
            => /\ row[Entry(req[r].s)].order = req[r].order
               /\ book[req[r].order].id = Entry(req[r].s)

\* A stop or a target is at the broker only if the entry it protects is in
\* the log and has filled completely, however stale the poller's view of
\* the row is and whatever was cancelled, exited or rolled back meanwhile.
ChildrenFollowTheFill ==
    \A o \in 1 .. orders : book[o].id[2] \in {"sl", "tp"} =>
        LET entry == row[Entry(book[o].id[1])].order IN
        entry # Failed /\ book[entry].state = "complete"

\* A second stop or target of one signal is at the broker only after a lost
\* answer, a failed commit or a restart: the poller alone never repeats one.
OneChildUnlessAFault ==
    \A s \in Signals : \A leg \in {"sl", "tp"} :
        Cardinality({o \in 1 .. orders : book[o].id = <<s, leg>>}) <= 1 + faults

\* A final fill status, in the log and at the publisher, is the state the
\* order ended in, and the log's quantity is the order's.
FinalFillIsTheBrokers ==
    \A i \in Ids :
        /\ row[i].fill \in Terminal =>
              /\ row[i].order # Failed
              /\ book[row[i].order].state = row[i].fill
              /\ book[row[i].order].filled = row[i].filled
        /\ published[i] \in Terminal => book[row[i].order].state = published[i]

\* Without faults no order at the broker belongs to a signal the log does not
\* know: a thread is about to record it, or the signal is in the log (with
\* another order, or as failed, if two posts of it raced).
InFlight(o) ==
    \/ \E r \in Requests : req[r].pc \in {"record", "record_close"} /\ req[r].order = o
    \/ poll.pc = "record" /\ poll.order = o
OrdersAreLogged ==
    faults = 0 => \A o \in 1 .. orders : InFlight(o) \/ row[book[o].id].status # "absent"

\* The final state of an entry's order reaches the log, whether its signal was
\* cancelled, exited or rolled back meanwhile, unless the row leaves the
\* poller's window before: that happens over a weekend.
FillReachesTheLog ==
    \A s \in Signals :
        row[Entry(s)].order # Failed /\ book[row[Entry(s)].order].state \in Terminal
            ~> row[Entry(s)].fill \in Terminal \/ Entry(s) \in old
===============================================================================
