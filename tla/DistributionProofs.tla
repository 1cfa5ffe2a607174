-------------------------- MODULE DistributionProofs --------------------------
(***************************************************************************)
(* Proofs about Distribution for any signals, requests, brackets, bounds    *)
(* and faults.                                                              *)
(*                                                                         *)
(* What makes the properties hold is that orders and log rows only ever     *)
(* gain: an order keeps its signal and its final state, a row its order     *)
(* number.  So what a thread learned before it waited is still true after   *)
(* it, and the poller, the only writer of the fill columns, never meets a   *)
(* row twice in one cycle.                                                  *)
(***************************************************************************)
EXTENDS Distribution, FiniteSetTheorems, TLAPS

USE BoundsAssumption, SignalsAssumption, ChildrenAssumption DEF Failed

-----------------------------------------------------------------------------
(* The inductive invariant                                                  *)

ChildLegs == {"sl", "tp"}

\* The log: a row names an order of its own signal and leg, only an entry has
\* a bracket, and a child is in the log only after its entry is final there.
RowOK(i) ==
    /\ row[i].status = "absent" => row[i] = NoRow
    /\ row[i].order # Failed => row[i].order <= orders /\ book[row[i].order].id = i
    /\ row[i].bracket => i[2] = "entry"
    /\ row[i].status # "absent" /\ i[2] \in ChildLegs => row[Entry(i[1])].fill \in Terminal
LogOK == \A i \in Ids : RowOK(i)

Receiving == {"place", "record", "attach"}
Withdrawing == {"cancel", "recheck", "status", "position", "close", "record_close", "mark", "clear",
                "cascade", "cancel_child", "mark_child"}

\* The order a thread holds is an order of its own signal.
Holds(r, i) == req[r].order # Failed => req[r].order <= orders /\ book[req[r].order].id = i

ReqOK(r) ==
    /\ req[r].pc = "ready" => req[r].order = Failed
    /\ req[r].pc \in Receiving => req[r].op = "receive"
    /\ req[r].pc \in Withdrawing => req[r].op # "receive" /\ row[Entry(req[r].s)].order # Failed
    /\ req[r].pc = "record" => Holds(r, Entry(req[r].s))
    /\ req[r].pc = "record_close" => Holds(r, <<req[r].s, "exit">>)
    /\ req[r].pc = "attach" \/ (req[r].pc = "done" /\ req[r].op = "receive" /\ req[r].out = "success")
          => req[r].order # Failed /\ row[Entry(req[r].s)].order = req[r].order
    /\ req[r].pc \in {"cancel_child", "mark_child"} => row[Child(r)].status # "absent"

\* The poller: the rows still to do and the rows changed but not committed
\* are not final in the log, and none is both.
SessionOK ==
    /\ \A i \in poll.todo : row[i].order # Failed /\ row[i].fill \notin Terminal
    /\ \A i \in poll.dirty :
          /\ row[i].order # Failed /\ row[i].fill \notin Terminal
          /\ poll.seen[i].fill \in Terminal =>
                /\ book[row[i].order].state = poll.seen[i].fill
                /\ book[row[i].order].filled = poll.seen[i].filled
    /\ \A i \in poll.dirty : i \notin poll.todo
    /\ \A i \in Ids : poll.seen[i].bracket => i[2] = "entry"

\* A final state in the orderbook the poller fetched is the order's.
OrderbookOK ==
    \A o \in OrderIds : poll.ob[o].state \in Terminal =>
        o <= orders /\ book[o].state = poll.ob[o].state /\ book[o].filled = poll.ob[o].filled

\* The child being placed: its entry is complete, it is not in the log, and
\* its entry is final in the log only when the target's turn has come.
PlacingOK ==
    LET i == poll.cur
        child == ChildOf(poll.cur, poll.leg)
    IN  /\ poll.pc \in {"place", "record"} =>
              /\ i[2] = "entry" /\ row[i].order # Failed /\ book[row[i].order].state = "complete"
              /\ row[child].status = "absent"
              /\ IF poll.leg = "sl" THEN i \in poll.dirty /\ poll.seen[i].fill = "complete"
                 ELSE row[i].fill \in Terminal
        /\ poll.pc = "record" /\ poll.order # Failed =>
              poll.order <= orders /\ book[poll.order].id = child

FillsOK ==
    \A i \in Ids :
        /\ row[i].fill \in Terminal =>
              /\ row[i].order # Failed
              /\ book[row[i].order].state = row[i].fill
              /\ book[row[i].order].filled = row[i].filled
        /\ published[i] \in Terminal =>
              row[i].order # Failed /\ book[row[i].order].state = published[i]

\* The poller has yet to place this child, or may have to.
Fresh(s, leg) ==
    \/ poll.pc = "place" /\ poll.cur = Entry(s) /\ poll.leg = leg
    \/ /\ row[Entry(s)].fill \notin Terminal
       /\ ~(poll.pc = "record" /\ poll.cur = Entry(s) /\ poll.leg = leg)

OrdersOf(i) == {o \in 1 .. orders : book[o].id = i}
ChildrenCounted ==
    \A s \in Signals : \A leg \in ChildLegs :
        Cardinality(OrdersOf(<<s, leg>>)) <= IF Fresh(s, leg) THEN faults ELSE 1 + faults

DistInv ==
    /\ StateTypeOK /\ LogOK /\ (\A r \in Requests : ReqOK(r))
    /\ SessionOK /\ OrderbookOK /\ PlacingOK
    /\ FillsOK /\ ChildrenFollowTheFill /\ OrdersAreLogged /\ ChildrenCounted

-----------------------------------------------------------------------------
(* Types                                                                    *)

\* What the constants of the model are.
LEMMA ConstantTypes ==
    /\ AnySignal \in Signals
    /\ \A s \in Signals : \A leg \in Legs : <<s, leg>> \in Ids /\ <<s, leg>>[1] = s /\ <<s, leg>>[2] = leg
    /\ \A s \in Signals : Entry(s) \in Ids /\ Entry(s)[1] = s /\ Entry(s)[2] = "entry"
    /\ \A i \in Ids : i[1] \in Signals /\ i[2] \in Legs /\ i = <<i[1], i[2]>>
<1>1. AnySignal \in Signals  BY DEF AnySignal
<1>2. \A s \in Signals : \A leg \in Legs : <<s, leg>> \in Ids /\ <<s, leg>>[1] = s /\ <<s, leg>>[2] = leg
  BY DEF Ids
<1>3. \A s \in Signals : Entry(s) \in Ids /\ Entry(s)[1] = s /\ Entry(s)[2] = "entry"
  BY DEF Ids, Entry, Legs
<1>4. \A i \in Ids : i[1] \in Signals /\ i[2] \in Legs /\ i = <<i[1], i[2]>>
  BY DEF Ids
<1> QED BY <1>1, <1>2, <1>3, <1>4

\* The initial records, and the poller's after it has been restarted.
LEMMA RecordTypes ==
    /\ NoRow \in RowType /\ Ready \in ReqType /\ Asleep \in PollType /\ NoOrder \in OrderType
    /\ \A n \in 0 .. MaxOrders : NewRow(n) \in RowType
    /\ \A n \in 0 .. MaxOrders :
          NewRow(n) = [status |-> IF n = Failed THEN "failed" ELSE "placed", order |-> n,
                       fill |-> "unseen", filled |-> 0, bracket |-> FALSE]
<1>1. NoRow \in RowType  BY DEF NoRow, RowType, FillStates
<1>2. Ready \in ReqType  BY ConstantTypes DEF Ready, ReqType, ReqPc
<1>3. NoOrder \in OrderType  BY ConstantTypes DEF NoOrder, OrderType, Terminal
<1>4. Asleep \in PollType
  BY ConstantTypes DEF Asleep, PollType, PollPc, SeenType, NoView, FillStates
<1>5. ASSUME NEW n \in 0 .. MaxOrders
      PROVE NewRow(n) = [status |-> IF n = Failed THEN "failed" ELSE "placed", order |-> n,
                         fill |-> "unseen", filled |-> 0, bracket |-> FALSE]
  <2> DEFINE st == IF n = Failed THEN "failed" ELSE "placed"
  <2>1. NewRow(n) = [NoRow EXCEPT !.status = st, !.order = n]  BY DEF NewRow
  <2> HIDE DEF st
  <2>2. NewRow(n) = [status |-> st, order |-> n, fill |-> "unseen", filled |-> 0, bracket |-> FALSE]
    BY <2>1 DEF NoRow
  <2> QED BY <2>2 DEF st
<1>6. ASSUME NEW n \in 0 .. MaxOrders PROVE NewRow(n) \in RowType
  <2>1. CASE n = Failed
    <3>1. NewRow(n) = [status |-> "failed", order |-> n, fill |-> "unseen", filled |-> 0, bracket |-> FALSE]
      BY <1>5, <2>1
    <3> QED BY <3>1 DEF RowType, FillStates
  <2>2. CASE n # Failed
    <3>1. NewRow(n) = [status |-> "placed", order |-> n, fill |-> "unseen", filled |-> 0, bracket |-> FALSE]
      BY <1>5, <2>2
    <3> QED BY <3>1 DEF RowType, FillStates
  <2> QED BY <2>1, <2>2
<1> QED BY <1>1, <1>2, <1>3, <1>4, <1>5, <1>6

LEMMA InitType == Init => StateTypeOK
BY RecordTypes DEF Init, StateTypeOK, FillStates

\* What placing an order does to the broker, whatever the answer.
LEMMA PlacedIs ==
    ASSUME StateTypeOK, NEW i \in Ids, NEW n \in 0 .. Quantity, NEW answer, Placed(i, n, answer)
    PROVE  /\ book' \in [OrderIds -> OrderType] /\ orders' \in 0 .. MaxOrders /\ faults' \in 0 .. MaxFaults
           /\ answer \in 0 .. MaxOrders
           /\ faults' = faults \/ faults' = faults + 1
           /\ \/ book' = book /\ orders' = orders /\ answer = Failed
              \/ /\ orders' = orders + 1 /\ book'[orders + 1].id = i
                 /\ \A o \in OrderIds \ {orders + 1} : book'[o] = book[o]
                 /\ answer = orders + 1 \/ (answer = Failed /\ faults' = faults + 1)
<1> USE DEF StateTypeOK, OrderIds
<1>1. CASE Accept(i, n)
  <2>1. orders + 1 \in OrderIds /\ orders' = orders + 1
    BY <1>1 DEF Accept
  <2>2. [id |-> i, state |-> "open", filled |-> 0, size |-> n] \in OrderType
    BY DEF OrderType
  <2>3. /\ book' \in [OrderIds -> OrderType] /\ book'[orders + 1].id = i
        /\ \A o \in OrderIds \ {orders + 1} : book'[o] = book[o]
    BY <1>1, <2>1, <2>2 DEF Accept
  <2> QED BY <1>1, <2>1, <2>3 DEF Placed, Fault
<1>2. CASE answer = Failed /\ UNCHANGED <<book, orders, faults>>
  BY <1>2
<1> QED BY <1>1, <1>2 DEF Placed

\* What a cancel call does to the broker.
LEMMA CancelIs ==
    ASSUME StateTypeOK, NEW o \in 0 .. MaxOrders, Cancels(o) \/ CancelRefused(o)
    PROVE  /\ book' \in [OrderIds -> OrderType] /\ faults' \in 0 .. MaxFaults
           /\ faults' = faults \/ faults' = faults + 1
           /\ \A p \in OrderIds : /\ book'[p].id = book[p].id
                                  /\ book[p].state \in Terminal => book'[p] = book[p]
<1>1. CASE Cancels(o)
  <2>1. book' = [book EXCEPT ![o].state = "cancelled"] /\ faults' = faults /\ book[o].state = "open"
    BY <1>1 DEF Cancels
  <2>2. book \in [OrderIds -> OrderType]  BY DEF StateTypeOK
  <2>3. \A p \in OrderIds : book'[p] = IF p = o THEN [book[p] EXCEPT !.state = "cancelled"] ELSE book[p]
    BY <2>1, <2>2
  <2>4. \A p \in OrderIds : book'[p] \in OrderType /\ book'[p].id = book[p].id
    BY <2>2, <2>3 DEF OrderType, Terminal
  <2>5. book' \in [OrderIds -> OrderType]  BY <2>1, <2>2, <2>4
  <2> QED BY <2>1, <2>3, <2>4, <2>5 DEF StateTypeOK, Terminal
<1>2. CASE CancelRefused(o)
  BY <1>2 DEF CancelRefused, StateTypeOK, Fault
<1> QED BY <1>1, <1>2

\* What a reply or a jump does to the threads.
LEMMA ReplyIs ==
    ASSUME StateTypeOK, NEW r \in Requests, NEW out \in {"success", "error"}, Reply(r, out)
    PROVE  /\ req' \in [Requests -> ReqType]
           /\ \A q \in Requests \ {r} : req'[q] = req[q]
           /\ req'[r].pc = "done" /\ req'[r].op = req[r].op /\ req'[r].s = req[r].s /\ req'[r].out = out
           /\ req'[r].order = IF out = "success" THEN req[r].order ELSE Failed
<1> DEFINE n == IF out = "success" THEN req[r].order ELSE Failed
           v == [pc |-> "done", op |-> req[r].op, s |-> req[r].s, order |-> n, qty |-> 0,
                 legs |-> {}, out |-> out]
<1>1. req \in [Requests -> ReqType] /\ req[r] \in ReqType  BY DEF StateTypeOK
<1>2. n \in 0 .. MaxOrders  BY <1>1 DEF ReqType, ReqPc
<1>3. req' = [req EXCEPT ![r] = v]  BY DEF Reply, Answered
<1> HIDE DEF n
<1>4. v \in ReqType  BY <1>1, <1>2 DEF ReqType, ReqPc
<1>5. /\ req' \in [Requests -> ReqType] /\ req'[r] = v
      /\ \A q \in Requests \ {r} : req'[q] = req[q]
  <2> HIDE DEF v
  <2> QED BY <1>1, <1>3, <1>4
<1>6. v.pc = "done" /\ v.op = req[r].op /\ v.s = req[r].s /\ v.out = out /\ v.order = n  OBVIOUS
<1> HIDE DEF v
<1> QED BY <1>5, <1>6 DEF n

LegSets == SUBSET {"sl", "tp"}

\* One field of one thread changes.
LEMMA SetPc ==
    ASSUME NEW f \in [Requests -> ReqType], NEW r \in Requests, NEW w \in ReqPc
    PROVE  LET g == [f EXCEPT ![r].pc = w]
           IN  /\ g \in [Requests -> ReqType] /\ \A q \in Requests \ {r} : g[q] = f[q]
               /\ g[r].pc = w
               /\ g[r].op = f[r].op /\ g[r].s = f[r].s /\ g[r].order = f[r].order
               /\ g[r].qty = f[r].qty /\ g[r].legs = f[r].legs /\ g[r].out = f[r].out
<1> DEFINE g == [f EXCEPT ![r].pc = w]
           v == [f[r] EXCEPT !.pc = w]
<1>1. f[r] \in ReqType  OBVIOUS
<1>2. /\ v \in ReqType /\ v.pc = w
      /\ v.op = f[r].op /\ v.s = f[r].s /\ v.order = f[r].order
      /\ v.qty = f[r].qty /\ v.legs = f[r].legs /\ v.out = f[r].out
  BY <1>1 DEF ReqType, ReqPc
<1>3. g = [f EXCEPT ![r] = v]  OBVIOUS
<1> HIDE DEF v
<1>4. g \in [Requests -> ReqType] /\ g[r] = v /\ \A q \in Requests \ {r} : g[q] = f[q]
  BY <1>2, <1>3
<1> QED BY <1>2, <1>4

LEMMA SetOrder ==
    ASSUME NEW f \in [Requests -> ReqType], NEW r \in Requests, NEW w \in 0 .. MaxOrders
    PROVE  LET g == [f EXCEPT ![r].order = w]
           IN  /\ g \in [Requests -> ReqType] /\ \A q \in Requests \ {r} : g[q] = f[q]
               /\ g[r].order = w
               /\ g[r].pc = f[r].pc /\ g[r].op = f[r].op /\ g[r].s = f[r].s
               /\ g[r].qty = f[r].qty /\ g[r].legs = f[r].legs /\ g[r].out = f[r].out
<1> DEFINE g == [f EXCEPT ![r].order = w]
           v == [f[r] EXCEPT !.order = w]
<1>1. f[r] \in ReqType  OBVIOUS
<1>2. /\ v \in ReqType /\ v.order = w
      /\ v.pc = f[r].pc /\ v.op = f[r].op /\ v.s = f[r].s
      /\ v.qty = f[r].qty /\ v.legs = f[r].legs /\ v.out = f[r].out
  BY <1>1 DEF ReqType, ReqPc
<1>3. g = [f EXCEPT ![r] = v]  OBVIOUS
<1> HIDE DEF v
<1>4. g \in [Requests -> ReqType] /\ g[r] = v /\ \A q \in Requests \ {r} : g[q] = f[q]
  BY <1>2, <1>3
<1> QED BY <1>2, <1>4

LEMMA SetLegs ==
    ASSUME NEW f \in [Requests -> ReqType], NEW r \in Requests, NEW w \in LegSets
    PROVE  LET g == [f EXCEPT ![r].legs = w]
           IN  /\ g \in [Requests -> ReqType] /\ \A q \in Requests \ {r} : g[q] = f[q]
               /\ g[r].legs = w
               /\ g[r].pc = f[r].pc /\ g[r].op = f[r].op /\ g[r].s = f[r].s
               /\ g[r].order = f[r].order /\ g[r].qty = f[r].qty /\ g[r].out = f[r].out
<1> DEFINE g == [f EXCEPT ![r].legs = w]
           v == [f[r] EXCEPT !.legs = w]
<1>1. f[r] \in ReqType  OBVIOUS
<1>2. /\ v \in ReqType /\ v.legs = w
      /\ v.pc = f[r].pc /\ v.op = f[r].op /\ v.s = f[r].s
      /\ v.order = f[r].order /\ v.qty = f[r].qty /\ v.out = f[r].out
  BY <1>1 DEF ReqType, ReqPc, LegSets
<1>3. g = [f EXCEPT ![r] = v]  OBVIOUS
<1> HIDE DEF v
<1>4. g \in [Requests -> ReqType] /\ g[r] = v /\ \A q \in Requests \ {r} : g[q] = f[q]
  BY <1>2, <1>3
<1> QED BY <1>2, <1>4

LEMMA SetQty ==
    ASSUME NEW f \in [Requests -> ReqType], NEW r \in Requests, NEW w \in 0 .. Quantity
    PROVE  LET g == [f EXCEPT ![r].qty = w]
           IN  /\ g \in [Requests -> ReqType] /\ \A q \in Requests \ {r} : g[q] = f[q]
               /\ g[r].qty = w
               /\ g[r].pc = f[r].pc /\ g[r].op = f[r].op /\ g[r].s = f[r].s
               /\ g[r].order = f[r].order /\ g[r].legs = f[r].legs /\ g[r].out = f[r].out
<1> DEFINE g == [f EXCEPT ![r].qty = w]
           v == [f[r] EXCEPT !.qty = w]
<1>1. f[r] \in ReqType  OBVIOUS
<1>2. /\ v \in ReqType /\ v.qty = w
      /\ v.pc = f[r].pc /\ v.op = f[r].op /\ v.s = f[r].s
      /\ v.order = f[r].order /\ v.legs = f[r].legs /\ v.out = f[r].out
  BY <1>1 DEF ReqType, ReqPc
<1>3. g = [f EXCEPT ![r] = v]  OBVIOUS
<1> HIDE DEF v
<1>4. g \in [Requests -> ReqType] /\ g[r] = v /\ \A q \in Requests \ {r} : g[q] = f[q]
  BY <1>2, <1>3
<1> QED BY <1>2, <1>4

\* A thread that goes on, with one more field changed or none.
LEMMA GotoIs ==
    ASSUME StateTypeOK, NEW r \in Requests, NEW pc \in ReqPc, Goto(r, pc)
    PROVE  /\ req' \in [Requests -> ReqType]
           /\ \A q \in Requests \ {r} : req'[q] = req[q]
           /\ req'[r].pc = pc /\ req'[r].op = req[r].op /\ req'[r].s = req[r].s
           /\ req'[r].order = req[r].order /\ req'[r].legs = req[r].legs /\ req'[r].out = req[r].out
BY SetPc DEF Goto, StateTypeOK

LEMMA GotoWithIs ==
    ASSUME StateTypeOK, NEW r \in Requests, NEW pc \in ReqPc, NEW n \in 0 .. MaxOrders,
           req' = [req EXCEPT ![r].pc = pc, ![r].order = n]
    PROVE  /\ req' \in [Requests -> ReqType]
           /\ \A q \in Requests \ {r} : req'[q] = req[q]
           /\ req'[r].pc = pc /\ req'[r].op = req[r].op /\ req'[r].s = req[r].s
           /\ req'[r].legs = req[r].legs /\ req'[r].out = req[r].out
           /\ req'[r].order = n
<1> DEFINE f == [req EXCEPT ![r].pc = pc]
<1>1. req \in [Requests -> ReqType]  BY DEF StateTypeOK
<1>2. req' = [f EXCEPT ![r].order = n]  OBVIOUS
<1>3. /\ f \in [Requests -> ReqType] /\ \A q \in Requests \ {r} : f[q] = req[q]
      /\ f[r].pc = pc /\ f[r].op = req[r].op /\ f[r].s = req[r].s
      /\ f[r].order = req[r].order /\ f[r].legs = req[r].legs /\ f[r].out = req[r].out
  BY <1>1, SetPc
<1> HIDE DEF f
<1>4. LET g == [f EXCEPT ![r].order = n]
      IN  /\ g \in [Requests -> ReqType] /\ \A q \in Requests \ {r} : g[q] = f[q]
          /\ g[r].order = n /\ g[r].pc = f[r].pc
          /\ g[r].op = f[r].op /\ g[r].s = f[r].s /\ g[r].legs = f[r].legs /\ g[r].out = f[r].out
  BY <1>3, SetOrder
<1> QED BY <1>2, <1>3, <1>4

LEMMA GotoLegsIs ==
    ASSUME StateTypeOK, NEW r \in Requests, NEW pc \in ReqPc, NEW x \in LegSets,
           req' = [req EXCEPT ![r].pc = pc, ![r].legs = x]
    PROVE  /\ req' \in [Requests -> ReqType]
           /\ \A q \in Requests \ {r} : req'[q] = req[q]
           /\ req'[r].pc = pc /\ req'[r].op = req[r].op /\ req'[r].s = req[r].s
           /\ req'[r].order = req[r].order /\ req'[r].out = req[r].out
           /\ req'[r].legs = x
<1> DEFINE f == [req EXCEPT ![r].pc = pc]
<1>1. req \in [Requests -> ReqType]  BY DEF StateTypeOK
<1>2. req' = [f EXCEPT ![r].legs = x]  OBVIOUS
<1>3. /\ f \in [Requests -> ReqType] /\ \A q \in Requests \ {r} : f[q] = req[q]
      /\ f[r].pc = pc /\ f[r].op = req[r].op /\ f[r].s = req[r].s
      /\ f[r].order = req[r].order /\ f[r].legs = req[r].legs /\ f[r].out = req[r].out
  BY <1>1, SetPc
<1> HIDE DEF f
<1>4. LET g == [f EXCEPT ![r].legs = x]
      IN  /\ g \in [Requests -> ReqType] /\ \A q \in Requests \ {r} : g[q] = f[q]
          /\ g[r].legs = x /\ g[r].pc = f[r].pc
          /\ g[r].op = f[r].op /\ g[r].s = f[r].s /\ g[r].order = f[r].order /\ g[r].out = f[r].out
  BY <1>3, SetLegs
<1> QED BY <1>2, <1>3, <1>4

LEMMA GotoQtyIs ==
    ASSUME StateTypeOK, NEW r \in Requests, NEW pc \in ReqPc, NEW n \in 0 .. Quantity,
           req' = [req EXCEPT ![r].pc = pc, ![r].qty = n]
    PROVE  /\ req' \in [Requests -> ReqType]
           /\ \A q \in Requests \ {r} : req'[q] = req[q]
           /\ req'[r].pc = pc /\ req'[r].op = req[r].op /\ req'[r].s = req[r].s
           /\ req'[r].order = req[r].order /\ req'[r].legs = req[r].legs /\ req'[r].out = req[r].out
           /\ req'[r].qty = n
<1> DEFINE f == [req EXCEPT ![r].pc = pc]
<1>1. req \in [Requests -> ReqType]  BY DEF StateTypeOK
<1>2. req' = [f EXCEPT ![r].qty = n]  OBVIOUS
<1>3. /\ f \in [Requests -> ReqType] /\ \A q \in Requests \ {r} : f[q] = req[q]
      /\ f[r].pc = pc /\ f[r].op = req[r].op /\ f[r].s = req[r].s
      /\ f[r].order = req[r].order /\ f[r].legs = req[r].legs /\ f[r].out = req[r].out
  BY <1>1, SetPc
<1> HIDE DEF f
<1>4. LET g == [f EXCEPT ![r].qty = n]
      IN  /\ g \in [Requests -> ReqType] /\ \A q \in Requests \ {r} : g[q] = f[q]
          /\ g[r].qty = n /\ g[r].pc = f[r].pc
          /\ g[r].op = f[r].op /\ g[r].s = f[r].s /\ g[r].order = f[r].order /\ g[r].legs = f[r].legs /\ g[r].out = f[r].out
  BY <1>3, SetQty
<1> QED BY <1>2, <1>3, <1>4

-----------------------------------------------------------------------------
(* What no step takes back                                                  *)

LogGains ==
    \A i \in Ids : /\ row[i].order # Failed => row'[i].order = row[i].order
                   /\ row[i].status # "absent" => row'[i].status # "absent"

BookGains ==
    /\ orders <= orders'
    /\ \A o \in OrderIds : o <= orders => book'[o].id = book[o].id
    /\ \A o \in OrderIds : o <= orders /\ book[o].state \in Terminal =>
          book'[o].state = book[o].state /\ book'[o].filled = book[o].filled

Gains == LogGains /\ BookGains /\ faults <= faults'

\* The order of a row that has one is an order of the broker.
LEMMA RowOrder ==
    ASSUME StateTypeOK, LogOK, NEW i \in Ids, row[i].order # Failed
    PROVE  row[i].order \in OrderIds /\ row[i].order <= orders /\ row[i].status # "absent"
<1>1. row[i].order \in 0 .. MaxOrders  BY DEF StateTypeOK, RowType
<1>2. row[i].status # "absent"
  BY DEF LogOK, RowOK, NoRow
<1> QED BY <1>1, <1>2 DEF LogOK, RowOK, OrderIds

\* What a row says of its order stays true.
LEMMA RowStays ==
    ASSUME StateTypeOK, StateTypeOK', LogOK, Gains, NEW i \in Ids, row[i].order # Failed
    PROVE  /\ row'[i].order = row[i].order
           /\ book'[row[i].order].id = i /\ row[i].order <= orders'
           /\ book[row[i].order].state \in Terminal =>
                 /\ book'[row[i].order].state = book[row[i].order].state
                 /\ book'[row[i].order].filled = book[row[i].order].filled
<1>1. orders \in Nat /\ orders' \in Nat /\ orders <= orders' /\ row[i].order \in OrderIds /\ row[i].order <= orders
  BY RowOrder DEF StateTypeOK, Gains, BookGains
<1>2. row[i].order \in Nat  BY <1>1 DEF OrderIds
<1>3. book[row[i].order].id = i  BY DEF LogOK, RowOK
<1>4. /\ row'[i].order = row[i].order
      /\ book'[row[i].order].id = i
      /\ book[row[i].order].state \in Terminal =>
            /\ book'[row[i].order].state = book[row[i].order].state
            /\ book'[row[i].order].filled = book[row[i].order].filled
  BY <1>1, <1>3 DEF Gains, BookGains, LogGains
<1>5. row[i].order <= orders'
  BY <1>1, <1>2
<1> QED BY <1>1, <1>4, <1>5

\* A thread that did not move keeps what it holds.
LEMMA ThreadKeeps ==
    ASSUME StateTypeOK, StateTypeOK', LogOK, Gains, NEW r \in Requests, ReqOK(r), req'[r] = req[r]
    PROVE  ReqOK(r)'
<1> DEFINE e == Entry(req[r].s)
<1>1. req[r].s \in Signals /\ req[r].order \in 0 .. MaxOrders  BY DEF StateTypeOK, ReqType
<1>2. e \in Ids  BY <1>1, ConstantTypes
<1>3. row[e].order # Failed => row'[e].order = row[e].order  BY <1>2 DEF Gains, LogGains
<1>4. ASSUME NEW i, Holds(r, i) PROVE Holds(r, i)'
  BY <1>1, <1>4 DEF Holds, Gains, BookGains, OrderIds, StateTypeOK
<1>5. Child(r) \in Ids /\ Child(r)' = Child(r)
  <2>1. CascadeLeg(r) \in Legs /\ CascadeLeg(r)' = CascadeLeg(r)  BY DEF CascadeLeg, Legs
  <2> QED BY <1>1, <2>1, ConstantTypes DEF Child
<1>6. row[Child(r)].status # "absent" => row'[Child(r)].status # "absent"
  BY <1>5 DEF Gains, LogGains
<1>7. /\ req[r].pc = "record" => Holds(r, e)'
      /\ req[r].pc = "record_close" => Holds(r, <<req[r].s, "exit">>)'
  BY <1>4 DEF ReqOK
<1>8. /\ req[r].pc = "ready" => req[r].order = Failed
      /\ req[r].pc \in Receiving => req[r].op = "receive"
      /\ req[r].pc \in Withdrawing => req[r].op # "receive" /\ row'[e].order # Failed
      /\ req[r].pc = "attach" \/ (req[r].pc = "done" /\ req[r].op = "receive" /\ req[r].out = "success")
            => req[r].order # Failed /\ row'[e].order = req[r].order
      /\ req[r].pc \in {"cancel_child", "mark_child"} => row'[Child(r)].status # "absent"
  BY <1>3, <1>5, <1>6 DEF ReqOK
<1> QED BY <1>5, <1>7, <1>8 DEF ReqOK, Holds

-----------------------------------------------------------------------------
(* Steps of the webhook threads and of the broker                           *)

\* The poller does not move, the fill columns do not change, no child is
\* logged and none is accepted.
Elsewhere ==
    /\ Gains /\ poll' = poll /\ published' = published
    /\ \A i \in Ids :
          /\ row'[i].fill = row[i].fill /\ row'[i].filled = row[i].filled
          /\ i[2] \in ChildLegs /\ row[i].status = "absent" => row'[i].status = "absent"
    /\ \A o \in OrderIds : orders < o /\ o <= orders' => book'[o].id[2] \notin ChildLegs

LEMMA GainsKeepSession ==
    ASSUME StateTypeOK, StateTypeOK', LogOK, SessionOK, Gains,
           \A i \in Ids : row'[i].fill = row[i].fill,
           poll'.todo = poll.todo, poll'.dirty = poll.dirty, poll'.seen = poll.seen
    PROVE  SessionOK'
<1>1. poll.todo \subseteq Ids /\ poll.dirty \subseteq Ids  BY DEF StateTypeOK, PollType
<1>2. ASSUME NEW i \in poll.todo
      PROVE row'[i].order = row[i].order /\ row'[i].order # Failed /\ row'[i].fill \notin Terminal
  BY <1>1, RowStays DEF SessionOK
<1>3. ASSUME NEW i \in poll.dirty
      PROVE /\ row'[i].order = row[i].order /\ row'[i].order # Failed /\ row'[i].fill \notin Terminal
            /\ poll.seen[i].fill \in Terminal =>
                  /\ book'[row'[i].order].state = poll.seen[i].fill
                  /\ book'[row'[i].order].filled = poll.seen[i].filled
  <2>1. i \in Ids /\ row[i].order # Failed  BY <1>1 DEF SessionOK
  <2>2. /\ row'[i].order = row[i].order
        /\ book[row[i].order].state \in Terminal =>
                 /\ book'[row[i].order].state = book[row[i].order].state
                 /\ book'[row[i].order].filled = book[row[i].order].filled
    BY <2>1, RowStays
  <2> QED BY <2>1, <2>2 DEF SessionOK
<1>4. \A i \in poll.dirty : i \notin poll.todo  BY DEF SessionOK
<1>5. \A i \in Ids : poll.seen[i].bracket => i[2] = "entry"  BY DEF SessionOK
<1> QED BY <1>2, <1>3, <1>4, <1>5 DEF SessionOK

LEMMA ElsewhereKeepsSession ==
    ASSUME StateTypeOK, StateTypeOK', LogOK, SessionOK, Elsewhere
    PROVE  SessionOK'
BY GainsKeepSession DEF Elsewhere

LEMMA GainsKeepOrderbook ==
    ASSUME StateTypeOK, StateTypeOK', OrderbookOK, Gains, poll'.ob = poll.ob
    PROVE  OrderbookOK'
<1> SUFFICES ASSUME NEW o \in OrderIds, poll.ob[o].state \in Terminal
             PROVE o <= orders' /\ book'[o].state = poll.ob[o].state /\ book'[o].filled = poll.ob[o].filled
  BY DEF OrderbookOK
<1>1. o <= orders /\ book[o].state = poll.ob[o].state /\ book[o].filled = poll.ob[o].filled
  BY DEF OrderbookOK
<1>2. book'[o].state = poll.ob[o].state /\ book'[o].filled = poll.ob[o].filled
  BY <1>1 DEF Gains, BookGains
<1>3. o \in Nat /\ orders \in Nat /\ orders' \in Nat /\ orders <= orders'
  BY DEF OrderIds, StateTypeOK, Gains, BookGains
<1> QED BY <1>1, <1>2, <1>3

\* The child of a row.
LEMMA ChildIs ==
    ASSUME NEW i \in Ids, NEW leg \in Legs
    PROVE  ChildOf(i, leg) \in Ids /\ ChildOf(i, leg)[1] = i[1] /\ ChildOf(i, leg)[2] = leg
BY ConstantTypes DEF ChildOf

LEMMA ElsewhereKeepsPlacing ==
    ASSUME StateTypeOK, StateTypeOK', LogOK, PlacingOK, Elsewhere
    PROVE  PlacingOK'
<1> USE DEF Elsewhere
<1> DEFINE i == poll.cur
           child == ChildOf(poll.cur, poll.leg)
<1>1. i \in Ids /\ poll.leg \in ChildLegs /\ poll.order \in 0 .. MaxOrders
  BY DEF StateTypeOK, PollType, ChildLegs
<1>2. child \in Ids /\ child[2] \in ChildLegs  BY <1>1, ChildIs DEF ChildLegs, Legs
<1>3. ASSUME poll.pc \in {"place", "record"}
      PROVE  /\ i[2] = "entry" /\ row'[i].order # Failed /\ book'[row'[i].order].state = "complete"
             /\ row'[child].status = "absent"
             /\ IF poll.leg = "sl" THEN i \in poll.dirty /\ poll.seen[i].fill = "complete"
                ELSE row'[i].fill \in Terminal
  <2>1. /\ i[2] = "entry" /\ row[i].order # Failed /\ book[row[i].order].state = "complete"
        /\ row[child].status = "absent"
        /\ IF poll.leg = "sl" THEN i \in poll.dirty /\ poll.seen[i].fill = "complete"
                ELSE row[i].fill \in Terminal
    BY <1>3 DEF PlacingOK
  <2>2. row'[i].order = row[i].order /\ book'[row[i].order].state = "complete"
    BY <1>1, <2>1, RowStays DEF Terminal
  <2>3. row'[child].status = "absent" /\ row'[i].fill = row[i].fill  BY <1>1, <1>2, <2>1
  <2> QED BY <2>1, <2>2, <2>3
<1>4. ASSUME poll.pc = "record", poll.order # Failed
      PROVE poll.order <= orders' /\ book'[poll.order].id = child
  <2>1. poll.order <= orders /\ book[poll.order].id = child  BY <1>4 DEF PlacingOK
  <2>2. poll.order \in OrderIds /\ orders \in Nat /\ orders' \in Nat /\ orders <= orders'
    BY <1>1, <1>4 DEF OrderIds, StateTypeOK, Gains, BookGains
  <2>3. book'[poll.order].id = child  BY <2>1, <2>2 DEF Gains, BookGains
  <2>4. poll.order <= orders'  BY <2>1, <2>2 DEF OrderIds
  <2> QED BY <2>3, <2>4
<1>5. poll'.cur = poll.cur /\ poll'.leg = poll.leg  OBVIOUS
<1> QED BY <1>3, <1>4, <1>5 DEF PlacingOK, ChildOf

\* What is final in the log and at the publisher.
LEMMA GainsKeepFills ==
    ASSUME StateTypeOK, StateTypeOK', LogOK, FillsOK, Gains,
           \A i \in Ids : row'[i].fill = row[i].fill /\ row'[i].filled = row[i].filled,
           published' = published
    PROVE  FillsOK'
<1> SUFFICES ASSUME NEW i \in Ids
             PROVE  /\ row'[i].fill \in Terminal =>
                        /\ row'[i].order # Failed
                        /\ book'[row'[i].order].state = row'[i].fill
                        /\ book'[row'[i].order].filled = row'[i].filled
                    /\ published[i] \in Terminal =>
                         row'[i].order # Failed /\ book'[row'[i].order].state = published[i]
  BY DEF FillsOK
<1>1. CASE row[i].order = Failed  BY <1>1 DEF FillsOK
<1>2. CASE row[i].order # Failed
  <2>1. /\ row'[i].order = row[i].order
        /\ book[row[i].order].state \in Terminal =>
                 /\ book'[row[i].order].state = book[row[i].order].state
                 /\ book'[row[i].order].filled = book[row[i].order].filled
    BY <1>2, RowStays
  <2> QED BY <1>2, <2>1 DEF FillsOK
<1> QED BY <1>1, <1>2

LEMMA ElsewhereKeepsChildren ==
    ASSUME StateTypeOK, StateTypeOK', LogOK, ChildrenFollowTheFill, Elsewhere
    PROVE  ChildrenFollowTheFill'
<1> SUFFICES ASSUME NEW o \in 1 .. orders', book'[o].id[2] \in ChildLegs
             PROVE  LET n == row'[Entry(book'[o].id[1])].order
                    IN n # Failed /\ book'[n].state = "complete"
  BY DEF ChildrenFollowTheFill, ChildLegs
<1>1. o \in OrderIds /\ orders \in Nat /\ o \in Nat  BY DEF OrderIds, StateTypeOK
<1>2. o <= orders /\ book'[o].id = book[o].id
  BY <1>1 DEF Elsewhere, Gains, BookGains
<1> DEFINE e == Entry(book[o].id[1])
<1>3. book[o].id \in Ids  BY <1>1 DEF StateTypeOK, OrderType
<1>4. e \in Ids  BY <1>3, ConstantTypes
<1>5. o \in 1 .. orders  BY <1>1, <1>2
<1>6. row[e].order # Failed /\ book[row[e].order].state = "complete"
  BY <1>2, <1>5 DEF ChildrenFollowTheFill, ChildLegs
<1>7. row'[e].order = row[e].order /\ book'[row[e].order].state = "complete"
  BY <1>4, <1>6, RowStays DEF Elsewhere, Terminal
<1> QED BY <1>2, <1>6, <1>7

\* Counting: an order that is not of this child does not count.
LEMMA SameOrders ==
    ASSUME StateTypeOK, StateTypeOK', Gains, NEW i,
           \A o \in OrderIds : orders < o /\ o <= orders' => book'[o].id # i
    PROVE  OrdersOf(i)' = OrdersOf(i)
<1>1. orders \in Nat /\ orders' \in Nat /\ orders <= orders' /\ orders' <= MaxOrders /\ orders <= MaxOrders
  BY DEF StateTypeOK, Gains, BookGains
<1>2. \A o \in OrderIds : o <= orders => book'[o].id = book[o].id
  BY DEF Gains, BookGains
<1> QED BY <1>1, <1>2 DEF OrdersOf, OrderIds

LEMMA OrdersFinite ==
    ASSUME StateTypeOK, NEW i
    PROVE  IsFiniteSet(OrdersOf(i)) /\ Cardinality(OrdersOf(i)) \in Nat
<1>1. orders \in Nat  BY DEF StateTypeOK
<1>2. IsFiniteSet(1 .. orders)  BY <1>1, FS_Interval
<1>3. IsFiniteSet(OrdersOf(i))  BY <1>2, FS_Subset DEF OrdersOf
<1> QED BY <1>3, FS_CardinalityType

LEMMA MoreFaults ==
    ASSUME NEW n \in Nat, NEW f \in Nat, NEW g \in Nat, f <= g
    PROVE  /\ n <= 1 + f => n <= 1 + g
           /\ n <= 1 + f /\ f < g => n <= g
           /\ n <= f => n <= g /\ n <= 1 + f
OBVIOUS

\* No step but the placing of a child adds to the children of a signal; what
\* makes a child fresh again costs a fault.
LEMMA CountStays ==
    ASSUME StateTypeOK, StateTypeOK', Gains, ChildrenCounted,
           \A o \in OrderIds : orders < o /\ o <= orders' => book'[o].id[2] \notin ChildLegs,
           \/ faults < faults'
           \/ \A s \in Signals : \A leg \in ChildLegs : Fresh(s, leg)' => Fresh(s, leg)
    PROVE  ChildrenCounted'
<1> SUFFICES ASSUME NEW s \in Signals, NEW leg \in ChildLegs
             PROVE Cardinality(OrdersOf(<<s, leg>>))' <= IF Fresh(s, leg)' THEN faults' ELSE 1 + faults'
  BY DEF ChildrenCounted
<1>1. \A o \in OrderIds : orders < o /\ o <= orders' => book'[o].id # <<s, leg>>
  BY ConstantTypes DEF ChildLegs, Legs
<1>2. OrdersOf(<<s, leg>>)' = OrdersOf(<<s, leg>>)  BY <1>1, SameOrders
<1> DEFINE n == Cardinality(OrdersOf(<<s, leg>>))
<1>3. n \in Nat  BY OrdersFinite
<1>4. n <= IF Fresh(s, leg) THEN faults ELSE 1 + faults  BY DEF ChildrenCounted
<1>5. faults \in Nat /\ faults' \in Nat /\ faults <= faults'  BY DEF StateTypeOK, Gains
<1>6. n' = n  BY <1>2
<1>7. faults < faults' \/ (Fresh(s, leg)' => Fresh(s, leg))  OBVIOUS
<1> HIDE DEF n
<1>8. /\ n <= 1 + faults => n <= 1 + faults'
      /\ n <= 1 + faults /\ faults < faults' => n <= faults'
      /\ n <= faults => n <= faults' /\ n <= 1 + faults
  BY <1>3, <1>5, MoreFaults
<1>9. n <= IF Fresh(s, leg)' THEN faults' ELSE 1 + faults'
  BY <1>4, <1>7, <1>8
<1> QED BY <1>6, <1>9 DEF n

LEMMA ElsewhereKeepsCount ==
    ASSUME StateTypeOK, StateTypeOK', ChildrenCounted, Elsewhere
    PROVE  ChildrenCounted'
<1>1. \A s \in Signals : \A leg \in ChildLegs : Fresh(s, leg)' => Fresh(s, leg)
  BY ConstantTypes DEF Fresh, Elsewhere, Entry
<1> QED BY <1>1, CountStays DEF Elsewhere

\* A row that is not written stays in order.
LEMMA RowKept ==
    ASSUME StateTypeOK, StateTypeOK', LogOK, Gains, NEW i \in Ids, row'[i] = row[i],
           \A j \in Ids : row[j].fill \in Terminal => row'[j].fill \in Terminal
    PROVE  RowOK(i)'
<1>1. RowOK(i)  BY DEF LogOK
<1>2. row[i].order # Failed => row[i].order <= orders' /\ book'[row[i].order].id = i
  BY RowStays
<1>3. Entry(i[1]) \in Ids  BY ConstantTypes
<1> QED BY <1>1, <1>2, <1>3 DEF RowOK

\* A step that leaves the log alone and places no child.
LEMMA BrokerStep ==
    ASSUME StateTypeOK, StateTypeOK', LogOK, BookGains, faults <= faults',
           UNCHANGED <<row, published, poll>>,
           \A o \in OrderIds : orders < o /\ o <= orders' => book'[o].id[2] \notin ChildLegs
    PROVE  Elsewhere /\ LogOK'
<1>1. Gains  BY DEF Gains, LogGains
<1>2. Elsewhere  BY <1>1 DEF Elsewhere
<1>3. ASSUME NEW i \in Ids PROVE RowOK(i)'  BY <1>1, RowKept
<1> QED BY <1>2, <1>3 DEF LogOK

\* A step that writes one row and leaves the broker and the poller alone.
LEMMA LogStep ==
    ASSUME StateTypeOK, StateTypeOK', LogOK, NEW i \in Ids,
           UNCHANGED <<book, orders, published, poll, faults>>,
           \A j \in Ids \ {i} : row'[j] = row[j],
           row'[i].fill = row[i].fill, row'[i].filled = row[i].filled,
           row'[i].status # "absent",
           row[i].order # Failed => row'[i].order = row[i].order,
           row'[i].order # Failed => row'[i].order <= orders /\ book[row'[i].order].id = i,
           row'[i].bracket => i[2] = "entry",
           row[i].status = "absent" => i[2] \notin ChildLegs
    PROVE  Elsewhere /\ LogOK'
<1>1. Gains
  <2>1. LogGains  BY DEF LogGains
  <2>2. orders <= orders' /\ faults <= faults'  BY DEF StateTypeOK
  <2>3. BookGains  BY <2>2 DEF BookGains
  <2> QED BY <2>1, <2>2, <2>3 DEF Gains
<1>2. Elsewhere
  <2>1. \A o \in OrderIds : ~(orders < o /\ o <= orders')  BY DEF StateTypeOK, OrderIds
  <2> QED BY <1>1, <2>1 DEF Elsewhere
<1>3. \A j \in Ids : row'[j].fill = row[j].fill  OBVIOUS
<1>4. ASSUME NEW j \in Ids, j # i PROVE RowOK(j)'  BY <1>1, <1>3, <1>4, RowKept
<1>5. Entry(i[1]) \in Ids  BY ConstantTypes
<1>6. RowOK(i)'
  <2>1. row[i].status # "absent" /\ i[2] \in ChildLegs => row'[Entry(i[1])].fill \in Terminal
    BY <1>3, <1>5 DEF LogOK, RowOK
  <2> QED BY <2>1 DEF RowOK
<1> QED BY <1>2, <1>4, <1>6 DEF LogOK

\* An order stays known to a thread or to the log.
LEMMA LoggedStays ==
    ASSUME StateTypeOK, StateTypeOK', Gains, OrdersAreLogged,
           faults' = 0 => \A o \in OrderIds :
              /\ o <= orders /\ InFlight(o) => InFlight(o)' \/ row'[book[o].id].status # "absent"
              /\ orders < o /\ o <= orders' => InFlight(o)'
    PROVE  OrdersAreLogged'
<1> SUFFICES ASSUME faults' = 0, NEW o \in 1 .. orders'
             PROVE  InFlight(o)' \/ row'[book'[o].id].status # "absent"
  BY DEF OrdersAreLogged
<1>1. /\ o \in OrderIds /\ orders \in Nat /\ faults \in Nat /\ faults' \in Nat /\ faults <= faults'
      /\ o \in Nat
  BY DEF OrderIds, StateTypeOK, Gains
<1>2. faults = 0  BY <1>1
<1>3. CASE orders < o  BY <1>1, <1>3
<1>4. CASE o <= orders
  <2>1. book'[o].id = book[o].id /\ book[o].id \in Ids
    BY <1>1, <1>4 DEF Gains, BookGains, StateTypeOK, OrderType
  <2>2. InFlight(o) \/ row[book[o].id].status # "absent"
    BY <1>1, <1>2, <1>4 DEF OrdersAreLogged
  <2>3. row[book[o].id].status # "absent" => row'[book[o].id].status # "absent"
    BY <2>1 DEF Gains, LogGains
  <2> QED BY <1>1, <1>4, <2>1, <2>2, <2>3
<1> QED BY <1>1, <1>3, <1>4

\* One thread moves: its order, if it was about to be recorded, is known to
\* the log, or there was a fault; and it holds the order just accepted.
LEMMA ThreadLogged ==
    ASSUME StateTypeOK, StateTypeOK', Gains, OrdersAreLogged, poll' = poll, NEW r \in Requests,
           \A q \in Requests \ {r} : req'[q] = req[q],
           /\ req[r].pc \in {"record", "record_close"} /\ req[r].order # Failed /\ faults' = faults
                 => row'[book[req[r].order].id].status # "absent"
           /\ \/ orders' = orders
              \/ faults' = faults + 1
              \/ orders' = orders + 1 /\ req'[r].pc \in {"record", "record_close"} /\ req'[r].order = orders + 1
    PROVE  OrdersAreLogged'
<1> SUFFICES ASSUME faults' = 0, NEW o \in OrderIds
             PROVE /\ o <= orders /\ InFlight(o) => InFlight(o)' \/ row'[book[o].id].status # "absent"
                   /\ orders < o /\ o <= orders' => InFlight(o)'
  BY LoggedStays
<1>1. faults \in Nat /\ faults' \in Nat /\ faults <= faults' /\ orders \in Nat /\ orders' \in Nat /\ o \in Nat /\ o # 0
  BY DEF OrderIds, StateTypeOK, Gains
<1>2. faults = 0 /\ faults' = faults /\ faults' # faults + 1  BY <1>1
<1>3. ASSUME o <= orders, InFlight(o)
      PROVE  InFlight(o)' \/ row'[book[o].id].status # "absent"
  BY <1>1, <1>2, <1>3 DEF InFlight
<1>4. ASSUME orders < o, o <= orders' PROVE InFlight(o)'
  <2>1. orders' # orders  BY <1>1, <1>4
  <2>2. orders' = orders + 1 /\ req'[r].pc \in {"record", "record_close"} /\ req'[r].order = orders + 1
    BY <1>2, <2>1
  <2>3. o = orders + 1  BY <1>1, <1>4, <2>2
  <2> QED BY <2>2, <2>3 DEF InFlight
<1> QED BY <1>3, <1>4

-----------------------------------------------------------------------------
(* The webhook threads, action by action                                    *)

\* What every step of thread r is shown to do.
ThreadStep(r) ==
    /\ StateTypeOK' /\ Elsewhere /\ LogOK' /\ OrdersAreLogged'
    /\ ReqOK(r)'
    /\ \A q \in Requests \ {r} : req'[q] = req[q]

\* A step that changes nothing but the thread.
LEMMA LocalStep ==
    ASSUME StateTypeOK, LogOK, OrdersAreLogged, NEW r \in Requests, ReqOK(r)',
           req' \in [Requests -> ReqType], \A q \in Requests \ {r} : req'[q] = req[q],
           UNCHANGED <<row, book, orders, published, poll>>, faults' = faults \/ Fault,
           \/ req[r].pc \notin {"record", "record_close"}
           \/ req[r].order = Failed
           \/ Fault
           \/ row[book[req[r].order].id].status # "absent"
    PROVE  ThreadStep(r)
<1>1. faults' \in 0 .. MaxFaults /\ faults <= faults'  BY DEF StateTypeOK, Fault
<1>2. StateTypeOK'  BY <1>1 DEF StateTypeOK
<1>3. BookGains  BY DEF BookGains, StateTypeOK
<1>4. \A o \in OrderIds : ~(orders < o /\ o <= orders')  BY DEF OrderIds, StateTypeOK
<1>5. Elsewhere /\ LogOK'  BY <1>1, <1>2, <1>3, <1>4, BrokerStep
<1>6. faults \in Nat /\ (Fault => faults' # faults)  BY DEF StateTypeOK, Fault
<1>7. OrdersAreLogged'  BY <1>2, <1>5, <1>6, ThreadLogged DEF Elsewhere
<1> QED BY <1>2, <1>5, <1>7 DEF ThreadStep

\* A thread's new record.
LEMMA ThreadIs ==
    ASSUME StateTypeOK, NEW r \in Requests, NEW v \in ReqType, req' = [req EXCEPT ![r] = v]
    PROVE  req' \in [Requests -> ReqType] /\ req'[r] = v /\ \A q \in Requests \ {r} : req'[q] = req[q]
BY DEF StateTypeOK

LEMMA ReceiveStep ==
    ASSUME DistInv, NEW r \in Requests, NEW s \in Signals, Receive(r, s)
    PROVE  ThreadStep(r)
<1> USE DEF DistInv
<1>1. /\ req \in [Requests -> ReqType] /\ req[r] \in ReqType
      /\ req[r].pc = "ready" /\ req[r].order = Failed
  BY DEF StateTypeOK, Receive, ReqOK
<1>2. PICK pc \in {"place", "record", "done"} :
         IF pc = "done"
         THEN req' = [req EXCEPT ![r].pc = pc, ![r].op = "receive", ![r].s = s, ![r].out = "duplicate"]
         ELSE req' = [req EXCEPT ![r].pc = pc, ![r].op = "receive", ![r].s = s]
  BY DEF Receive
<1> DEFINE out == IF pc = "done" THEN "duplicate" ELSE req[r].out
           v == [pc |-> pc, op |-> "receive", s |-> s, order |-> Failed, qty |-> req[r].qty,
                 legs |-> req[r].legs, out |-> out]
<1>3. req' = [req EXCEPT ![r] = v] /\ v \in ReqType
  <2>1. CASE pc = "done"
    <3>1. out = "duplicate"  BY <2>1
    <3> HIDE DEF out
    <3> QED BY <1>1, <1>2, <2>1, <3>1 DEF ReqType, ReqPc
  <2>2. CASE pc # "done"
    <3>1. out = req[r].out  BY <2>2
    <3> HIDE DEF out
    <3> QED BY <1>1, <1>2, <2>2, <3>1 DEF ReqType, ReqPc
  <2> QED BY <2>1, <2>2
<1>4. v.pc = pc /\ v.op = "receive" /\ v.s = s /\ v.order = Failed /\ v.out = out  OBVIOUS
<1> HIDE DEF v
<1>5. req' \in [Requests -> ReqType] /\ req'[r] = v /\ \A q \in Requests \ {r} : req'[q] = req[q]
  BY <1>3, ThreadIs
<1>6. ReqOK(r)'  BY <1>4, <1>5 DEF ReqOK, Holds, Receiving, Withdrawing
<1>7. UNCHANGED <<row, book, orders, published, poll, faults>>  BY DEF Receive
<1> QED BY <1>1, <1>5, <1>6, <1>7, LocalStep

LEMMA LookupStep ==
    ASSUME DistInv, NEW r \in Requests, NEW s \in Signals,
           Cancel(r, s) \/ Exit(r, s)
    PROVE  ThreadStep(r)
<1> USE DEF DistInv
<1>1. PICK op \in {"cancel", "exit"}, pc \in {"cancel", "status"} : Lookup(r, s, op, pc)
  BY DEF Cancel, Exit
<1> DEFINE e == Entry(s)
           n == IF row[e].filled = 0 THEN Quantity ELSE row[e].filled
           v == [pc |-> pc, op |-> op, s |-> s, order |-> row[e].order, qty |-> n,
                 legs |-> {"sl", "tp"}, out |-> "none"]
<1>2. row[e] \in RowType  BY ConstantTypes DEF StateTypeOK
<1>3. n \in 0 .. Quantity  BY <1>2 DEF RowType
<1>4. req' = [req EXCEPT ![r] = v] /\ req[r].pc = "ready" /\ row[e].order # Failed  BY <1>1 DEF Lookup
<1> HIDE DEF n
<1>5. v \in ReqType  BY <1>2, <1>3 DEF RowType, ReqType, ReqPc
<1>6. v.pc = pc /\ v.op = op /\ v.s = s /\ v.order = row[e].order /\ v.out = "none"  OBVIOUS
<1> HIDE DEF v
<1>7. req' \in [Requests -> ReqType] /\ req'[r] = v /\ \A q \in Requests \ {r} : req'[q] = req[q]
  BY <1>4, <1>5, ThreadIs
<1>8. UNCHANGED <<row, book, orders, published, poll, faults>>  BY <1>1 DEF Lookup
<1>9. ReqOK(r)'  BY <1>4, <1>6, <1>7, <1>8 DEF ReqOK, Holds, Receiving, Withdrawing
<1> QED BY <1>4, <1>7, <1>8, <1>9, LocalStep

\* A thread on its way through /cancel or /exit, or one that fails.
LEMMA WithdrawingGoesOn ==
    ASSUME DistInv, NEW r \in Requests, req[r].pc \in Withdrawing,
           req'[r].op = req[r].op, req'[r].s = req[r].s,
           row'[Entry(req[r].s)].order # Failed,
           req'[r].pc \in (Withdrawing \ {"record_close", "cancel_child", "mark_child"}) \cup {"done"}
    PROVE  ReqOK(r)'
<1>1. req[r].op # "receive"  BY DEF DistInv, ReqOK
<1> QED BY <1>1 DEF ReqOK, Holds, Receiving, Withdrawing

LEMMA RefusedThread ==
    ASSUME NEW r \in Requests, req'[r].pc = "done", req'[r].out = "error"
    PROVE  ReqOK(r)'
BY DEF ReqOK, Holds, Receiving, Withdrawing

\* The entry of a thread that withdraws is in the log with an order.
LEMMA WithdrawnEntry ==
    ASSUME DistInv, NEW r \in Requests, req[r].pc \in Withdrawing
    PROVE  /\ req[r].s \in Signals /\ Entry(req[r].s) \in Ids /\ row[Entry(req[r].s)].order # Failed
           /\ row[Entry(req[r].s)].status # "absent"
<1>1. req[r].s \in Signals  BY DEF DistInv, StateTypeOK, ReqType
<1>2. Entry(req[r].s) \in Ids  BY <1>1, ConstantTypes
<1>3. row[Entry(req[r].s)].order # Failed  BY DEF DistInv, ReqOK
<1>4. row[Entry(req[r].s)].status # "absent"  BY <1>2, <1>3, RowOrder DEF DistInv
<1> QED BY <1>1, <1>2, <1>3, <1>4

LEMMA RecheckStep ==
    ASSUME DistInv, NEW r \in Requests, Recheck(r)
    PROVE  ThreadStep(r)
<1> USE DEF DistInv
<1>1. req[r].pc = "recheck" /\ UNCHANGED <<row, book, orders, published, poll>>
      /\ (faults' = faults \/ Fault)
  BY DEF Recheck
<1>2. CASE Reply(r, "error")
  BY <1>1, <1>2, ReplyIs, RefusedThread, LocalStep
<1>3. CASE req' = [req EXCEPT ![r].pc = "mark", ![r].legs = {}]
  <2>1. /\ req' \in [Requests -> ReqType] /\ \A q \in Requests \ {r} : req'[q] = req[q]
        /\ req'[r].pc = "mark" /\ req'[r].op = req[r].op /\ req'[r].s = req[r].s
    <3>1. {} \in LegSets /\ "mark" \in ReqPc  BY DEF ReqPc, LegSets
    <3> QED BY <1>3, <3>1, GotoLegsIs
  <2>2. ReqOK(r)'  BY <1>1, <2>1, WithdrawingGoesOn, WithdrawnEntry DEF Withdrawing
  <2> QED BY <1>1, <2>1, <2>2, LocalStep
<1> QED BY <1>2, <1>3 DEF Recheck

LEMMA ReadStatusStep ==
    ASSUME DistInv, NEW r \in Requests, ReadStatus(r)
    PROVE  ThreadStep(r)
<1> USE DEF DistInv
<1>1. req[r].pc = "status" /\ UNCHANGED <<row, book, orders, published, poll>>
      /\ (faults' = faults \/ Fault)
  BY DEF ReadStatus
<1>2. CASE Reply(r, "error")
  BY <1>1, <1>2, ReplyIs, RefusedThread, LocalStep
<1>3. ASSUME NEW pc \in {"cancel", "position", "mark"}, Goto(r, pc)
      PROVE  ThreadStep(r)
  <2>1. /\ req' \in [Requests -> ReqType] /\ \A q \in Requests \ {r} : req'[q] = req[q]
        /\ req'[r].pc = pc /\ req'[r].op = req[r].op /\ req'[r].s = req[r].s
    BY <1>3, GotoIs DEF ReqPc
  <2>2. ReqOK(r)'  BY <1>1, <2>1, WithdrawingGoesOn, WithdrawnEntry DEF Withdrawing
  <2> QED BY <1>1, <2>1, <2>2, LocalStep
<1> QED BY <1>2, <1>3 DEF ReadStatus

LEMMA ReadPositionStep ==
    ASSUME DistInv, NEW r \in Requests, ReadPosition(r)
    PROVE  ThreadStep(r)
<1> USE DEF DistInv
<1>1. req[r].pc = "position" /\ UNCHANGED <<row, book, orders, published, poll>>
      /\ (faults' = faults \/ Fault)
  BY DEF ReadPosition
<1>2. CASE Goto(r, "mark")
  <2>1. /\ req' \in [Requests -> ReqType] /\ \A q \in Requests \ {r} : req'[q] = req[q]
        /\ req'[r].pc = "mark" /\ req'[r].op = req[r].op /\ req'[r].s = req[r].s
    BY <1>2, GotoIs DEF ReqPc
  <2>2. ReqOK(r)'  BY <1>1, <2>1, WithdrawingGoesOn, WithdrawnEntry DEF Withdrawing
  <2> QED BY <1>1, <2>1, <2>2, LocalStep
<1>3. ASSUME NEW n \in 1 .. req[r].qty, req' = [req EXCEPT ![r].pc = "close", ![r].qty = n]
      PROVE  ThreadStep(r)
  <2>1. req \in [Requests -> ReqType] /\ req[r] \in ReqType /\ n \in 0 .. Quantity
    BY <1>3 DEF StateTypeOK, ReqType
  <2>2. /\ req' \in [Requests -> ReqType] /\ \A q \in Requests \ {r} : req'[q] = req[q]
        /\ req'[r].pc = "close" /\ req'[r].op = req[r].op /\ req'[r].s = req[r].s
    BY <1>3, <2>1, GotoQtyIs DEF ReqPc
  <2>3. ReqOK(r)'  BY <1>1, <2>2, WithdrawingGoesOn, WithdrawnEntry DEF Withdrawing
  <2> QED BY <1>1, <2>2, <2>3, LocalStep
<1> QED BY <1>2, <1>3 DEF ReadPosition

LEMMA CommitFailsStep ==
    ASSUME DistInv, NEW r \in Requests, CommitFails(r)
    PROVE  ThreadStep(r)
<1>1. UNCHANGED <<row, book, orders, published, poll>> /\ Fault /\ Reply(r, "error")
  BY DEF CommitFails
<1> QED BY <1>1, ReplyIs, RefusedThread, LocalStep DEF DistInv

\* The child a thread is about to cancel.
LEMMA ChildKnown ==
    ASSUME DistInv, NEW r \in Requests
    PROVE  /\ req[r].legs \in LegSets /\ CascadeLeg(r) \in ChildLegs /\ CascadeLeg(r) \in Legs
           /\ req[r].s \in Signals /\ Child(r) \in Ids /\ Child(r)[2] = CascadeLeg(r)
           /\ row[Child(r)] \in RowType
<1>1. req[r].s \in Signals /\ req[r].legs \in LegSets  BY DEF DistInv, StateTypeOK, ReqType, LegSets
<1>2. CascadeLeg(r) \in ChildLegs /\ CascadeLeg(r) \in Legs  BY DEF CascadeLeg, ChildLegs, Legs
<1>3. Child(r) \in Ids /\ Child(r)[2] = CascadeLeg(r)  BY <1>1, <1>2, ConstantTypes DEF Child
<1> QED BY <1>1, <1>2, <1>3 DEF DistInv, StateTypeOK

LEMMA PassLegIs ==
    ASSUME DistInv, NEW r \in Requests, PassLeg(r)
    PROVE  /\ req' \in [Requests -> ReqType] /\ \A q \in Requests \ {r} : req'[q] = req[q]
           /\ req'[r].pc = "cascade" /\ req'[r].op = req[r].op /\ req'[r].s = req[r].s
<1> DEFINE x == req[r].legs \ {CascadeLeg(r)}
<1>1. req \in [Requests -> ReqType] /\ StateTypeOK  BY DEF DistInv, StateTypeOK
<1>2. req' = [req EXCEPT ![r].pc = "cascade", ![r].legs = x]  BY <1>1 DEF PassLeg
<1>3. x \in LegSets  BY ChildKnown DEF LegSets
<1>4. "cascade" \in ReqPc  BY DEF ReqPc
<1> HIDE DEF x
<1> QED BY <1>1, <1>2, <1>3, <1>4, GotoLegsIs

LEMMA CascadeStep ==
    ASSUME DistInv, NEW r \in Requests, Cascade(r)
    PROVE  ThreadStep(r)
<1> USE DEF DistInv
<1>1. req[r].pc = "cascade" /\ UNCHANGED <<row, book, orders, published, poll, faults>>
  BY DEF Cascade
<1>2. CASE Reply(r, "success")
  <2>1. /\ req' \in [Requests -> ReqType] /\ \A q \in Requests \ {r} : req'[q] = req[q]
        /\ req'[r].pc = "done" /\ req'[r].op = req[r].op /\ req'[r].s = req[r].s
    BY <1>2, ReplyIs
  <2>2. ReqOK(r)'  BY <1>1, <2>1, WithdrawingGoesOn, WithdrawnEntry DEF Withdrawing
  <2> QED BY <1>1, <2>1, <2>2, LocalStep
<1>3. CASE row[Child(r)].status = "placed" /\ Goto(r, "cancel_child")
  <2>1. /\ req' \in [Requests -> ReqType] /\ \A q \in Requests \ {r} : req'[q] = req[q]
        /\ req'[r].pc = "cancel_child" /\ req'[r].op = req[r].op /\ req'[r].s = req[r].s
        /\ req'[r].legs = req[r].legs
    BY <1>3, GotoIs DEF ReqPc
  <2>2. Child(r)' = Child(r)  BY <2>1 DEF Child, CascadeLeg
  <2>3. row'[Child(r)'].status # "absent"  BY <1>1, <1>3, <2>2
  <2>4. req[r].op # "receive" /\ row'[Entry(req[r].s)].order # Failed
    BY <1>1, WithdrawnEntry DEF Withdrawing, ReqOK
  <2>5. ReqOK(r)'  BY <2>1, <2>3, <2>4 DEF ReqOK, Holds, Receiving, Withdrawing
  <2> QED BY <1>1, <2>1, <2>5, LocalStep
<1>4. CASE PassLeg(r)
  <2>1. ReqOK(r)'  BY <1>1, <1>4, PassLegIs, WithdrawingGoesOn, WithdrawnEntry DEF Withdrawing
  <2> QED BY <1>1, <1>4, <2>1, PassLegIs, LocalStep
<1> QED BY <1>2, <1>3, <1>4 DEF Cascade

\* A step that changes a thread and the broker's orders, but accepts none.
LEMMA CancelStep ==
    ASSUME DistInv, NEW r \in Requests, NEW o \in 0 .. MaxOrders, Cancels(o) \/ CancelRefused(o),
           req[r].pc \notin {"record", "record_close"},
           UNCHANGED <<row, orders, published, poll>>,
           req' \in [Requests -> ReqType], \A q \in Requests \ {r} : req'[q] = req[q], ReqOK(r)'
    PROVE  ThreadStep(r)
<1> USE DEF DistInv
<1>1. /\ book' \in [OrderIds -> OrderType] /\ faults' \in 0 .. MaxFaults
      /\ faults' = faults \/ faults' = faults + 1
      /\ \A p \in OrderIds : /\ book'[p].id = book[p].id
                             /\ book[p].state \in Terminal => book'[p] = book[p]
  BY CancelIs
<1>2. StateTypeOK'  BY <1>1 DEF StateTypeOK
<1>3. faults <= faults' /\ orders <= orders'  BY <1>1 DEF StateTypeOK
<1>4. BookGains  BY <1>1, <1>3 DEF BookGains
<1>5. \A p \in OrderIds : ~(orders < p /\ p <= orders')  BY DEF OrderIds, StateTypeOK
<1>6. Elsewhere /\ LogOK'  BY <1>2, <1>3, <1>4, <1>5, BrokerStep
<1>7. OrdersAreLogged'  BY <1>2, <1>6, ThreadLogged DEF Elsewhere
<1> QED BY <1>2, <1>6, <1>7 DEF ThreadStep

LEMMA CallCancelStep ==
    ASSUME DistInv, NEW r \in Requests, CallCancel(r)
    PROVE  ThreadStep(r)
<1> USE DEF DistInv
<1>1. /\ req[r].pc = "cancel" /\ UNCHANGED <<row, orders, published, poll>>
      /\ Cancels(req[r].order) \/ CancelRefused(req[r].order)
  BY DEF CallCancel
<1>2. req[r].order \in 0 .. MaxOrders  BY DEF StateTypeOK, ReqType
<1>3. ASSUME NEW pc \in {"mark", "recheck"}, Goto(r, pc) PROVE ThreadStep(r)
  <2>1. /\ req' \in [Requests -> ReqType] /\ \A q \in Requests \ {r} : req'[q] = req[q]
        /\ req'[r].pc = pc /\ req'[r].op = req[r].op /\ req'[r].s = req[r].s
    BY <1>3, GotoIs DEF ReqPc
  <2>2. ReqOK(r)'  BY <1>1, <2>1, WithdrawingGoesOn, WithdrawnEntry DEF Withdrawing
  <2> QED BY <1>1, <1>2, <2>1, <2>2, CancelStep
<1>4. CASE Reply(r, "error")  BY <1>1, <1>2, <1>4, ReplyIs, RefusedThread, CancelStep
<1> QED BY <1>3, <1>4 DEF CallCancel

LEMMA CancelChildStep ==
    ASSUME DistInv, NEW r \in Requests, CancelChild(r)
    PROVE  ThreadStep(r)
<1> USE DEF DistInv
<1>1. /\ req[r].pc = "cancel_child" /\ UNCHANGED <<row, orders, published, poll>>
      /\ Cancels(row[Child(r)].order) \/ CancelRefused(row[Child(r)].order)
  BY DEF CancelChild
<1>2. row[Child(r)].order \in 0 .. MaxOrders  BY ChildKnown DEF RowType
<1>3. CASE Goto(r, "mark_child")
  <2>1. /\ req' \in [Requests -> ReqType] /\ \A q \in Requests \ {r} : req'[q] = req[q]
        /\ req'[r].pc = "mark_child" /\ req'[r].op = req[r].op /\ req'[r].s = req[r].s
        /\ req'[r].legs = req[r].legs
    BY <1>3, GotoIs DEF ReqPc
  <2>2. Child(r)' = Child(r)  BY <2>1 DEF Child, CascadeLeg
  <2>3. row'[Child(r)'].status # "absent"  BY <1>1, <2>2 DEF ReqOK
  <2>4. req[r].op # "receive" /\ row'[Entry(req[r].s)].order # Failed
    BY <1>1, WithdrawnEntry DEF Withdrawing, ReqOK
  <2>5. ReqOK(r)'  BY <2>1, <2>3, <2>4 DEF ReqOK, Holds, Receiving, Withdrawing
  <2> QED BY <1>1, <1>2, <2>1, <2>5, CancelStep
<1>4. CASE PassLeg(r)
  <2>1. ReqOK(r)'  BY <1>1, <1>4, PassLegIs, WithdrawingGoesOn, WithdrawnEntry DEF Withdrawing
  <2> QED BY <1>1, <1>2, <1>4, <2>1, PassLegIs, CancelStep
<1> QED BY <1>3, <1>4 DEF CancelChild

\* Placing an order for a leg that is no child.
LEMMA PlaceStep ==
    ASSUME DistInv, NEW r \in Requests, NEW i \in Ids, i[2] \notin ChildLegs,
           NEW n \in 0 .. Quantity, NEW answer, Placed(i, n, answer),
           req[r].pc \notin {"record", "record_close"},
           UNCHANGED <<row, published, poll>>,
           req' \in [Requests -> ReqType], \A q \in Requests \ {r} : req'[q] = req[q],
           answer # Failed => req'[r].pc \in {"record", "record_close"} /\ req'[r].order = answer,
           answer # Failed /\ answer <= orders' /\ book'[answer].id = i => ReqOK(r)',
           answer = Failed => ReqOK(r)'
    PROVE  ThreadStep(r)
<1> USE DEF DistInv
<1>1. /\ book' \in [OrderIds -> OrderType] /\ orders' \in 0 .. MaxOrders /\ faults' \in 0 .. MaxFaults
      /\ answer \in 0 .. MaxOrders
      /\ faults' = faults \/ faults' = faults + 1
      /\ \/ book' = book /\ orders' = orders /\ answer = Failed
         \/ /\ orders' = orders + 1 /\ book'[orders + 1].id = i
            /\ \A o \in OrderIds \ {orders + 1} : book'[o] = book[o]
            /\ answer = orders + 1 \/ (answer = Failed /\ faults' = faults + 1)
  BY PlacedIs
<1>2. StateTypeOK'  BY <1>1 DEF StateTypeOK
<1>3. faults <= faults' /\ orders <= orders' /\ orders \in Nat  BY <1>1 DEF StateTypeOK
<1>4. \A o \in OrderIds : o <= orders => book'[o] = book[o]  BY <1>1, <1>3 DEF OrderIds
<1>5. BookGains  BY <1>3, <1>4 DEF BookGains
<1>6. \A o \in OrderIds : orders < o /\ o <= orders' => book'[o].id[2] \notin ChildLegs
  <2> SUFFICES ASSUME NEW o \in OrderIds, orders < o, o <= orders' PROVE book'[o].id = i
    OBVIOUS
  <2>1. o \in Nat  BY DEF OrderIds
  <2>2. orders' = orders + 1 /\ book'[orders + 1].id = i  BY <1>1, <1>3, <2>1
  <2>3. o = orders + 1  BY <1>3, <2>1, <2>2
  <2> QED BY <2>2, <2>3
<1>7. Elsewhere /\ LogOK'  BY <1>2, <1>3, <1>5, <1>6, BrokerStep
<1>8. \/ orders' = orders
      \/ faults' = faults + 1
      \/ orders' = orders + 1 /\ req'[r].pc \in {"record", "record_close"} /\ req'[r].order = orders + 1
  BY <1>1, <1>3
<1>9. OrdersAreLogged'  BY <1>2, <1>7, <1>8, ThreadLogged DEF Elsewhere
<1>10. answer # Failed => answer <= orders' /\ book'[answer].id = i  BY <1>1, <1>3
<1> QED BY <1>2, <1>7, <1>9, <1>10 DEF ThreadStep

LEMMA PlaceEntryStep ==
    ASSUME DistInv, NEW r \in Requests, PlaceEntry(r)
    PROVE  ThreadStep(r)
<1> USE DEF DistInv
<1>1. PICK answer \in 0 .. MaxOrders :
         /\ Placed(Entry(req[r].s), Quantity, answer)
         /\ req' = [req EXCEPT ![r].pc = "record", ![r].order = answer]
  BY DEF PlaceEntry
<1>2. req[r].pc = "place" /\ UNCHANGED <<row, published, poll>>  BY DEF PlaceEntry
<1>3. req[r].s \in Signals /\ Entry(req[r].s) \in Ids /\ Entry(req[r].s)[2] \notin ChildLegs
  BY ConstantTypes DEF StateTypeOK, ReqType, ChildLegs
<1>4. /\ req' \in [Requests -> ReqType] /\ \A q \in Requests \ {r} : req'[q] = req[q]
      /\ req'[r].pc = "record" /\ req'[r].op = req[r].op /\ req'[r].s = req[r].s /\ req'[r].order = answer
  BY <1>1, GotoWithIs DEF ReqPc
<1>5. req[r].op = "receive"  BY <1>2 DEF ReqOK, Receiving
<1>6. (answer # Failed => answer <= orders' /\ book'[answer].id = Entry(req[r].s)) => ReqOK(r)'
  BY <1>4, <1>5 DEF ReqOK, Holds, Receiving, Withdrawing
<1>7. Quantity \in 0 .. Quantity  OBVIOUS
<1> QED BY <1>1, <1>2, <1>3, <1>4, <1>6, <1>7, PlaceStep

LEMMA PlaceCloseStep ==
    ASSUME DistInv, NEW r \in Requests, PlaceClose(r)
    PROVE  ThreadStep(r)
<1> USE DEF DistInv
<1> DEFINE i == <<req[r].s, "exit">>
<1>1. PICK answer \in 0 .. MaxOrders :
         /\ Placed(i, req[r].qty, answer)
         /\ \/ answer = Failed /\ Reply(r, "error")
            \/ req' = [req EXCEPT ![r].pc = "record_close", ![r].order = answer]
  BY DEF PlaceClose
<1>2. req[r].pc = "close" /\ UNCHANGED <<row, published, poll>>  BY DEF PlaceClose
<1>3. req[r].s \in Signals /\ req[r].qty \in 0 .. Quantity /\ i \in Ids /\ i[2] \notin ChildLegs
  <2>1. req[r].s \in Signals /\ req[r].qty \in 0 .. Quantity  BY DEF StateTypeOK, ReqType
  <2>2. "exit" \in Legs /\ "exit" \notin ChildLegs  BY DEF ChildLegs, Legs
  <2>3. i \in Ids /\ i[2] = "exit"  BY <2>1, <2>2, ConstantTypes
  <2> QED BY <2>1, <2>2, <2>3
<1>4. CASE answer = Failed /\ Reply(r, "error")
  <2>1. req' \in [Requests -> ReqType] /\ (\A q \in Requests \ {r} : req'[q] = req[q]) /\ ReqOK(r)'
    BY <1>4, ReplyIs, RefusedThread
  <2> QED BY <1>1, <1>2, <1>3, <1>4, <2>1, PlaceStep
<1>5. CASE req' = [req EXCEPT ![r].pc = "record_close", ![r].order = answer]
  <2>1. /\ req' \in [Requests -> ReqType] /\ \A q \in Requests \ {r} : req'[q] = req[q]
        /\ req'[r].pc = "record_close" /\ req'[r].op = req[r].op /\ req'[r].s = req[r].s /\ req'[r].order = answer
    BY <1>5, GotoWithIs DEF ReqPc
  <2>2. req[r].op # "receive" /\ row'[Entry(req[r].s)].order # Failed
    BY <1>2, WithdrawnEntry DEF Withdrawing, ReqOK
  <2>3. (answer # Failed => answer <= orders' /\ book'[answer].id = i) => ReqOK(r)'
    BY <2>1, <2>2 DEF ReqOK, Holds, Receiving, Withdrawing
  <2> QED BY <1>1, <1>2, <1>3, <2>1, <2>3, PlaceStep
<1> QED BY <1>1, <1>4, <1>5

\* A thread writes one row of the log.
LEMMA WriteStep ==
    ASSUME DistInv, NEW r \in Requests, NEW i \in Ids, NEW v \in RowType,
           row' = [row EXCEPT ![i] = v],
           UNCHANGED <<book, orders, published, poll, faults>>,
           v.fill = row[i].fill, v.filled = row[i].filled, v.status # "absent",
           row[i].order # Failed => v.order = row[i].order,
           v.order # Failed => v.order <= orders /\ book[v.order].id = i,
           v.bracket => i[2] = "entry",
           row[i].status = "absent" => i[2] \notin ChildLegs,
           req' \in [Requests -> ReqType], \A q \in Requests \ {r} : req'[q] = req[q], ReqOK(r)',
           req[r].pc \in {"record", "record_close"} /\ req[r].order # Failed => book[req[r].order].id = i
    PROVE  ThreadStep(r)
<1> USE DEF DistInv
<1>1. /\ row' \in [Ids -> RowType] /\ row'[i] = v
      /\ \A j \in Ids \ {i} : row'[j] = row[j]
  BY DEF StateTypeOK
<1>2. StateTypeOK'  BY <1>1 DEF StateTypeOK
<1>3. Elsewhere /\ LogOK'  BY <1>1, <1>2, LogStep
<1>4. OrdersAreLogged'  BY <1>1, <1>2, <1>3, ThreadLogged DEF Elsewhere
<1> QED BY <1>2, <1>3, <1>4 DEF ThreadStep

\* One field of one row changes.
LEMMA SetRow ==
    ASSUME StateTypeOK, NEW i \in Ids
    PROVE  /\ \A w \in BOOLEAN :
                LET v == [row[i] EXCEPT !.bracket = w]
                IN  /\ v \in RowType /\ v.bracket = w /\ v.fill = row[i].fill /\ v.filled = row[i].filled
                    /\ v.status = row[i].status /\ v.order = row[i].order
           /\ LET v == [row[i] EXCEPT !.status = "cancelled"]
              IN  /\ v \in RowType /\ v.bracket = row[i].bracket /\ v.fill = row[i].fill
                  /\ v.filled = row[i].filled /\ v.status = "cancelled" /\ v.order = row[i].order
<1>1. row[i] \in RowType  BY DEF StateTypeOK
<1> QED BY <1>1 DEF RowType

LEMMA AttachBracketStep ==
    ASSUME DistInv, NEW r \in Requests, AttachBracket(r)
    PROVE  ThreadStep(r)
<1> USE DEF DistInv
<1> DEFINE i == Entry(req[r].s)
           v == [row[i] EXCEPT !.bracket = TRUE]
<1>1. /\ req[r].pc = "attach" /\ Reply(r, "success") /\ UNCHANGED <<book, orders, published, poll, faults>>
      /\ row' = [row EXCEPT ![i] = v]
  BY DEF AttachBracket
<1>2. i \in Ids /\ i[2] = "entry"  BY ConstantTypes DEF StateTypeOK, ReqType
<1>3. /\ v \in RowType /\ v.bracket = TRUE /\ v.fill = row[i].fill /\ v.filled = row[i].filled
      /\ v.status = row[i].status /\ v.order = row[i].order
  BY <1>2, SetRow
<1> HIDE DEF v
<1>4. req[r].op = "receive" /\ req[r].order # Failed /\ row[i].order = req[r].order
  BY <1>1 DEF ReqOK, Receiving
<1>5. row[i].status # "absent" /\ RowOK(i)  BY <1>2, <1>4, RowOrder DEF LogOK
<1>6. /\ req' \in [Requests -> ReqType] /\ \A q \in Requests \ {r} : req'[q] = req[q]
      /\ req'[r].pc = "done" /\ req'[r].s = req[r].s /\ req'[r].order = req[r].order
  BY <1>1, ReplyIs
<1>7. row'[i].order = req[r].order  BY <1>1, <1>2, <1>3, <1>4 DEF StateTypeOK
<1>8. ReqOK(r)'  BY <1>4, <1>6, <1>7 DEF ReqOK, Holds, Receiving, Withdrawing
<1>9. v.order # Failed => v.order <= orders /\ book[v.order].id = i
  BY <1>3, <1>5 DEF RowOK
<1> QED BY <1>1, <1>2, <1>3, <1>5, <1>6, <1>8, <1>9, WriteStep

\* The entry of a signal that is withdrawn is written.
LEMMA EntryWriteStep ==
    ASSUME DistInv, NEW r \in Requests, req[r].pc \in {"mark", "clear"},
           NEW v \in RowType, row' = [row EXCEPT ![Entry(req[r].s)] = v],
           v.fill = row[Entry(req[r].s)].fill, v.filled = row[Entry(req[r].s)].filled,
           v.status # "absent", v.order = row[Entry(req[r].s)].order,
           NEW pc \in {"clear", "cascade"}, Goto(r, pc),
           UNCHANGED <<book, orders, published, poll, faults>>
    PROVE  ThreadStep(r)
<1> USE DEF DistInv
<1> DEFINE i == Entry(req[r].s)
<1>1. i \in Ids /\ row[i].order # Failed /\ row[i].status # "absent" /\ RowOK(i)
  BY WithdrawnEntry DEF Withdrawing, LogOK
<1>2. i[2] = "entry"  BY ConstantTypes DEF StateTypeOK, ReqType
<1>3. /\ req' \in [Requests -> ReqType] /\ \A q \in Requests \ {r} : req'[q] = req[q]
      /\ req'[r].pc = pc /\ req'[r].op = req[r].op /\ req'[r].s = req[r].s
  BY GotoIs DEF ReqPc
<1>4. row'[i].order # Failed  BY <1>1 DEF StateTypeOK
<1>5. ReqOK(r)'  BY <1>3, <1>4, WithdrawingGoesOn DEF Withdrawing
<1>6. v.order # Failed => v.order <= orders /\ book[v.order].id = i
  BY <1>1 DEF RowOK
<1> QED BY <1>1, <1>2, <1>3, <1>5, <1>6, WriteStep

LEMMA MarkCancelledStep ==
    ASSUME DistInv, NEW r \in Requests, MarkCancelled(r)
    PROVE  ThreadStep(r)
<1> DEFINE i == Entry(req[r].s)
           v == [row[i] EXCEPT !.status = "cancelled"]
<1>1. /\ req[r].pc = "mark" /\ Goto(r, "clear") /\ UNCHANGED <<book, orders, published, poll, faults>>
      /\ row' = [row EXCEPT ![i] = v]
  BY DEF MarkCancelled
<1>2. i \in Ids  BY <1>1, WithdrawnEntry DEF Withdrawing
<1>3. /\ v \in RowType /\ v.fill = row[i].fill /\ v.filled = row[i].filled
      /\ v.status = "cancelled" /\ v.order = row[i].order
  BY <1>2, SetRow DEF DistInv
<1> HIDE DEF v
<1> QED BY <1>1, <1>3, EntryWriteStep

LEMMA ClearBracketStep ==
    ASSUME DistInv, NEW r \in Requests, ClearBracket(r)
    PROVE  ThreadStep(r)
<1> DEFINE i == Entry(req[r].s)
           v == [row[i] EXCEPT !.bracket = FALSE]
<1>1. /\ req[r].pc = "clear" /\ Goto(r, "cascade") /\ UNCHANGED <<book, orders, published, poll, faults>>
      /\ row' = [row EXCEPT ![i] = v]
  BY DEF ClearBracket
<1>2. i \in Ids /\ row[i].status # "absent"  BY <1>1, WithdrawnEntry DEF Withdrawing
<1>3. /\ v \in RowType /\ v.fill = row[i].fill /\ v.filled = row[i].filled
      /\ v.status = row[i].status /\ v.order = row[i].order
  BY <1>2, SetRow DEF DistInv
<1> HIDE DEF v
<1> QED BY <1>1, <1>2, <1>3, EntryWriteStep

LEMMA MarkChildStep ==
    ASSUME DistInv, NEW r \in Requests, MarkChild(r)
    PROVE  ThreadStep(r)
<1> USE DEF DistInv
<1> DEFINE i == Child(r)
           v == [row[i] EXCEPT !.status = "cancelled"]
<1>1. /\ req[r].pc = "mark_child" /\ PassLeg(r) /\ UNCHANGED <<book, orders, published, poll, faults>>
      /\ row' = [row EXCEPT ![i] = v]
  BY DEF MarkChild
<1>2. i \in Ids  BY ChildKnown
<1>3. /\ v \in RowType /\ v.bracket = row[i].bracket /\ v.fill = row[i].fill /\ v.filled = row[i].filled
      /\ v.status = "cancelled" /\ v.order = row[i].order
  BY <1>2, SetRow
<1> HIDE DEF v
<1>4. row[i].status # "absent" /\ RowOK(i)  BY <1>1, <1>2 DEF ReqOK, LogOK
<1>5. row'[i].order = row[i].order /\ \A j \in Ids \ {i} : row'[j] = row[j]
  BY <1>1, <1>2, <1>3 DEF StateTypeOK
<1>6. Entry(req[r].s) \in Ids /\ row[Entry(req[r].s)].order # Failed
  BY <1>1, WithdrawnEntry DEF Withdrawing
<1>7. row'[Entry(req[r].s)].order # Failed  BY <1>5, <1>6
<1>8. ReqOK(r)'  BY <1>1, <1>7, PassLegIs, WithdrawingGoesOn DEF Withdrawing
<1>9. v.order # Failed => v.order <= orders /\ book[v.order].id = i
  BY <1>3, <1>4 DEF RowOK
<1>10. v.bracket => i[2] = "entry"  BY <1>3, <1>4 DEF RowOK
<1> HIDE DEF i
<1> QED BY <1>1, <1>2, <1>3, <1>4, <1>8, <1>9, <1>10, PassLegIs, WriteStep

\* A thread records the order it placed, or that it has none, in a new row.
LEMMA NewRowStep ==
    ASSUME DistInv, NEW r \in Requests, req[r].pc \in {"record", "record_close"},
           NEW i \in Ids, i[2] \notin ChildLegs, Holds(r, i), row[i].status = "absent",
           NEW v \in RowType, v.order = req[r].order, v.status # "absent",
           v.fill = "unseen", v.filled = 0, ~v.bracket,
           row' = [row EXCEPT ![i] = v],
           UNCHANGED <<book, orders, published, poll, faults>>,
           req' \in [Requests -> ReqType], \A q \in Requests \ {r} : req'[q] = req[q], ReqOK(r)'
    PROVE  ThreadStep(r)
<1> USE DEF DistInv
<1>1. row[i] = NoRow  BY DEF LogOK, RowOK
<1>2. row[i].order = Failed /\ row[i].fill = "unseen" /\ row[i].filled = 0  BY <1>1 DEF NoRow
<1>3. v.order # Failed => v.order <= orders /\ book[v.order].id = i  BY DEF Holds
<1>4. req[r].order # Failed => book[req[r].order].id = i  BY DEF Holds
<1>5. /\ v.fill = row[i].fill /\ v.filled = row[i].filled
      /\ v.bracket => i[2] = "entry"
      /\ row[i].order # Failed => v.order = row[i].order
  BY <1>2
<1> QED BY <1>3, <1>4, <1>5, WriteStep

LEMMA RecordEntryStep ==
    ASSUME DistInv, NEW r \in Requests, RecordEntry(r)
    PROVE  ThreadStep(r)
<1> USE DEF DistInv
<1> DEFINE i == Entry(req[r].s)
           n == req[r].order
<1>1. req[r].pc = "record" /\ UNCHANGED <<book, orders, published, poll, faults>>  BY DEF RecordEntry
<1>2. /\ req[r].s \in Signals /\ n \in 0 .. MaxOrders /\ i \in Ids /\ i[2] = "entry" /\ i[2] \notin ChildLegs
  BY ConstantTypes DEF StateTypeOK, ReqType, ChildLegs
<1>3. Holds(r, i) /\ req[r].op = "receive"  BY <1>1 DEF ReqOK, Receiving
<1>4. CASE row[i].status # "absent"
  <2>1. Reply(r, "error") /\ UNCHANGED row  BY <1>4 DEF RecordEntry
  <2>2. n = Failed \/ row[book[n].id].status # "absent"  BY <1>3, <1>4 DEF Holds
  <2> QED BY <1>1, <2>1, <2>2, ReplyIs, RefusedThread, LocalStep
<1>5. CASE row[i].status = "absent"
  <2> DEFINE v == NewRow(n)
  <2>1. /\ row' = [row EXCEPT ![i] = v]
        /\ IF n = Failed THEN Reply(r, "error")
           ELSE IF Children[req[r].s] = {} THEN Reply(r, "success") ELSE Goto(r, "attach")
    BY <1>5 DEF RecordEntry
  <2>6. /\ v \in RowType /\ v.order = n /\ v.status # "absent"
        /\ v.fill = "unseen" /\ v.filled = 0 /\ ~v.bracket
    BY <1>2, RecordTypes
  <2> HIDE DEF v
  <2>2. row'[i].order = n  BY <1>2, <2>1, <2>6 DEF StateTypeOK
  <2>3. CASE Reply(r, "error")
    BY <1>1, <1>2, <1>3, <1>5, <2>1, <2>3, <2>6, ReplyIs, RefusedThread, NewRowStep
  <2>4. CASE n # Failed /\ Reply(r, "success")
    <3>1. /\ req' \in [Requests -> ReqType] /\ \A q \in Requests \ {r} : req'[q] = req[q]
          /\ req'[r].pc = "done" /\ req'[r].s = req[r].s /\ req'[r].order = n
      BY <2>4, ReplyIs
    <3>2. ReqOK(r)'  BY <2>2, <2>4, <3>1 DEF ReqOK, Holds, Receiving, Withdrawing
    <3> QED BY <1>1, <1>2, <1>3, <1>5, <2>1, <2>6, <3>1, <3>2, NewRowStep
  <2>5. CASE n # Failed /\ Goto(r, "attach")
    <3>1. /\ req' \in [Requests -> ReqType] /\ \A q \in Requests \ {r} : req'[q] = req[q]
          /\ req'[r].pc = "attach" /\ req'[r].op = req[r].op /\ req'[r].s = req[r].s /\ req'[r].order = n
      BY <2>5, GotoIs DEF ReqPc
    <3>2. ReqOK(r)'  BY <1>3, <2>2, <2>5, <3>1 DEF ReqOK, Holds, Receiving, Withdrawing
    <3> QED BY <1>1, <1>2, <1>3, <1>5, <2>1, <2>6, <3>1, <3>2, NewRowStep
  <2> QED BY <2>1, <2>3, <2>4, <2>5
<1> QED BY <1>4, <1>5

LEMMA RecordCloseStep ==
    ASSUME DistInv, NEW r \in Requests, RecordClose(r)
    PROVE  ThreadStep(r)
<1> USE DEF DistInv
<1> DEFINE i == <<req[r].s, "exit">>
           n == req[r].order
<1>1. req[r].pc = "record_close" /\ UNCHANGED <<book, orders, published, poll, faults>>  BY DEF RecordClose
<1>2. /\ req[r].s \in Signals /\ i \in Ids /\ i[2] = "exit"
  <2>1. req[r].s \in Signals  BY DEF StateTypeOK, ReqType
  <2>2. "exit" \in Legs  BY DEF Legs
  <2> QED BY <2>1, <2>2, ConstantTypes
<1>3. Holds(r, i) /\ i[2] \notin ChildLegs  BY <1>1, <1>2 DEF ReqOK, ChildLegs
<1>4. CASE row[i].status # "absent"
  <2>1. Reply(r, "error") /\ UNCHANGED row  BY <1>4 DEF RecordClose
  <2>2. n = Failed \/ row[book[n].id].status # "absent"  BY <1>3, <1>4 DEF Holds
  <2> QED BY <1>1, <2>1, <2>2, ReplyIs, RefusedThread, LocalStep
<1>5. CASE row[i].status = "absent"
  <2> DEFINE v == [NewRow(n) EXCEPT !.status = "placed"]
  <2>1. row' = [row EXCEPT ![i] = v] /\ Goto(r, "mark")  BY <1>5 DEF RecordClose
  <2>6. /\ v \in RowType /\ v.order = n /\ v.status # "absent"
        /\ v.fill = "unseen" /\ v.filled = 0 /\ ~v.bracket
    <3> DEFINE w == NewRow(n)
    <3>1. n \in 0 .. MaxOrders  BY DEF StateTypeOK, ReqType
    <3>2. w \in RowType /\ w.order = n /\ w.fill = "unseen" /\ w.filled = 0 /\ ~w.bracket
      BY <3>1, RecordTypes
    <3> HIDE DEF w
    <3>3. v = [w EXCEPT !.status = "placed"]  BY DEF w
    <3> HIDE DEF v
    <3> QED BY <3>2, <3>3 DEF RowType
  <2> HIDE DEF v
  <2>2. /\ req' \in [Requests -> ReqType] /\ \A q \in Requests \ {r} : req'[q] = req[q]
        /\ req'[r].pc = "mark" /\ req'[r].op = req[r].op /\ req'[r].s = req[r].s
    BY <2>1, GotoIs DEF ReqPc
  <2>3. /\ Entry(req[r].s) \in Ids /\ Entry(req[r].s)[2] = "entry" /\ row[Entry(req[r].s)].order # Failed
    BY <1>1, WithdrawnEntry, ConstantTypes DEF Withdrawing
  <2>4. row'[Entry(req[r].s)] = row[Entry(req[r].s)]
    BY <1>2, <2>1, <2>3 DEF StateTypeOK
  <2>5. ReqOK(r)'  BY <1>1, <2>2, <2>3, <2>4, WithdrawingGoesOn DEF Withdrawing
  <2> HIDE DEF i
  <2> QED BY <1>1, <1>2, <1>3, <1>5, <2>1, <2>2, <2>5, <2>6, NewRowStep
<1> QED BY <1>4, <1>5

\* Every step of a thread.
LEMMA WebhookStep ==
    ASSUME DistInv, NEW r \in Requests, Webhook(r)
    PROVE  ThreadStep(r)
BY ReceiveStep, LookupStep, PlaceEntryStep, RecordEntryStep, AttachBracketStep, CallCancelStep,
   RecheckStep, ReadStatusStep, ReadPositionStep, PlaceCloseStep, RecordCloseStep, MarkCancelledStep,
   ClearBracketStep, CascadeStep, CancelChildStep, MarkChildStep, CommitFailsStep
   DEF Webhook

\* A step of a thread keeps the invariant.
LEMMA ThreadStepKeeps ==
    ASSUME DistInv, NEW r \in Requests, ThreadStep(r)
    PROVE  DistInv'
<1> USE DEF DistInv, ThreadStep
<1>1. \A q \in Requests : ReqOK(q)'  BY ThreadKeeps DEF Elsewhere
<1>2. SessionOK' /\ PlacingOK' /\ ChildrenFollowTheFill' /\ ChildrenCounted'
  BY ElsewhereKeepsSession, ElsewhereKeepsPlacing, ElsewhereKeepsChildren, ElsewhereKeepsCount
<1>3. OrderbookOK'  BY GainsKeepOrderbook DEF Elsewhere
<1>4. FillsOK'  BY GainsKeepFills DEF Elsewhere
<1> QED BY <1>1, <1>2, <1>3, <1>4

-----------------------------------------------------------------------------
(* The broker, restarts and the quiet steps of the poller                   *)

LEMMA BrokerActs ==
    ASSUME DistInv, NEW o \in OrderIds, BrokerFills(o) \/ BrokerEnds(o)
    PROVE  DistInv'
<1> USE DEF DistInv
<1>1. /\ UNCHANGED <<row, orders, published, req, poll, faults>>
      /\ o <= orders /\ book[o].state = "open" /\ book \in [OrderIds -> OrderType] /\ book[o] \in OrderType
  BY DEF BrokerFills, BrokerEnds, StateTypeOK
<1>2. /\ book' \in [OrderIds -> OrderType] /\ book'[o].id = book[o].id
      /\ \A p \in OrderIds \ {o} : book'[p] = book[p]
  <2>1. CASE BrokerFills(o)
    <3>1. PICK n \in 1 .. (book[o].size - book[o].filled) :
             book' = [book EXCEPT ![o].filled = @ + n,
                                  ![o].state = IF book[o].filled + n = book[o].size THEN "complete" ELSE "open"]
      BY <2>1 DEF BrokerFills
    <3> DEFINE st == IF book[o].filled + n = book[o].size THEN "complete" ELSE "open"
               m == book[o].filled + n
    <3>2. st \in {"complete", "open"} /\ m \in 0 .. Quantity  BY <1>1 DEF OrderType
    <3>3. book' = [book EXCEPT ![o].filled = m, ![o].state = st]  BY <3>1
    <3> HIDE DEF st, m
    <3> DEFINE b == [book EXCEPT ![o].filled = m]
    <3>5. b \in [OrderIds -> OrderType] /\ \A p \in OrderIds \ {o} : b[p] = book[p]
      BY <1>1, <3>2 DEF OrderType
    <3>6. b[o].id = book[o].id  BY <1>1, <3>2 DEF OrderType
    <3>7. book' = [b EXCEPT ![o].state = st]  BY <3>3
    <3> HIDE DEF b
    <3>8. book' \in [OrderIds -> OrderType] /\ \A p \in OrderIds \ {o} : book'[p] = b[p]
      BY <3>2, <3>5, <3>7 DEF OrderType, Terminal
    <3>9. book'[o].id = b[o].id  BY <3>2, <3>5, <3>7 DEF OrderType
    <3> QED BY <3>5, <3>6, <3>8, <3>9
  <2>2. CASE BrokerEnds(o)
    <3>1. PICK st \in {"rejected", "cancelled"} : book' = [book EXCEPT ![o].state = st]
      BY <2>2 DEF BrokerEnds
    <3> DEFINE v == [book[o] EXCEPT !.state = st]
    <3>2. v \in OrderType /\ v.id = book[o].id  BY <1>1 DEF OrderType, Terminal
    <3>3. book' = [book EXCEPT ![o] = v]  BY <3>1
    <3> HIDE DEF v
    <3> QED BY <1>1, <3>2, <3>3
  <2> QED BY <2>1, <2>2
<1>3. StateTypeOK'  BY <1>1, <1>2 DEF StateTypeOK
<1>4. BookGains
  <2>1. orders <= orders'  BY <1>1 DEF StateTypeOK
  <2>2. book[o].state \notin Terminal  BY <1>1 DEF Terminal
  <2> QED BY <1>2, <2>1, <2>2 DEF BookGains
<1>5. \A p \in OrderIds : ~(orders < p /\ p <= orders')  BY <1>1 DEF OrderIds, StateTypeOK
<1>6. faults <= faults'  BY <1>1 DEF StateTypeOK
<1>7. Elsewhere /\ LogOK'  BY <1>1, <1>3, <1>4, <1>5, <1>6, BrokerStep
<1>8. \A r \in Requests : ReqOK(r)'  BY <1>1, <1>3, <1>7, ThreadKeeps DEF Elsewhere
<1>9. OrdersAreLogged'  BY <1>1, <1>3, <1>5, <1>7, LoggedStays DEF Elsewhere, InFlight
<1>10. SessionOK' /\ PlacingOK' /\ ChildrenFollowTheFill' /\ ChildrenCounted'
  BY <1>3, <1>7, ElsewhereKeepsSession, ElsewhereKeepsPlacing, ElsewhereKeepsChildren, ElsewhereKeepsCount
<1>11. OrderbookOK'  BY <1>1, <1>3, <1>7, GainsKeepOrderbook DEF Elsewhere
<1>12. FillsOK'  BY <1>1, <1>3, <1>7, GainsKeepFills DEF Elsewhere
<1> QED BY <1>3, <1>7, <1>8, <1>9, <1>10, <1>11, <1>12

\* A step that leaves the log and the broker alone; the poller may only be
\* further from placing a child, unless there is a fault.
LEMMA QuietStep ==
    ASSUME DistInv, UNCHANGED <<row, book, orders>>,
           faults' = faults \/ Fault, req' \in [Requests -> ReqType],
           \A r \in Requests : req'[r] = req[r] \/ (req'[r].pc = "done" /\ req'[r].out = "error" /\ Fault),
           poll' \in PollType, SessionOK', OrderbookOK', PlacingOK', FillsOK',
           published' \in [Ids -> FillStates],
           \/ Fault
           \/ /\ poll.pc # "record"
              /\ poll'.pc \in {"place", "record"} =>
                    poll'.pc = "place" /\ poll.pc # "place" /\ poll'.leg = "sl" /\ row[poll'.cur].fill \notin Terminal
    PROVE  DistInv'
<1> USE DEF DistInv
<1>1. /\ faults' \in 0 .. MaxFaults /\ faults <= faults' /\ faults \in Nat /\ orders <= orders'
      /\ (Fault => faults < faults') /\ faults' \in Nat
  BY DEF StateTypeOK, Fault
<1>2. StateTypeOK'  BY <1>1 DEF StateTypeOK
<1>3. Gains  BY <1>1 DEF Gains, LogGains, BookGains
<1>4. LogOK'  BY <1>2, <1>3, RowKept DEF LogOK
<1>5. ASSUME NEW r \in Requests PROVE ReqOK(r)'
  BY <1>2, <1>3, ThreadKeeps, RefusedThread
<1>6. ChildrenFollowTheFill'  BY DEF ChildrenFollowTheFill
<1>7. \A o \in OrderIds : ~(orders < o /\ o <= orders')  BY DEF OrderIds, StateTypeOK
<1>8. OrdersAreLogged'
  <2>1. CASE Fault
    <3>1. faults' # 0  BY <1>1, <2>1
    <3> QED BY <3>1 DEF OrdersAreLogged
  <2>2. CASE ~Fault
    <3>1. \A o : InFlight(o) => InFlight(o)'  BY <2>2 DEF InFlight
    <3> QED BY <1>2, <1>3, <1>7, <3>1, LoggedStays
  <2> QED BY <2>1, <2>2
<1>9. ChildrenCounted'
  <2>1. ASSUME ~Fault, NEW s \in Signals, NEW leg \in ChildLegs, Fresh(s, leg)' PROVE Fresh(s, leg)
    <3>1. poll.pc # "record"  BY <2>1
    <3>2. row[Entry(s)].fill \notin Terminal
      <4>1. CASE poll'.pc = "place" /\ poll'.cur = Entry(s) /\ poll'.leg = leg  BY <2>1, <4>1
      <4>2. CASE row'[Entry(s)].fill \notin Terminal  BY <4>2
      <4> QED BY <2>1, <4>1, <4>2 DEF Fresh, Entry
    <3> QED BY <3>1, <3>2 DEF Fresh
  <2>2. faults < faults' \/ \A s \in Signals : \A leg \in ChildLegs : Fresh(s, leg)' => Fresh(s, leg)
    BY <1>1, <2>1
  <2> QED BY <1>2, <1>3, <1>7, <2>2, CountStays
<1> QED BY <1>2, <1>4, <1>5, <1>6, <1>8, <1>9

LEMMA AsleepIs ==
    /\ Asleep \in PollType /\ Asleep.pc = "idle" /\ Asleep.todo = {} /\ Asleep.dirty = {}
    /\ \A i \in Ids : Asleep.seen[i] = NoView
    /\ \A o \in OrderIds : Asleep.ob[o] = [state |-> "unseen", filled |-> 0]
BY RecordTypes DEF Asleep

LEMMA AsleepOK ==
    ASSUME poll' = Asleep
    PROVE  poll' \in PollType /\ SessionOK' /\ OrderbookOK' /\ PlacingOK'
<1>1. SessionOK'  BY AsleepIs DEF SessionOK, NoView
<1>2. OrderbookOK'  BY AsleepIs DEF OrderbookOK, Terminal
<1>3. PlacingOK'  BY AsleepIs DEF PlacingOK
<1> QED BY <1>1, <1>2, <1>3, AsleepIs

LEMMA RestartStep ==
    ASSUME DistInv, Restart
    PROVE  DistInv'
<1> USE DEF DistInv
<1>1. Fault /\ poll' = Asleep /\ UNCHANGED <<row, book, orders, published>>  BY DEF Restart
<1>2. ASSUME NEW r \in Requests
      PROVE  /\ req'[r] \in ReqType
             /\ req'[r] = req[r] \/ (req'[r].pc = "done" /\ req'[r].out = "error")
  <2>1. req[r] \in ReqType  BY DEF StateTypeOK
  <2>2. req'[r] = req[r] \/ req'[r] = Answered(r, "error", Failed)  BY DEF Restart
  <2>3. /\ Answered(r, "error", Failed) \in ReqType
        /\ Answered(r, "error", Failed).pc = "done" /\ Answered(r, "error", Failed).out = "error"
    BY <2>1 DEF Answered, ReqType, ReqPc
  <2> QED BY <2>1, <2>2, <2>3
<1>3. req' \in [Requests -> ReqType]
  <2>1. req' = [r \in Requests |-> req'[r]]  BY DEF Restart
  <2> QED BY <1>2, <2>1
<1>4. FillsOK' /\ published' \in [Ids -> FillStates]  BY <1>1 DEF FillsOK, StateTypeOK
<1> QED BY <1>1, <1>2, <1>3, <1>4, AsleepOK, QuietStep

LEMMA PollStartStep ==
    ASSUME DistInv, PollStart
    PROVE  DistInv'
<1> USE DEF DistInv
<1> DEFINE open == {i \in Ids : Pollable(i)}
           sees == [i \in Ids |-> IF i \in open THEN View(i) ELSE NoView]
<1>1. /\ UNCHANGED <<row, book, orders, published, req, faults>> /\ poll.pc = "idle"
      /\ poll' = [Asleep EXCEPT !.pc = "fetch", !.todo = open, !.held = open, !.seen = sees]
  BY DEF PollStart
<1>2. open \in SUBSET Ids /\ \A i \in open : row[i].order # Failed /\ row[i].fill \notin Terminal
  BY DEF Pollable
<1>3. ASSUME NEW i \in Ids
      PROVE View(i) \in SeenType /\ NoView \in SeenType /\ View(i).bracket = row[i].bracket
  BY DEF View, NoView, SeenType, StateTypeOK, RowType, FillStates
<1>4. sees \in [Ids -> SeenType] /\ \A i \in Ids : sees[i].bracket => i[2] = "entry"
  <2>1. ASSUME NEW i \in Ids PROVE sees[i] \in SeenType /\ (sees[i].bracket => i[2] = "entry")
    <3>1. CASE i \in open  BY <1>3, <3>1 DEF LogOK, RowOK
    <3>2. CASE i \notin open  BY <1>3, <3>2 DEF NoView
    <3> QED BY <3>1, <3>2
  <2> QED BY <2>1
<1> HIDE DEF open, sees
<1>5. poll'.pc = "fetch" /\ poll'.todo = open /\ poll'.seen = sees /\ poll'.dirty = {} /\ poll'.ob = Asleep.ob
  BY <1>1 DEF Asleep
<1>6. poll' \in PollType
  BY <1>1, <1>2, <1>4, AsleepIs DEF PollType, PollPc
<1>7. poll' \in PollType /\ SessionOK' /\ OrderbookOK' /\ PlacingOK'
  <2>1. SessionOK'  BY <1>1, <1>2, <1>4, <1>5 DEF SessionOK
  <2>2. OrderbookOK'  BY <1>5, AsleepIs DEF OrderbookOK, Terminal
  <2>3. PlacingOK'  BY <1>5 DEF PlacingOK
  <2> QED BY <1>6, <2>1, <2>2, <2>3
<1>8. FillsOK' /\ published' \in [Ids -> FillStates] /\ req' \in [Requests -> ReqType]
  BY <1>1 DEF FillsOK, StateTypeOK
<1> QED BY <1>1, <1>5, <1>7, <1>8, QuietStep

LEMMA FetchOrderbookStep ==
    ASSUME DistInv, FetchOrderbook
    PROVE  DistInv'
<1> USE DEF DistInv
<1>0. PICK visible \in SUBSET Polled : Fetch(visible)  BY DEF FetchOrderbook
<1> DEFINE ob == [o \in OrderIds |-> IF o \in visible THEN Reported(o) ELSE poll.ob[o]]
<1>1. /\ UNCHANGED <<row, book, orders, published, req, faults>> /\ poll.pc = "fetch" /\ poll \in PollType
      /\ poll' = [poll EXCEPT !.pc = "compare", !.ob = ob]
  BY <1>0 DEF Fetch, StateTypeOK
\* the orders that are asked for are orders of the broker
<1>10. \A o \in visible : o <= orders
  <2> SUFFICES ASSUME NEW o \in visible PROVE o <= orders  OBVIOUS
  <2>1. PICK i \in poll.todo : o = row[i].order  BY DEF Polled
  <2>2. i \in Ids  BY <1>1 DEF PollType
  <2> QED BY <2>1, <2>2, RowOrder DEF SessionOK
<1>2. ASSUME NEW o \in OrderIds
      PROVE  /\ ob[o] \in [state : FillStates, filled : 0 .. Quantity]
             /\ ob[o].state \in Terminal =>
                   o <= orders /\ book[o].state = ob[o].state /\ book[o].filled = ob[o].filled
  <2>1. CASE o \in visible
    <3>1. ob[o] = Reported(o) /\ book[o] \in OrderType /\ o <= orders  BY <1>10, <2>1 DEF StateTypeOK
    <3>2. PICK st \in {"partial", book[o].state} :
             /\ Reported(o) = [state |-> st, filled |-> book[o].filled]
             /\ st \in Terminal => st = book[o].state
      BY DEF Reported, Terminal
    <3> HIDE DEF ob
    <3> QED BY <2>1, <3>1, <3>2 DEF OrderType, FillStates
  <2>2. CASE o \notin visible
    <3>1. ob[o] = poll.ob[o]  BY <2>2
    <3> HIDE DEF ob
    <3> QED BY <1>1, <2>2, <3>1 DEF OrderbookOK, PollType
  <2> QED BY <2>1, <2>2
<1>3. ob \in [OrderIds -> [state : FillStates, filled : 0 .. Quantity]]  BY <1>2
<1> HIDE DEF ob
<1>4. /\ poll'.pc = "compare" /\ poll'.todo = poll.todo /\ poll'.seen = poll.seen
      /\ poll'.dirty = poll.dirty /\ poll'.ob = ob
  BY <1>1 DEF PollType
<1>5. poll' \in PollType  BY <1>1, <1>3 DEF PollType, PollPc
<1>6. SessionOK'  BY <1>1, <1>4 DEF SessionOK
<1>7. OrderbookOK'  BY <1>1, <1>2, <1>4 DEF OrderbookOK
<1>8. PlacingOK'  BY <1>4 DEF PlacingOK
<1>9. FillsOK' /\ published' \in [Ids -> FillStates] /\ req' \in [Requests -> ReqType]
  BY <1>1 DEF FillsOK, StateTypeOK
<1> QED BY <1>1, <1>4, <1>5, <1>6, <1>7, <1>8, <1>9, QuietStep

LEMMA OrderbookFailsStep ==
    ASSUME DistInv, OrderbookFails
    PROVE  DistInv'
<1> USE DEF DistInv
<1>1. poll.pc = "fetch" /\ poll' = Asleep /\ UNCHANGED <<row, book, orders, published, req, faults>>
  BY DEF OrderbookFails
<1>2. FillsOK' /\ published' \in [Ids -> FillStates] /\ req' \in [Requests -> ReqType]
  BY <1>1 DEF FillsOK, StateTypeOK
<1>3. poll'.pc = "idle"  BY <1>1, AsleepIs
<1> QED BY <1>1, <1>2, <1>3, AsleepOK, QuietStep

\* The session after a commit or a rollback.
LEMMA ExpiredIs ==
    ASSUME poll \in PollType, NEW pc \in PollPc
    PROVE  /\ Expired(pc) \in PollType /\ Expired(pc).pc = pc /\ Expired(pc).dirty = {}
           /\ Expired(pc).todo = poll.todo /\ Expired(pc).seen = poll.seen /\ Expired(pc).ob = poll.ob
           /\ Expired(pc).cur = poll.cur /\ Expired(pc).leg = poll.leg
BY DEF Expired, PollType, PollPc

LEMMA PollCommitFailsStep ==
    ASSUME DistInv, PollCommitFails
    PROVE  DistInv'
<1> USE DEF DistInv
<1>1. Fault /\ UNCHANGED <<row, book, orders, published, req>>  BY DEF PollCommitFails
<1>2. FillsOK' /\ published' \in [Ids -> FillStates] /\ req' \in [Requests -> ReqType]
  BY <1>1 DEF FillsOK, StateTypeOK
<1>3. CASE poll' = Asleep  BY <1>1, <1>2, <1>3, AsleepOK, QuietStep
<1>4. CASE poll' = Expired("compare")
  <2>1. /\ poll' \in PollType /\ poll'.pc = "compare" /\ poll'.dirty = {}
        /\ poll'.todo = poll.todo /\ poll'.seen = poll.seen /\ poll'.ob = poll.ob
    BY <1>4, ExpiredIs DEF StateTypeOK, PollPc
  <2>2. SessionOK'  BY <1>1, <2>1 DEF SessionOK
  <2>3. OrderbookOK'  BY <1>1, <2>1 DEF OrderbookOK
  <2>4. PlacingOK'  BY <2>1 DEF PlacingOK
  <2> QED BY <1>1, <1>2, <2>1, <2>2, <2>3, <2>4, QuietStep
<1> QED BY <1>3, <1>4 DEF PollCommitFails

\* What the poller is shown of a row.
LEMMA ShownIs ==
    ASSUME DistInv, NEW i \in Ids
    PROVE  Shown(i) \in SeenType /\ (Shown(i).bracket => i[2] = "entry")
<1> USE DEF DistInv
<1>1. View(i) \in SeenType /\ View(i).bracket = row[i].bracket
  BY DEF View, SeenType, StateTypeOK, RowType, FillStates
<1>2. poll.seen[i] \in SeenType  BY DEF StateTypeOK, PollType
<1>3. (poll.seen[i].bracket => i[2] = "entry") /\ (row[i].bracket => i[2] = "entry")
  BY DEF SessionOK, LogOK, RowOK
<1>4. CASE i \in poll.held  BY <1>2, <1>3, <1>4 DEF Shown
<1>5. CASE i \notin poll.held  BY <1>1, <1>3, <1>5 DEF Shown
<1> QED BY <1>4, <1>5

LEMMA CompareStep ==
    ASSUME DistInv, NEW i \in Ids, Compare(i)
    PROVE  DistInv'
<1> USE DEF DistInv
<1> DEFINE n == row[i].order
           now == poll.ob[n]
           b == Shown(i).bracket
           new == [fill |-> now.state, filled |-> now.filled, bracket |-> b]
           todo == poll.todo \ {i}
           drop == IF b /\ now.state \in {"cancelled", "rejected"} THEN poll.drop \cup {i} ELSE poll.drop
           sees == [poll.seen EXCEPT ![i] = new]
           dirty == poll.dirty \cup {i}
           held == poll.held \cup {i}
<1>1. poll.pc = "compare" /\ i \in poll.todo /\ poll \in PollType /\ UNCHANGED <<row, book, orders, req>>
  BY DEF Compare, StateTypeOK
<1>2. PICK pc \in NextStep(b, now.state) :
         poll' = [poll EXCEPT !.pc = pc, !.cur = i, !.leg = "sl", !.todo = todo,
                              !.dirty = dirty, !.held = held, !.drop = drop, !.seen = sees]
  BY <1>1 DEF Compare, PollType
<1>3. /\ published' = [published EXCEPT ![i] = now.state] \/ published' = published
      /\ faults' = faults \/ Fault
  BY DEF Compare
<1>4. n # Failed /\ row[i].fill \notin Terminal /\ n \in OrderIds /\ row[i].status # "absent"
  BY <1>1, RowOrder DEF SessionOK
<1>5. /\ now.state \in FillStates /\ now.filled \in 0 .. Quantity
      /\ now.state \in Terminal => book[n].state = now.state /\ book[n].filled = now.filled
  BY <1>1, <1>4 DEF OrderbookOK, PollType
<1>6. b \in BOOLEAN /\ (b => i[2] = "entry")  BY ShownIs DEF SeenType
<1>7. pc \in {"place", "clear", "compare"} /\ (pc = "place" => b /\ now.state = "complete")
  BY <1>2 DEF NextStep
<1>8. new \in SeenType /\ new.fill = now.state /\ new.filled = now.filled /\ (new.bracket => i[2] = "entry")
  BY <1>5, <1>6 DEF SeenType
<1>9. poll.seen \in [Ids -> SeenType] /\ poll.todo \subseteq Ids /\ poll.dirty \subseteq Ids
      /\ poll.drop \subseteq Ids /\ poll.held \subseteq Ids
  BY <1>1 DEF PollType
<1>10. /\ sees \in [Ids -> SeenType] /\ sees[i] = new /\ \A j \in Ids \ {i} : sees[j] = poll.seen[j]
  <2> HIDE DEF new
  <2> QED BY <1>8, <1>9
<1>11. todo \in SUBSET Ids /\ dirty \in SUBSET Ids /\ held \in SUBSET Ids /\ drop \in SUBSET Ids  BY <1>9
<1>12. \A j \in todo : j \in poll.todo /\ j # i  OBVIOUS
<1>13. \A j : j \in dirty <=> j = i \/ j \in poll.dirty  OBVIOUS
<1> HIDE DEF todo, sees, dirty, held, drop
<1>14. poll' \in PollType
  BY <1>1, <1>2, <1>7, <1>10, <1>11 DEF PollType, PollPc
<1>15. /\ poll'.pc = pc /\ poll'.cur = i /\ poll'.leg = "sl" /\ poll'.todo = todo
       /\ poll'.dirty = dirty /\ poll'.seen = sees /\ poll'.ob = poll.ob
  BY <1>1, <1>2 DEF PollType
<1>16. SessionOK'
  <2>1. ASSUME NEW j \in todo PROVE row'[j].order # Failed /\ row'[j].fill \notin Terminal
    BY <1>1, <1>12 DEF SessionOK
  <2>2. ASSUME NEW k \in dirty
        PROVE /\ row'[k].order # Failed /\ row'[k].fill \notin Terminal
              /\ sees[k].fill \in Terminal =>
                    /\ book'[row'[k].order].state = sees[k].fill
                    /\ book'[row'[k].order].filled = sees[k].filled
    <3>1. CASE k = i  BY <1>1, <1>4, <1>5, <1>8, <1>10, <3>1
    <3>2. CASE k # i
      <4>1. k \in poll.dirty /\ k \in Ids  BY <1>9, <1>13, <3>2
      <4>2. sees[k] = poll.seen[k]  BY <1>10, <3>2, <4>1
      <4> QED BY <1>1, <4>1, <4>2 DEF SessionOK
    <3> QED BY <3>1, <3>2
  <2>3. \A k \in dirty : k \notin todo  BY <1>12, <1>13 DEF SessionOK
  <2>4. ASSUME NEW k \in Ids PROVE sees[k].bracket => k[2] = "entry"
    <3>1. CASE k = i  BY <1>8, <1>10, <3>1
    <3>2. CASE k # i  BY <1>10, <3>2 DEF SessionOK
    <3> QED BY <3>1, <3>2
  <2> QED BY <1>15, <2>1, <2>2, <2>3, <2>4 DEF SessionOK
<1>17. OrderbookOK'  BY <1>1, <1>15 DEF OrderbookOK
<1>18. PlacingOK'
  <2>1. pc # "record"  BY <1>7
  <2>2. ASSUME pc = "place"
        PROVE /\ i[2] = "entry" /\ row'[i].order # Failed /\ book'[row'[i].order].state = "complete"
              /\ row'[ChildOf(i, "sl")].status = "absent" /\ i \in dirty /\ sees[i].fill = "complete"
    <3>1. b /\ now.state = "complete" /\ i[2] = "entry"  BY <1>6, <1>7, <2>2
    <3>2. book[n].state = "complete"  BY <1>5, <3>1 DEF Terminal
    <3>3. Entry(i[1]) = i  BY <3>1, ConstantTypes DEF Entry
    <3>4. ChildOf(i, "sl") \in Ids /\ ChildOf(i, "sl")[1] = i[1] /\ ChildOf(i, "sl")[2] = "sl"
      BY ChildIs DEF Legs
    <3>5. row[ChildOf(i, "sl")].status = "absent"
      BY <1>4, <3>3, <3>4 DEF LogOK, RowOK, ChildLegs
    <3> QED BY <1>1, <1>4, <1>8, <1>10, <1>13, <3>1, <3>2, <3>5
  <2> QED BY <1>15, <2>1, <2>2 DEF PlacingOK
<1>19. FillsOK' /\ published' \in [Ids -> FillStates]
  <2>1. \A j \in Ids : published'[j] = published[j] \/ (j = i /\ published'[j] = now.state)
    BY <1>3 DEF StateTypeOK
  <2>2. FillsOK'  BY <1>1, <1>4, <1>5, <2>1 DEF FillsOK
  <2>3. published' \in [Ids -> FillStates]  BY <1>3, <1>5 DEF StateTypeOK
  <2> QED BY <2>2, <2>3
<1>20. req' \in [Requests -> ReqType]  BY <1>1 DEF StateTypeOK
<1> QED BY <1>1, <1>3, <1>4, <1>7, <1>14, <1>15, <1>16, <1>17, <1>18, <1>19, <1>20, QuietStep

LEMMA PlaceChildStep ==
    ASSUME DistInv, PlaceChild
    PROVE  DistInv'
<1> USE DEF DistInv
<1> DEFINE i == poll.cur
           c == ChildOf(poll.cur, poll.leg)
           n == poll.seen[poll.cur].filled
<1>1. PICK answer \in 0 .. MaxOrders :
         Placed(c, n, answer) /\ poll' = [poll EXCEPT !.pc = "record", !.order = answer]
  BY DEF PlaceChild
<1>2. poll.pc = "place" /\ UNCHANGED <<row, published, req>>  BY DEF PlaceChild
<1>3. poll \in PollType /\ i \in Ids /\ poll.leg \in ChildLegs /\ n \in 0 .. Quantity
  BY DEF StateTypeOK, PollType, SeenType, ChildLegs
<1>4. c \in Ids /\ c[1] = i[1] /\ c[2] = poll.leg /\ c = <<i[1], poll.leg>> /\ i[1] \in Signals
  BY <1>3, ChildIs, ConstantTypes DEF ChildLegs, Legs, ChildOf
<1>5. /\ i[2] = "entry" /\ row[i].order # Failed /\ book[row[i].order].state = "complete"
      /\ row[c].status = "absent"
      /\ IF poll.leg = "sl" THEN i \in poll.dirty /\ poll.seen[i].fill = "complete"
         ELSE row[i].fill \in Terminal
  BY <1>2 DEF PlacingOK
<1>6. i = Entry(i[1])  BY <1>3, <1>5, ConstantTypes DEF Entry
<1>7. /\ book' \in [OrderIds -> OrderType] /\ orders' \in 0 .. MaxOrders /\ faults' \in 0 .. MaxFaults
      /\ faults' = faults \/ faults' = faults + 1
      /\ \/ book' = book /\ orders' = orders /\ answer = Failed
         \/ /\ orders' = orders + 1 /\ book'[orders + 1].id = c
            /\ \A o \in OrderIds \ {orders + 1} : book'[o] = book[o]
            /\ answer = orders + 1 \/ (answer = Failed /\ faults' = faults + 1)
  BY <1>1, <1>3, <1>4, PlacedIs
<1>8. /\ poll' \in PollType /\ poll'.pc = "record" /\ poll'.order = answer /\ poll'.cur = i
      /\ poll'.leg = poll.leg /\ poll'.todo = poll.todo /\ poll'.dirty = poll.dirty
      /\ poll'.seen = poll.seen /\ poll'.ob = poll.ob
  BY <1>1, <1>3 DEF PollType, PollPc
<1> HIDE DEF c
<1>9. StateTypeOK'  BY <1>2, <1>7, <1>8 DEF StateTypeOK
<1>10. faults <= faults' /\ orders <= orders' /\ orders \in Nat /\ faults \in Nat  BY <1>7 DEF StateTypeOK
<1>11. \A o \in OrderIds : o <= orders => book'[o] = book[o]  BY <1>7, <1>10 DEF OrderIds
<1>12. Gains  BY <1>2, <1>10, <1>11 DEF Gains, BookGains, LogGains
<1>13. \A o \in OrderIds : orders < o /\ o <= orders' => o = orders + 1 /\ orders' = orders + 1 /\ book'[o].id = c
  <2> SUFFICES ASSUME NEW o \in OrderIds, orders < o, o <= orders'
               PROVE o = orders + 1 /\ orders' = orders + 1 /\ book'[o].id = c
    OBVIOUS
  <2>1. o \in Nat  BY DEF OrderIds
  <2>2. orders' = orders + 1 /\ book'[orders + 1].id = c  BY <1>7, <1>10, <2>1
  <2>3. o = orders + 1  BY <1>10, <2>1, <2>2
  <2> QED BY <2>2, <2>3
<1>14. LogOK'  BY <1>2, <1>9, <1>12, RowKept DEF LogOK
<1>15. \A r \in Requests : ReqOK(r)'  BY <1>2, <1>9, <1>12, ThreadKeeps
<1>16. SessionOK'  BY <1>2, <1>8, <1>9, <1>12, GainsKeepSession
<1>17. OrderbookOK'  BY <1>8, <1>9, <1>12, GainsKeepOrderbook
<1>18. FillsOK'  BY <1>2, <1>9, <1>12, GainsKeepFills
<1>19. row'[i].order = row[i].order /\ book'[row[i].order].state = "complete"
  BY <1>3, <1>5, <1>9, <1>12, RowStays DEF Terminal
<1>20. PlacingOK'
  <2>1. answer # Failed => answer <= orders' /\ book'[answer].id = c  BY <1>7, <1>10
  <2>2. ChildOf(poll'.cur, poll'.leg) = c  BY <1>8 DEF c
  <2> QED BY <1>2, <1>5, <1>8, <1>19, <2>1, <2>2 DEF PlacingOK
<1>21. ChildrenFollowTheFill'
  <2> SUFFICES ASSUME NEW o \in 1 .. orders', book'[o].id[2] \in ChildLegs
               PROVE  LET m == row'[Entry(book'[o].id[1])].order
                      IN m # Failed /\ book'[m].state = "complete"
    BY DEF ChildrenFollowTheFill, ChildLegs
  <2>1. o \in OrderIds /\ o \in Nat  BY <1>9 DEF OrderIds, StateTypeOK
  <2>2. CASE o <= orders
    <3> DEFINE e == Entry(book[o].id[1])
    <3>1. book'[o].id = book[o].id /\ book[o].id \in Ids  BY <1>11, <2>1, <2>2 DEF StateTypeOK, OrderType
    <3>2. e \in Ids  BY <3>1, ConstantTypes
    <3>3. o \in 1 .. orders  BY <2>1, <2>2, <1>10
    <3>4. row[e].order # Failed /\ book[row[e].order].state = "complete"
      BY <3>1, <3>3 DEF ChildrenFollowTheFill, ChildLegs
    <3>5. row'[e].order = row[e].order /\ book'[row[e].order].state = "complete"
      BY <1>9, <1>12, <3>2, <3>4, RowStays DEF Terminal
    <3> QED BY <3>1, <3>4, <3>5
  <2>3. CASE orders < o
    <3>1. book'[o].id = c  BY <1>13, <2>1, <2>3
    <3> QED BY <1>4, <1>5, <1>6, <1>19, <3>1
  <2> QED BY <1>10, <2>1, <2>2, <2>3
<1>22. OrdersAreLogged'
  <2> SUFFICES ASSUME faults' = 0, NEW o \in OrderIds
               PROVE /\ o <= orders /\ InFlight(o) => InFlight(o)' \/ row'[book[o].id].status # "absent"
                     /\ orders < o /\ o <= orders' => InFlight(o)'
    BY <1>9, <1>12, LoggedStays
  <2>1. InFlight(o) => InFlight(o)'  BY <1>2 DEF InFlight
  <2>2. faults' # faults + 1  BY <1>10
  <2>3. ASSUME orders < o, o <= orders' PROVE InFlight(o)'
    <3>1. o = orders + 1 /\ orders' = orders + 1  BY <1>13, <2>3
    <3>2. orders' # orders  BY <1>10, <3>1
    <3>3. answer = o  BY <1>7, <2>2, <3>1, <3>2
    <3> QED BY <1>8, <3>3 DEF InFlight
  <2> QED BY <2>1, <2>3
<1>23. ChildrenCounted'
  <2> SUFFICES ASSUME NEW s \in Signals, NEW leg \in ChildLegs
               PROVE Cardinality(OrdersOf(<<s, leg>>))' <= IF Fresh(s, leg)' THEN faults' ELSE 1 + faults'
    BY DEF ChildrenCounted
  <2> DEFINE S == OrdersOf(<<s, leg>>)
  <2>1. IsFiniteSet(S) /\ Cardinality(S) \in Nat
    BY OrdersFinite
  <2>2. Cardinality(S) <= IF Fresh(s, leg) THEN faults ELSE 1 + faults  BY DEF ChildrenCounted
  <2>3. CASE <<s, leg>> = c
    <3>1. s = i[1] /\ leg = poll.leg  BY <1>4, <2>3
    <3>2. Fresh(s, leg)  BY <1>2, <1>6, <3>1 DEF Fresh
    <3>3. ~Fresh(s, leg)'  BY <1>6, <1>8, <3>1 DEF Fresh, Entry
    <3>4. Cardinality(S)' <= Cardinality(S) + 1 /\ Cardinality(S)' \in Nat
      <4>1. S' \subseteq S \cup {orders + 1}
        <5> SUFFICES ASSUME NEW o \in S' PROVE o \in S \/ o = orders + 1  OBVIOUS
        <5>1. o \in OrderIds /\ o \in Nat /\ o # 0 /\ o <= orders' /\ book'[o].id = <<s, leg>>
          BY <1>9 DEF OrdersOf, OrderIds, StateTypeOK
        <5>2. CASE orders < o  BY <1>13, <5>1, <5>2
        <5>3. CASE o <= orders
          <6>1. book[o].id = <<s, leg>> /\ o \in 1 .. orders  BY <1>10, <1>11, <5>1, <5>3
          <6> QED BY <6>1 DEF OrdersOf
        <5> QED BY <1>10, <5>1, <5>2, <5>3
      <4> HIDE DEF S
      <4>2. IsFiniteSet(S \cup {orders + 1}) /\ Cardinality(S \cup {orders + 1}) <= Cardinality(S) + 1
            /\ Cardinality(S \cup {orders + 1}) \in Nat
        <5>1. /\ IsFiniteSet(S \cup {orders + 1})
              /\ Cardinality(S \cup {orders + 1}) = Cardinality(S)
                    \/ Cardinality(S \cup {orders + 1}) = Cardinality(S) + 1
          BY <2>1, FS_AddElement
        <5> QED BY <2>1, <5>1
      <4>3. Cardinality(S') <= Cardinality(S \cup {orders + 1}) /\ Cardinality(S') \in Nat
        BY <4>1, <4>2, FS_Subset, FS_CardinalityType
      <4> QED BY <2>1, <4>2, <4>3
    <3>5. Cardinality(S) <= faults  BY <2>2, <3>2
    <3> HIDE DEF S
    <3>6. Cardinality(S)' <= 1 + faults'
      <4>1. faults' \in Nat  BY <1>7 DEF StateTypeOK
      <4> QED BY <1>10, <2>1, <3>4, <3>5, <4>1
    <3> QED BY <3>3, <3>6 DEF S
  <2>4. CASE <<s, leg>> # c
    <3>1. S' = S  BY <1>9, <1>12, <1>13, <2>4, SameOrders
    <3>2. Fresh(s, leg)' => Fresh(s, leg)  BY <1>2, <1>8 DEF Fresh, Entry
    <3> HIDE DEF S
    <3>3. faults' \in Nat  BY <1>7 DEF StateTypeOK
    <3>4. /\ Cardinality(S) <= 1 + faults => Cardinality(S) <= 1 + faults'
          /\ Cardinality(S) <= faults => Cardinality(S) <= faults' /\ Cardinality(S) <= 1 + faults
      BY <1>10, <2>1, <3>3, MoreFaults
    <3>5. Cardinality(S) <= IF Fresh(s, leg)' THEN faults' ELSE 1 + faults'
      BY <2>2, <3>2, <3>4
    <3> QED BY <3>1, <3>5 DEF S
  <2> QED BY <2>3, <2>4
<1> QED BY <1>9, <1>14, <1>15, <1>16, <1>17, <1>18, <1>20, <1>21, <1>22, <1>23

-----------------------------------------------------------------------------
(* The commits of the poller                                                *)

\* What a commit makes of a row that it does not insert.
Written(i) ==
    /\ row'[i].status = row[i].status /\ row'[i].order = row[i].order
    /\ row'[i].bracket => row[i].bracket
    /\ IF i \in poll.dirty
       THEN row'[i].fill = poll.seen[i].fill /\ row'[i].filled = poll.seen[i].filled
       ELSE row'[i].fill = row[i].fill /\ row'[i].filled = row[i].filled

\* The row of the child that was placed.
Inserted(i) ==
    /\ poll.pc = "record" /\ i = ChildOf(poll.cur, poll.leg)
    /\ row'[i] = NewRow(poll.order)

LEMMA FlushedIs ==
    ASSUME StateTypeOK
    PROVE  /\ Flushed \in [Ids -> RowType]
           /\ \A i \in Ids :
                 /\ Flushed[i].status = row[i].status /\ Flushed[i].order = row[i].order
                 /\ Flushed[i].bracket => row[i].bracket
                 /\ IF i \in poll.dirty
                    THEN Flushed[i].fill = poll.seen[i].fill /\ Flushed[i].filled = poll.seen[i].filled
                    ELSE Flushed[i].fill = row[i].fill /\ Flushed[i].filled = row[i].filled
<1>1. ASSUME NEW i \in Ids
      PROVE  /\ Flushed[i] \in RowType
             /\ Flushed[i].status = row[i].status /\ Flushed[i].order = row[i].order
             /\ Flushed[i].bracket => row[i].bracket
             /\ IF i \in poll.dirty
                THEN Flushed[i].fill = poll.seen[i].fill /\ Flushed[i].filled = poll.seen[i].filled
                ELSE Flushed[i].fill = row[i].fill /\ Flushed[i].filled = row[i].filled
  <2> DEFINE f == IF i \in poll.dirty THEN poll.seen[i].fill ELSE row[i].fill
             n == IF i \in poll.dirty THEN poll.seen[i].filled ELSE row[i].filled
             b == row[i].bracket /\ i \notin poll.drop
             v == [row[i] EXCEPT !.fill = f, !.filled = n, !.bracket = b]
  <2>1. row[i] \in RowType /\ poll.seen[i] \in SeenType  BY DEF StateTypeOK, PollType
  <2>2. f \in FillStates /\ n \in 0 .. Quantity /\ b \in BOOLEAN
    BY <2>1 DEF RowType, SeenType
  <2>3. Flushed[i] = v  BY <2>1 DEF Flushed, RowType
  <2>4. b => row[i].bracket  OBVIOUS
  <2> HIDE DEF f, n, b
  <2>5. /\ v \in RowType /\ v.status = row[i].status /\ v.order = row[i].order
        /\ v.fill = f /\ v.filled = n /\ v.bracket = b
    BY <2>1, <2>2 DEF RowType
  <2> HIDE DEF v
  <2>6. /\ Flushed[i] \in RowType /\ Flushed[i].status = row[i].status /\ Flushed[i].order = row[i].order
        /\ Flushed[i].bracket => row[i].bracket
    BY <2>3, <2>4, <2>5
  <2>7. Flushed[i].fill = f /\ Flushed[i].filled = n  BY <2>3, <2>5
  <2>8. CASE i \in poll.dirty  BY <2>6, <2>7, <2>8 DEF f, n
  <2>9. CASE i \notin poll.dirty  BY <2>6, <2>7, <2>9 DEF f, n
  <2> QED BY <2>8, <2>9
<1>2. Flushed = [i \in Ids |-> Flushed[i]]  BY DEF Flushed
<1> QED BY <1>1, <1>2

\* Every commit of the poller keeps the invariant.
LEMMA CommitStep ==
    ASSUME DistInv, UNCHANGED <<book, orders, published, req, faults>>,
           row' \in [Ids -> RowType], poll' \in PollType,
           \A i \in Ids : Written(i) \/ Inserted(i),
           poll.pc = "record" => Inserted(ChildOf(poll.cur, poll.leg)),
           poll'.dirty = {}, poll'.todo \subseteq poll.todo,
           \A i \in Ids : poll'.seen[i].bracket => poll.seen[i].bracket,
           OrderbookOK', PlacingOK', poll'.pc # "record",
           \A s \in Signals : \A leg \in ChildLegs : Fresh(s, leg)' => Fresh(s, leg)
    PROVE  DistInv'
<1> USE DEF DistInv
<1>1. StateTypeOK'  BY DEF StateTypeOK
<1>2. poll \in PollType /\ poll.cur \in Ids /\ poll.leg \in ChildLegs /\ poll.order \in 0 .. MaxOrders
  BY DEF StateTypeOK, PollType, ChildLegs
<1> DEFINE c == ChildOf(poll.cur, poll.leg)
<1>3. c \in Ids /\ c[1] = poll.cur[1] /\ c[2] = poll.leg
  BY <1>2, ChildIs DEF ChildLegs, Legs
\* the inserted row was absent and names the order that was placed
<1>4. ASSUME NEW i \in Ids, Inserted(i)
      PROVE  /\ row[i].status = "absent" /\ row[i].order = Failed /\ row[i].fill = "unseen"
             /\ row'[i].status # "absent" /\ row'[i].order = poll.order
             /\ row'[i].fill = "unseen" /\ ~row'[i].bracket
  <2>1. row[i].status = "absent"  BY <1>4 DEF Inserted, PlacingOK
  <2>2. row[i] = NoRow  BY <2>1 DEF LogOK, RowOK
  <2>3. row[i].order = Failed /\ row[i].fill = "unseen"  BY <2>2 DEF NoRow
  <2> DEFINE v == NewRow(poll.order)
  <2>4. v = [status |-> IF poll.order = Failed THEN "failed" ELSE "placed", order |-> poll.order,
             fill |-> "unseen", filled |-> 0, bracket |-> FALSE]
    BY <1>2, RecordTypes
  <2>5. v.status # "absent" /\ v.order = poll.order /\ v.fill = "unseen" /\ ~v.bracket  BY <2>4
  <2> HIDE DEF v
  <2>6. row'[i] = v  BY <1>4 DEF Inserted, v
  <2> QED BY <2>1, <2>3, <2>5, <2>6
<1>5. ASSUME NEW i \in Ids, row[i].order # Failed PROVE Written(i)  BY <1>4, <1>5
<1>6. LogGains
  <2> SUFFICES ASSUME NEW i \in Ids
               PROVE /\ row[i].order # Failed => row'[i].order = row[i].order
                     /\ row[i].status # "absent" => row'[i].status # "absent"
    BY DEF LogGains
  <2>1. CASE Written(i)  BY <2>1 DEF Written
  <2>2. CASE Inserted(i)  BY <1>4, <2>2
  <2> QED BY <2>1, <2>2
<1>7. faults <= faults' /\ orders <= orders'  BY DEF StateTypeOK
<1>8. Gains  BY <1>6, <1>7 DEF Gains, BookGains
<1>9. ASSUME NEW i \in Ids, row[i].fill \in Terminal PROVE row'[i].fill = row[i].fill /\ row'[i].filled = row[i].filled
  <2>1. i \notin poll.dirty  BY <1>9 DEF SessionOK
  <2>2. ~Inserted(i)  BY <1>4, <1>9 DEF Terminal
  <2> QED BY <2>1, <2>2 DEF Written
<1>10. FillsOK'
  <2> SUFFICES ASSUME NEW i \in Ids
               PROVE /\ row'[i].fill \in Terminal =>
                        /\ row'[i].order # Failed
                        /\ book'[row'[i].order].state = row'[i].fill
                        /\ book'[row'[i].order].filled = row'[i].filled
                     /\ published'[i] \in Terminal =>
                         row'[i].order # Failed /\ book'[row'[i].order].state = published'[i]
    BY DEF FillsOK
  <2>1. CASE Written(i)
    <3>1. row'[i].order = row[i].order  BY <2>1 DEF Written
    <3>2. CASE i \in poll.dirty
      <4>1. row'[i].fill = poll.seen[i].fill /\ row'[i].filled = poll.seen[i].filled
        BY <2>1, <3>2 DEF Written
      <4> QED BY <3>1, <3>2, <4>1 DEF SessionOK, FillsOK
    <3>3. CASE i \notin poll.dirty
      <4>1. row'[i].fill = row[i].fill /\ row'[i].filled = row[i].filled  BY <2>1, <3>3 DEF Written
      <4> QED BY <3>1, <4>1 DEF FillsOK
    <3> QED BY <3>2, <3>3
  <2>2. CASE Inserted(i)
    <3>1. row'[i].fill \notin Terminal  BY <1>4, <2>2 DEF Terminal
    <3>2. row[i].order = Failed /\ published[i] \notin Terminal  BY <1>4, <2>2 DEF FillsOK
    <3> QED BY <3>1, <3>2
  <2> QED BY <2>1, <2>2
\* the entry of the inserted child is final in the log by the same commit
<1>11. poll.pc = "record" => poll.cur = Entry(c[1]) /\ row'[Entry(c[1])].fill \in Terminal
  <2> SUFFICES ASSUME poll.pc = "record"
               PROVE  poll.cur = Entry(c[1]) /\ row'[Entry(c[1])].fill \in Terminal
    OBVIOUS
  <2>1. /\ poll.cur[2] = "entry" /\ row[poll.cur].order # Failed
        /\ IF poll.leg = "sl" THEN poll.cur \in poll.dirty /\ poll.seen[poll.cur].fill = "complete"
           ELSE row[poll.cur].fill \in Terminal
    BY DEF PlacingOK
  <2>2. poll.cur = Entry(c[1])  BY <1>2, <1>3, <2>1, ConstantTypes DEF Entry
  <2>3. CASE poll.leg = "sl"
    <3>1. row'[poll.cur].fill = "complete"  BY <1>2, <1>5, <2>1, <2>3 DEF Written
    <3> QED BY <2>2, <3>1 DEF Terminal
  <2>4. CASE poll.leg # "sl"  BY <1>2, <1>9, <2>1, <2>2, <2>4
  <2> QED BY <2>2, <2>3, <2>4
<1>12. LogOK'
  <2> SUFFICES ASSUME NEW i \in Ids PROVE RowOK(i)'  BY DEF LogOK
  <2>1. Entry(i[1]) \in Ids  BY ConstantTypes
  <2>2. row[Entry(i[1])].fill \in Terminal => row'[Entry(i[1])].fill \in Terminal  BY <1>9, <2>1
  <2>3. CASE Written(i)
    <3>1. RowOK(i)  BY DEF LogOK
    <3>2. row'[i].status = "absent" => row'[i] = NoRow
      <4> SUFFICES ASSUME row[i].status = "absent", row'[i].status = "absent" PROVE row'[i] = NoRow
        BY <2>3 DEF Written
      <4>1. row[i] = NoRow  BY <3>1 DEF RowOK
      <4>2. row[i].order = Failed /\ ~row[i].bracket /\ row[i].fill = "unseen" /\ row[i].filled = 0
        BY <4>1 DEF NoRow
      <4>3. i \notin poll.dirty  BY <4>2 DEF SessionOK
      <4>4. row'[i].order = Failed /\ ~row'[i].bracket /\ row'[i].fill = "unseen" /\ row'[i].filled = 0
        BY <2>3, <4>2, <4>3 DEF Written
      <4>5. row'[i] \in RowType  OBVIOUS
      <4>6. row'[i].bracket = FALSE  BY <4>4, <4>5 DEF RowType
      <4> QED BY <4>4, <4>5, <4>6 DEF NoRow, RowType
    <3> QED BY <2>2, <2>3, <3>1, <3>2 DEF RowOK, Written
  <2>4. CASE Inserted(i)
    <3>1. i = c /\ poll.pc = "record"  BY <2>4 DEF Inserted
    <3>2. poll.order # Failed => poll.order <= orders /\ book[poll.order].id = i
      BY <3>1 DEF PlacingOK
    <3>3. row'[Entry(i[1])].fill \in Terminal  BY <1>11, <3>1
    <3> QED BY <1>4, <2>4, <3>2, <3>3 DEF RowOK
  <2> QED BY <2>3, <2>4
<1>13. SessionOK'
  <2>1. ASSUME NEW i \in poll'.todo PROVE row'[i].order # Failed /\ row'[i].fill \notin Terminal
    <3>1. i \in poll.todo /\ i \in Ids  BY DEF PollType
    <3>2. row[i].order # Failed /\ row[i].fill \notin Terminal  BY <3>1 DEF SessionOK
    <3>3. i \notin poll.dirty  BY <3>1 DEF SessionOK
    <3>4. Written(i)  BY <1>5, <3>1, <3>2
    <3> QED BY <3>2, <3>3, <3>4 DEF Written
  <2>2. \A i \in Ids : poll'.seen[i].bracket => i[2] = "entry"  BY DEF SessionOK
  <2> QED BY <2>1, <2>2 DEF SessionOK
<1>14. \A r \in Requests : ReqOK(r)'  BY <1>1, <1>8, ThreadKeeps
<1>15. ChildrenFollowTheFill'
  <2> SUFFICES ASSUME NEW o \in 1 .. orders, book[o].id[2] \in ChildLegs
               PROVE  LET m == row'[Entry(book[o].id[1])].order
                      IN m # Failed /\ book[m].state = "complete"
    BY DEF ChildrenFollowTheFill, ChildLegs
  <2> DEFINE e == Entry(book[o].id[1])
  <2>1. book[o].id \in Ids  BY DEF StateTypeOK, OrderType, OrderIds
  <2>2. e \in Ids  BY <2>1, ConstantTypes
  <2>3. row[e].order # Failed /\ book[row[e].order].state = "complete"
    BY DEF ChildrenFollowTheFill, ChildLegs
  <2> QED BY <1>6, <2>2, <2>3 DEF LogGains
<1>16. \A o \in OrderIds : ~(orders < o /\ o <= orders')  BY DEF OrderIds, StateTypeOK
<1>17. OrdersAreLogged'
  <2> SUFFICES ASSUME NEW o \in OrderIds, o <= orders, InFlight(o)
               PROVE  InFlight(o)' \/ row'[book[o].id].status # "absent"
    BY <1>1, <1>8, <1>16, LoggedStays
  <2>1. CASE poll.pc = "record" /\ poll.order = o
    <3>1. book[o].id = c  BY <2>1 DEF PlacingOK, OrderIds
    <3>2. Inserted(c)  BY <2>1
    <3> QED BY <1>3, <1>4, <3>1, <3>2
  <2>2. CASE ~(poll.pc = "record" /\ poll.order = o)  BY <2>2 DEF InFlight
  <2> QED BY <2>1, <2>2
<1>18. ChildrenCounted'  BY <1>1, <1>8, <1>16, CountStays
<1> QED BY <1>1, <1>10, <1>12, <1>13, <1>14, <1>15, <1>17, <1>18

LEMMA PollCommitStep ==
    ASSUME DistInv, PollCommit
    PROVE  DistInv'
<1> USE DEF DistInv
<1>1. /\ poll.pc = "compare" /\ row' = Flushed /\ poll' = Asleep
      /\ UNCHANGED <<book, orders, published, req, faults>>
  BY DEF PollCommit, CycleEnds
<1>2. row' \in [Ids -> RowType] /\ \A i \in Ids : Written(i)  BY <1>1, FlushedIs DEF Written
<1>3. /\ poll' \in PollType /\ poll'.pc = "idle" /\ poll'.dirty = {} /\ poll'.todo = {}
      /\ \A i \in Ids : poll'.seen[i].bracket => poll.seen[i].bracket
  BY <1>1, AsleepIs DEF NoView
<1>4. OrderbookOK' /\ PlacingOK'  BY <1>1, AsleepOK
<1>5. ASSUME NEW i \in Ids, row[i].fill \in Terminal PROVE row'[i].fill \in Terminal
  BY <1>2, <1>5 DEF Written, SessionOK
<1>6. ASSUME NEW s \in Signals, NEW leg \in ChildLegs, Fresh(s, leg)' PROVE Fresh(s, leg)
  <2>1. Entry(s) \in Ids  BY ConstantTypes
  <2>2. row'[Entry(s)].fill \notin Terminal  BY <1>3, <1>6 DEF Fresh, Entry
  <2> QED BY <1>1, <1>5, <2>1, <2>2 DEF Fresh
<1> QED BY <1>1, <1>2, <1>3, <1>4, <1>6, CommitStep

LEMMA ClearPlacedStep ==
    ASSUME DistInv, ClearPlaced
    PROVE  DistInv'
<1> USE DEF DistInv
<1>1. poll.pc = "clear" /\ UNCHANGED <<book, orders, published, req, faults>> /\ poll \in PollType
      /\ "compare" \in PollPc
  BY DEF ClearPlaced, StateTypeOK, PollPc
<1>2. CASE Shown(poll.cur).bracket
  <2> DEFINE i == poll.cur
             v == [Flushed[i] EXCEPT !.bracket = FALSE]
  <2>1. row' = [Flushed EXCEPT ![i] = v] /\ poll' = Expired("compare")  BY <1>2 DEF ClearPlaced
  <2>2. i \in Ids /\ Flushed \in [Ids -> RowType] /\ Flushed[i] \in RowType
    BY <1>1, FlushedIs DEF PollType
  <2>3. /\ v \in RowType /\ ~v.bracket /\ v.status = Flushed[i].status /\ v.order = Flushed[i].order
        /\ v.fill = Flushed[i].fill /\ v.filled = Flushed[i].filled
    BY <2>2 DEF RowType
  <2> HIDE DEF v
  <2>4. row' \in [Ids -> RowType] /\ row'[i] = v /\ \A j \in Ids \ {i} : row'[j] = Flushed[j]
    BY <2>1, <2>2, <2>3
  <2>5. ASSUME NEW j \in Ids PROVE Written(j)
    <3>1. CASE j = i  BY <2>2, <2>3, <2>4, <3>1, FlushedIs DEF Written
    <3>2. CASE j # i  BY <2>4, <3>2, FlushedIs DEF Written
    <3> QED BY <3>1, <3>2
  <2>6. /\ poll' \in PollType /\ poll'.pc = "compare" /\ poll'.dirty = {} /\ poll'.todo = poll.todo
        /\ poll'.seen = poll.seen /\ poll'.ob = poll.ob
    BY <1>1, <2>1, ExpiredIs
  <2>7. OrderbookOK'  BY <1>1, <2>6 DEF OrderbookOK
  <2>8. PlacingOK'  BY <2>6 DEF PlacingOK
  <2>9. ASSUME NEW j \in Ids, row[j].fill \in Terminal PROVE row'[j].fill \in Terminal
    BY <2>5, <2>9 DEF Written, SessionOK
  <2>10. ASSUME NEW s \in Signals, NEW leg \in ChildLegs, Fresh(s, leg)' PROVE Fresh(s, leg)
    <3>1. Entry(s) \in Ids  BY ConstantTypes
    <3>2. row'[Entry(s)].fill \notin Terminal  BY <2>6, <2>10 DEF Fresh, Entry
    <3> QED BY <1>1, <2>9, <3>1, <3>2 DEF Fresh
  <2> QED BY <1>1, <2>4, <2>5, <2>6, <2>7, <2>8, <2>10, CommitStep
<1>3. CASE ~Shown(poll.cur).bracket
  <2>1. poll' = [poll EXCEPT !.pc = "compare"] /\ UNCHANGED row  BY <1>3 DEF ClearPlaced
  <2>2. /\ poll' \in PollType /\ poll'.pc = "compare" /\ poll'.dirty = poll.dirty /\ poll'.todo = poll.todo
        /\ poll'.seen = poll.seen /\ poll'.ob = poll.ob
    BY <1>1, <2>1 DEF PollType
  <2>3. SessionOK'  BY <1>1, <2>1, <2>2 DEF SessionOK
  <2>4. OrderbookOK'  BY <1>1, <2>2 DEF OrderbookOK
  <2>5. PlacingOK'  BY <2>2 DEF PlacingOK
  <2>6. FillsOK' /\ published' \in [Ids -> FillStates] /\ req' \in [Requests -> ReqType]
    BY <1>1, <2>1 DEF FillsOK, StateTypeOK
  <2> QED BY <1>1, <2>1, <2>2, <2>3, <2>4, <2>5, <2>6, QuietStep
<1> QED BY <1>2, <1>3

LEMMA RecordChildStep ==
    ASSUME DistInv, RecordChild
    PROVE  DistInv'
<1> USE DEF DistInv
<1> DEFINE i == poll.cur
           c == ChildOf(poll.cur, poll.leg)
           v == NewRow(poll.order)
\* the row of the child cannot be there already
<1>1. /\ poll.pc = "record" /\ poll \in PollType /\ i \in Ids /\ poll.leg \in ChildLegs
      /\ poll.order \in 0 .. MaxOrders
      /\ i[2] = "entry" /\ row[i].order # Failed /\ book[row[i].order].state = "complete"
      /\ row[c].status = "absent"
      /\ IF poll.leg = "sl" THEN i \in poll.dirty /\ poll.seen[i].fill = "complete"
         ELSE row[i].fill \in Terminal
  BY DEF RecordChild, PlacingOK, StateTypeOK, PollType, ChildLegs
<1>2. /\ UNCHANGED <<book, orders, published, req, faults>>
      /\ row' = [Flushed EXCEPT ![c] = v]
      /\ \/ poll.leg = "sl" /\ poll' = [Expired("place") EXCEPT !.leg = "tp"]
         \/ poll' = Expired("clear")
  BY <1>1 DEF RecordChild
<1>3. c \in Ids /\ c[1] = i[1] /\ c[2] = poll.leg  BY <1>1, ChildIs DEF ChildLegs, Legs
<1>4. v \in RowType  BY <1>1, RecordTypes
<1>5. i = Entry(i[1])  BY <1>1, ConstantTypes DEF Entry
<1> HIDE DEF c, v
<1>6. row' \in [Ids -> RowType] /\ row'[c] = v /\ \A j \in Ids \ {c} : row'[j] = Flushed[j]
  BY <1>2, <1>3, <1>4, FlushedIs
<1>7. Inserted(c)  BY <1>1, <1>6 DEF Inserted, c, v
<1>8. ASSUME NEW j \in Ids, j # c PROVE Written(j)  BY <1>6, <1>8, FlushedIs DEF Written
<1>9. i # c  BY <1>1, <1>3 DEF ChildLegs
<1>10. row'[i].fill \in Terminal /\ row'[i].order = row[i].order
  <2>1. Written(i)  BY <1>1, <1>8, <1>9
  <2>2. CASE poll.leg = "sl"
    <3>1. row'[i].fill = "complete"  BY <1>1, <2>1, <2>2 DEF Written
    <3> QED BY <2>1, <3>1 DEF Terminal, Written
  <2>3. CASE poll.leg # "sl"
    <3>1. i \notin poll.dirty  BY <1>1, <2>3 DEF SessionOK
    <3> QED BY <1>1, <2>1, <2>3, <3>1 DEF Written
  <2> QED BY <2>2, <2>3
<1>11. ASSUME NEW j \in Ids, row[j].fill \in Terminal PROVE row'[j].fill \in Terminal
  <2>1. j # c
    <3>1. row[c] = NoRow  BY <1>1, <1>3 DEF c, LogOK, RowOK
    <3>2. row[c].fill = "unseen"  BY <3>1 DEF NoRow
    <3> QED BY <1>11, <3>2 DEF Terminal
  <2> QED BY <1>8, <1>11, <2>1 DEF Written, SessionOK
<1>12. /\ poll' \in PollType /\ poll'.dirty = {} /\ poll'.todo = poll.todo
       /\ poll'.seen = poll.seen /\ poll'.ob = poll.ob /\ poll'.cur = i
       /\ (poll.leg = "sl" /\ poll'.pc = "place" /\ poll'.leg = "tp") \/ poll'.pc = "clear"
  <2>1. CASE poll.leg = "sl" /\ poll' = [Expired("place") EXCEPT !.leg = "tp"]
    <3> DEFINE e == Expired("place")
    <3>1. /\ e \in PollType /\ e.pc = "place" /\ e.dirty = {}
          /\ e.todo = poll.todo /\ e.seen = poll.seen /\ e.ob = poll.ob /\ e.cur = i
      BY <1>1, ExpiredIs DEF PollPc
    <3>2. poll' = [e EXCEPT !.leg = "tp"]  BY <2>1
    <3> HIDE DEF e
    <3>3. /\ poll' \in PollType /\ poll'.pc = e.pc /\ poll'.dirty = e.dirty /\ poll'.todo = e.todo
          /\ poll'.seen = e.seen /\ poll'.ob = e.ob /\ poll'.cur = e.cur /\ poll'.leg = "tp"
      BY <3>1, <3>2 DEF PollType
    <3> QED BY <2>1, <3>1, <3>3
  <2>2. CASE poll' = Expired("clear")  BY <1>1, <2>2, ExpiredIs DEF PollPc
  <2> QED BY <1>2, <2>1, <2>2
<1>13. OrderbookOK'  BY <1>2, <1>12 DEF OrderbookOK
<1>14. PlacingOK'
  <2>1. ASSUME poll.leg = "sl", poll'.pc = "place", poll'.leg = "tp"
        PROVE row'[ChildOf(i, "tp")].status = "absent"
    <3>1. /\ ChildOf(i, "tp") \in Ids /\ ChildOf(i, "tp")[1] = i[1] /\ ChildOf(i, "tp")[2] = "tp"
      BY <1>1, ChildIs DEF Legs
    <3>2. row[i].fill \notin Terminal  BY <1>1, <2>1 DEF SessionOK
    <3>3. row[ChildOf(i, "tp")].status = "absent"  BY <1>5, <3>1, <3>2 DEF LogOK, RowOK, ChildLegs
    <3>4. ChildOf(i, "tp") # c  BY <1>3, <2>1, <3>1
    <3> QED BY <1>8, <3>1, <3>3, <3>4 DEF Written
  <2> QED BY <1>1, <1>2, <1>10, <1>12, <2>1 DEF PlacingOK
<1>15. ASSUME NEW s \in Signals, NEW leg \in ChildLegs, Fresh(s, leg)' PROVE Fresh(s, leg)
  <2>1. Entry(s) \in Ids  BY ConstantTypes
  <2>2. CASE poll'.pc = "place" /\ poll'.cur = Entry(s) /\ poll'.leg = leg
    <3>1. poll.leg = "sl" /\ leg = "tp" /\ i = Entry(s)  BY <1>12, <2>2
    <3>2. row[i].fill \notin Terminal  BY <1>1, <3>1 DEF SessionOK
    <3> QED BY <3>1, <3>2 DEF Fresh
  <2>3. CASE row'[Entry(s)].fill \notin Terminal
    <3>1. row[Entry(s)].fill \notin Terminal  BY <1>11, <2>1, <2>3
    <3>2. Entry(s) # i  BY <1>10, <2>3
    <3> QED BY <3>1, <3>2 DEF Fresh
  <2> QED BY <1>15, <2>2, <2>3 DEF Fresh, Entry
<1>16. poll'.pc # "record" /\ \A j \in Ids : poll'.seen[j].bracket => poll.seen[j].bracket  BY <1>12
<1>17. \A j \in Ids : Written(j) \/ Inserted(j)  BY <1>7, <1>8
<1> QED BY <1>2, <1>6, <1>7, <1>12, <1>13, <1>14, <1>15, <1>16, <1>17, CommitStep DEF c

-----------------------------------------------------------------------------
(* The theorems                                                             *)

\* The invariant holds of the empty log.
LEMMA InitInv == Init => DistInv
<1> SUFFICES ASSUME Init PROVE DistInv
  OBVIOUS
<1>1. StateTypeOK  BY InitType
<1>2. /\ orders = 0 /\ faults = 0 /\ poll = Asleep
      /\ \A i \in Ids : row[i] = NoRow /\ published[i] = "unseen"
      /\ \A r \in Requests : req[r] = Ready
  BY DEF Init
<1>3. 1 .. orders = {}  BY <1>2
<1>4. LogOK  BY <1>2 DEF LogOK, RowOK, NoRow
<1>5. \A r \in Requests : ReqOK(r)
  BY <1>2 DEF ReqOK, Ready, Receiving, Withdrawing
<1>6. SessionOK  BY <1>2, AsleepIs DEF SessionOK, NoView
<1>7. OrderbookOK  BY <1>2, AsleepIs DEF OrderbookOK, Terminal
<1>8. PlacingOK  BY <1>2, AsleepIs DEF PlacingOK
<1>9. FillsOK  BY <1>2 DEF FillsOK, NoRow, Terminal
<1>10. ChildrenFollowTheFill /\ OrdersAreLogged
  BY <1>3 DEF ChildrenFollowTheFill, OrdersAreLogged
<1>11. ChildrenCounted
  <2>1. \A i : OrdersOf(i) = {}  BY <1>3 DEF OrdersOf
  <2>2. \A i : Cardinality(OrdersOf(i)) = 0  BY <2>1, FS_EmptySet
  <2> QED BY <1>2, <2>2 DEF ChildrenCounted
<1> QED BY <1>1, <1>4, <1>5, <1>6, <1>7, <1>8, <1>9, <1>10, <1>11 DEF DistInv

\* The invariant does not look at the clock.
LEMMA StutterKeeps ==
    ASSUME DistInv, UNCHANGED <<row, book, orders, published, req, poll, faults>>
    PROVE  DistInv'
<1>1. /\ row' = row /\ book' = book /\ orders' = orders /\ published' = published
      /\ req' = req /\ poll' = poll /\ faults' = faults
  OBVIOUS
<1>2. StateTypeOK' /\ LogOK' /\ (\A r \in Requests : ReqOK(r)')
  BY <1>1 DEF DistInv, StateTypeOK, LogOK, RowOK, ReqOK, Holds, Child, CascadeLeg
<1>3. SessionOK' /\ OrderbookOK' /\ PlacingOK' /\ FillsOK'
  BY <1>1 DEF DistInv, SessionOK, OrderbookOK, PlacingOK, FillsOK
<1>4. ChildrenFollowTheFill' /\ OrdersAreLogged'
  BY <1>1 DEF DistInv, ChildrenFollowTheFill, OrdersAreLogged, InFlight
<1>5. ChildrenCounted'
  <2>1. StateTypeOK' /\ Gains /\ ~(\E o \in OrderIds : orders < o /\ o <= orders')
    BY <1>1, <1>2 DEF DistInv, StateTypeOK, Gains, LogGains, BookGains, OrderIds
  <2>2. \A s \in Signals : \A leg \in ChildLegs : Fresh(s, leg)' => Fresh(s, leg)
    BY <1>1 DEF Fresh
  <2> QED BY <2>1, <2>2, CountStays DEF DistInv
<1> QED BY <1>2, <1>3, <1>4, <1>5 DEF DistInv

\* Every step keeps the invariant.
LEMMA StepKeeps ==
    ASSUME DistInv, [Next]_vars
    PROVE  DistInv'
<1>1. ASSUME NEW r \in Requests, Webhook(r) PROVE DistInv'
  BY <1>1, WebhookStep, ThreadStepKeeps
<1>2. ASSUME Poller PROVE DistInv'
  BY <1>2, PollStartStep, FetchOrderbookStep, OrderbookFailsStep, CompareStep, PlaceChildStep,
     RecordChildStep, ClearPlacedStep, PollCommitStep, PollCommitFailsStep DEF Poller, Cycle
<1>3. ASSUME NEW o \in OrderIds, BrokerFills(o) \/ BrokerEnds(o) PROVE DistInv'
  BY <1>3, BrokerActs
<1>4. CASE Restart  BY <1>4, RestartStep
<1>5. CASE Clock  BY <1>5, StutterKeeps DEF Clock, MarketOpens, MarketCloses, GrowsOld
<1>6. CASE UNCHANGED vars  BY <1>6, StutterKeeps DEF vars
<1> QED BY <1>1, <1>2, <1>3, <1>4, <1>5, <1>6 DEF Next

\* The types of the clock, which the rest of the invariant does not need.
LEMMA ClockSteps ==
    ASSUME ClockTypeOK, [Next]_vars
    PROVE  ClockTypeOK'
<1>1. CASE UNCHANGED clock  BY <1>1 DEF ClockTypeOK, clock
<1>2. CASE Clock  BY <1>2 DEF ClockTypeOK, Clock, MarketOpens, MarketCloses, GrowsOld
<1>3. ASSUME NEW r \in Requests, Webhook(r) PROVE UNCHANGED clock
  BY <1>3 DEF Webhook, Receive, Cancel, Exit, Lookup, PlaceEntry, RecordEntry, AttachBracket, CallCancel,
     Recheck, ReadStatus, ReadPosition, PlaceClose, RecordClose, MarkCancelled, ClearBracket, Cascade,
     CancelChild, MarkChild, CommitFails
<1>4. ASSUME Poller PROVE UNCHANGED clock
  BY <1>4 DEF Poller, Cycle, PollStart, FetchOrderbook, Fetch, OrderbookFails, Compare, PlaceChild,
     RecordChild, ClearPlaced, PollCommit, PollCommitFails
<1>5. ASSUME NEW o \in OrderIds, BrokerFills(o) \/ BrokerEnds(o) PROVE UNCHANGED clock
  BY <1>5 DEF BrokerFills, BrokerEnds
<1>6. CASE Restart \/ UNCHANGED vars  BY <1>1, <1>6 DEF Restart, vars, clock
<1> QED BY <1>1, <1>2, <1>3, <1>4, <1>5, <1>6 DEF Next

\* In every behaviour the invariant holds: what log, threads, session and
\* broker say of each other is never contradicted.
THEOREM DistributionInvariant == Spec => []DistInv
<1>1. Init => DistInv  BY InitInv
<1>2. DistInv /\ [Next]_vars => DistInv'  BY StepKeeps
<1> QED BY <1>1, <1>2, PTL DEF Spec

\* Every row, order, thread and session of every behaviour has its type: in
\* particular no order is filled beyond its size's bound and no thread leaves
\* the states of its handler.
THEOREM DistributionType == Spec => []TypeOK
<1>1. Init => ClockTypeOK  BY DEF Init, ClockTypeOK
<1>2. ClockTypeOK /\ [Next]_vars => ClockTypeOK'  BY ClockSteps
<1>3. Spec => []ClockTypeOK  BY <1>1, <1>2, PTL DEF Spec
<1>4. DistInv /\ ClockTypeOK => TypeOK  BY DEF DistInv, TypeOK
<1> QED BY <1>3, <1>4, DistributionInvariant, PTL

\* A post of a signal answered with success left its own order in the log,
\* whatever other posts of it did meanwhile.
THEOREM SuccessIsTracked == Spec => []SuccessMeansTracked
<1>1. DistInv => SuccessMeansTracked
  <2> SUFFICES ASSUME DistInv, NEW r \in Requests,
                      req[r].pc = "done", req[r].op = "receive", req[r].out = "success"
               PROVE  /\ row[Entry(req[r].s)].order = req[r].order
                      /\ book[req[r].order].id = Entry(req[r].s)
    BY DEF SuccessMeansTracked
  <2>1. req[r].order # Failed /\ row[Entry(req[r].s)].order = req[r].order
    BY DEF DistInv, ReqOK
  <2>2. Entry(req[r].s) \in Ids  BY ConstantTypes DEF DistInv, StateTypeOK, ReqType
  <2> QED BY <2>1, <2>2 DEF DistInv, LogOK, RowOK
<1> QED BY <1>1, DistributionInvariant, PTL

\* A stop or a target only ever protects an entry that filled completely.
THEOREM ChildrenProtectAPosition == Spec => []ChildrenFollowTheFill
<1>1. DistInv => ChildrenFollowTheFill  BY DEF DistInv
<1> QED BY <1>1, DistributionInvariant, PTL

\* The stops (and the targets) of one signal at the broker are at most one
\* more than the faults so far.
THEOREM AFaultPerExtraChild == Spec => []OneChildUnlessAFault
<1>1. DistInv => OneChildUnlessAFault
  <2> SUFFICES ASSUME DistInv, NEW s \in Signals, NEW leg \in ChildLegs
               PROVE  Cardinality(OrdersOf(<<s, leg>>)) <= 1 + faults
    BY DEF OneChildUnlessAFault, OrdersOf, ChildLegs
  <2> DEFINE n == Cardinality(OrdersOf(<<s, leg>>))
  <2>1. n \in Nat /\ faults \in Nat  BY OrdersFinite DEF DistInv, StateTypeOK
  <2>2. n <= IF Fresh(s, leg) THEN faults ELSE 1 + faults
    BY DEF DistInv, ChildrenCounted
  <2> HIDE DEF n
  <2>3. n <= 1 + faults  BY <2>1, <2>2
  <2> QED BY <2>3 DEF n
<1> QED BY <1>1, DistributionInvariant, PTL

\* A final fill in the log, or at the publisher, is the one the broker has.
THEOREM FinalFillIsFinal == Spec => []FinalFillIsTheBrokers
<1>1. DistInv => FinalFillIsTheBrokers
  BY DEF DistInv, FillsOK, FinalFillIsTheBrokers
<1> QED BY <1>1, DistributionInvariant, PTL

\* As long as nothing has failed the log knows every order, or the thread
\* that is about to record it does.
THEOREM NoOrderIsForgotten == Spec => []OrdersAreLogged
<1>1. DistInv => OrdersAreLogged  BY DEF DistInv
<1> QED BY <1>1, DistributionInvariant, PTL
===============================================================================
