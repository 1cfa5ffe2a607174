------------------------------ MODULE OrderRace ------------------------------
(***************************************************************************)
(* Who may touch an order at the same time.  The calls SandboxLedger takes *)
(* as one step are broken here at the reads and commits of the database    *)
(* session of the thread that makes them (src/sandbox/order_manager.py,    *)
(* execution_engine.py, websocket_execution_engine.py):                    *)
(*                                                                         *)
(*   - the request thread that places order o, which may also trade it,    *)
(*   - the polling engine, which works through a snapshot of open orders,  *)
(*   - the WebSocket engine, called back on a tick,                        *)
(*   - request threads that cancel or modify an order.                     *)
(*                                                                         *)
(* A commit updates the columns its session has changed, whatever the row  *)
(* has become since it was read.  All orders buy the same instrument, so   *)
(* they meet in one position row; prices and margins are left out.         *)
(*                                                                         *)
(* An operator named Faulty... is no part of the model: it is the next     *)
(* definition with a plausible bug, which the properties must detect.      *)
(***************************************************************************)
EXTENDS Integers, FiniteSets

CONSTANTS Orders,       \* orders that may be placed; also names the placing thread
          Quantities,   \* quantities an order may have
          Engines,      \* the engines that run, of "poll" and "tick"
          Immediate,    \* whether placing threads trade their orders themselves
          Edits,        \* what users do to open orders, of "cancel" and "modify"
          Reached,      \* orders whose price conditions every quote meets
          Faults,       \* whether a commit may fail (a locked database, for one)
          MaxCrashes    \* bound on process crashes

ASSUME RaceAssumption ==
    /\ Quantities \subseteq Nat \ {0}
    /\ Engines \subseteq {"poll", "tick"}
    /\ Engines \cap Orders = {}
    /\ Edits \subseteq {"cancel", "modify"}
    /\ Reached \subseteq Orders
    /\ Immediate \in BOOLEAN /\ Faults \in BOOLEAN
    /\ MaxCrashes \in Nat

VARIABLES orders,     \* sandbox_orders: status and quantity, by order
          trades,     \* sandbox_trades: number of trades, by order
          traded,     \* sandbox_trades: shares of all trades together
          position,   \* sandbox_positions: quantity, Absent without a row
          worker,     \* what each executing thread does next and has read
          snapshot,   \* what the polling engine has still to work through
          editor,     \* the edit a request thread is about to commit, by order
          crashes

vars == <<orders, trades, traded, position, worker, snapshot, editor, crashes>>

Stages     == {"idle", "placed", "process", "execute", "read", "write", "stuck"}
Workers    == Engines \cup Orders
Absent     == -1
Row        == [status   : {"none", "open", "complete", "cancelled", "rejected"},
               quantity : Quantities \cup {0}]
NoRow      == [status |-> "none", quantity |-> 0]

\* at: the next step of the thread; row: the order as its session holds it;
\* seen: the position quantity it has read.
Free(w) == [at |-> "idle", order |-> w, row |-> NoRow, seen |-> Absent]
Working(at, o, row) == [at |-> at, order |-> o, row |-> row, seen |-> Absent]

\* queue: orders still to process; rows: as they were read; loaded: whether
\* the session still holds those (a commit makes it read them again).
NoSnapshot == [queue |-> {}, rows |-> [o \in Orders |-> NoRow], loaded |-> TRUE]

-----------------------------------------------------------------------------
(* Placement                                                               *)

\* The row is committed as open; the thread leaves it to the engines or goes
\* on to trade it itself.
Place(o) ==
    /\ orders[o].status = "none"
    /\ orders' = [orders EXCEPT ![o].status = "open"]
    /\ \/ UNCHANGED worker
       \/ /\ Immediate
          /\ worker' = [worker EXCEPT ![o].at = "placed"]
    /\ UNCHANGED <<trades, traded, position, snapshot, editor, crashes>>

\* It trades a MARKET order through _process_order, a marketable LIMIT or a
\* triggered stop through _execute_order, which skips the trade check.
ExecuteImmediately(o) ==
    /\ worker[o].at = "placed"
    /\ \E stage \in {"process", "execute"} :
          worker' = [worker EXCEPT ![o] = Working(stage, o, orders[o])]
    /\ UNCHANGED <<orders, trades, traded, position, snapshot, editor, crashes>>

-----------------------------------------------------------------------------
(* Engines                                                                 *)

\* check_and_execute_pending_orders reads the open rows, then fetches quotes.
PollSnapshot ==
    LET open == {o \in Orders : orders[o].status = "open"}
    IN  /\ "poll" \in Engines
        /\ worker["poll"].at = "idle"
        /\ snapshot.queue = {}
        /\ open # {}
        /\ snapshot' = [queue  |-> open,
                        rows   |-> [o \in Orders |-> IF o \in open THEN orders[o] ELSE NoRow],
                        loaded |-> TRUE]
        /\ UNCHANGED <<orders, trades, traded, position, worker, editor, crashes>>

FaultyDequeued(o) == snapshot

Dequeued(o) == IF snapshot.queue = {o} THEN NoSnapshot
               ELSE [snapshot EXCEPT !.queue = @ \ {o}]

\* Next in the snapshot; without a quote the order waits for another cycle.
PollNext(o, quoted) ==
    /\ "poll" \in Engines
    /\ worker["poll"].at = "idle"
    /\ o \in snapshot.queue
    /\ snapshot' = Dequeued(o)
    /\ IF quoted
       THEN worker' = [worker EXCEPT !["poll"] =
                Working("process", o,
                        IF snapshot.loaded THEN snapshot.rows[o] ELSE orders[o])]
       ELSE UNCHANGED worker
    /\ UNCHANGED <<orders, trades, traded, position, editor, crashes>>

\* On a tick each order of the index is read again, and an open one processed.
\* Any open order may be in the index: a starting engine builds it from them.
Tick(o) ==
    /\ "tick" \in Engines
    /\ worker["tick"].at = "idle"
    /\ orders[o].status = "open"
    /\ worker' = [worker EXCEPT !["tick"] = Working("process", o, orders[o])]
    /\ UNCHANGED <<orders, trades, traded, position, snapshot, editor, crashes>>

-----------------------------------------------------------------------------
(* Execution, by any worker                                                *)

\* After a commit of the polling engine's session.
Expire(w) ==
    snapshot' = IF w = "poll" /\ snapshot.queue # {}
                THEN [snapshot EXCEPT !.rows = NoSnapshot.rows, !.loaded = FALSE]
                ELSE snapshot

FaultySkipTraded(w) ==
    /\ worker[w].at = "process"
    /\ trades[worker[w].order] > 0
    /\ worker' = [worker EXCEPT ![w].at = "read"]
    /\ UNCHANGED <<orders, trades, traded, position, snapshot, editor, crashes>>

\* _process_order, the order has a trade: the status the session holds
\* decides whether it is marked complete.  Nobody rolls back a commit of this
\* that fails: the session of the thread serves no other query after it.
SkipTraded(w) ==
    /\ worker[w].at = "process"
    /\ trades[worker[w].order] > 0
    /\ \/ /\ worker[w].row.status = "open"
          /\ orders' = [orders EXCEPT ![worker[w].order].status = "complete"]
          /\ worker' = [worker EXCEPT ![w] = Free(w)]
          /\ Expire(w)
       \/ /\ worker[w].row.status = "open" /\ Faults
          /\ worker' = [worker EXCEPT ![w].at = "stuck"]
          /\ UNCHANGED <<orders, snapshot>>
       \/ /\ worker[w].row.status # "open"
          /\ worker' = [worker EXCEPT ![w] = Free(w)]
          /\ UNCHANGED <<orders, snapshot>>
    /\ UNCHANGED <<trades, traded, position, editor, crashes>>

\* _process_order, no trade yet: the price decides.  A placing thread has
\* already compared it.
Decide(w) ==
    /\ worker[w].at = "process"
    /\ trades[worker[w].order] = 0
    /\ \/ worker' = [worker EXCEPT ![w].at = "execute"]
       \/ /\ w \in Engines
          /\ worker[w].order \notin Reached
          /\ worker' = [worker EXCEPT ![w] = Free(w)]
    /\ UNCHANGED <<orders, trades, traded, position, snapshot, editor, crashes>>

\* _execute_order: the trade and the new status are one commit.
CommitTrade(w) ==
    /\ worker[w].at = "execute"
    /\ trades' = [trades EXCEPT ![worker[w].order] = @ + 1]
    /\ traded' = traded + worker[w].row.quantity
    /\ orders' = [orders EXCEPT ![worker[w].order].status = "complete"]
    /\ worker' = [worker EXCEPT ![w].at = "read"]
    /\ Expire(w)
    /\ UNCHANGED <<position, editor, crashes>>

\* _update_position reads the order again and the position row ...
ReadPosition(w) ==
    /\ worker[w].at = "read"
    /\ worker' = [worker EXCEPT ![w] = [at |-> "write", order |-> @.order,
                                        row |-> orders[@.order], seen |-> position]]
    /\ UNCHANGED <<orders, trades, traded, position, snapshot, editor, crashes>>

\* Two threads that found no row both insert one; the second insert fails.
RowAppeared(w) == worker[w].seen = Absent /\ position # Absent

FaultyWritePosition(w) ==
    /\ worker[w].at = "write"
    /\ ~RowAppeared(w)
    /\ position' = worker[w].row.quantity
    /\ worker' = [worker EXCEPT ![w] = Free(w)]
    /\ Expire(w)
    /\ UNCHANGED <<orders, trades, traded, editor, crashes>>

\* ... and commits the quantity it computed from what it read.
WritePosition(w) ==
    /\ worker[w].at = "write"
    /\ ~RowAppeared(w)
    /\ position' = worker[w].row.quantity
                      + (IF worker[w].seen = Absent THEN 0 ELSE worker[w].seen)
    /\ worker' = [worker EXCEPT ![w] = Free(w)]
    /\ Expire(w)
    /\ UNCHANGED <<orders, trades, traded, editor, crashes>>

FaultyFailNoRollback(w) ==
    /\ worker[w].at \in {"execute", "read", "write"} /\ Faults
    /\ orders' = [orders EXCEPT ![worker[w].order].status = "complete"]
    /\ worker' = [worker EXCEPT ![w] = Free(w)]
    /\ Expire(w)
    /\ UNCHANGED <<trades, traded, position, editor, crashes>>

FaultyFailRetry(w) ==
    /\ worker[w].at \in {"execute", "read", "write"} /\ Faults
    /\ worker' = [worker EXCEPT ![w].at = "execute"]
    /\ UNCHANGED <<orders, trades, traded, position, snapshot, editor, crashes>>

\* An exception in _execute_order, or below it, leaves the order rejected,
\* also after its trade was committed; or as it was, if that commit fails too.
FailExecution(w) ==
    /\ \/ worker[w].at = "write" /\ RowAppeared(w)
       \/ worker[w].at \in {"execute", "read", "write"} /\ Faults
    /\ \/ orders' = [orders EXCEPT ![worker[w].order].status = "rejected"]
       \/ Faults /\ UNCHANGED orders
    /\ worker' = [worker EXCEPT ![w] = Free(w)]
    /\ Expire(w)
    /\ UNCHANGED <<trades, traded, position, editor, crashes>>

-----------------------------------------------------------------------------
(* Editing                                                                 *)

\* cancel_order and modify_order read the row and go on only if it is open.
BeginEdit(o, edit) ==
    /\ edit \in Edits
    /\ editor[o] = "none"
    /\ orders[o].status = "open"
    /\ editor' = [editor EXCEPT ![o] = edit]
    /\ UNCHANGED <<orders, trades, traded, position, worker, snapshot, crashes>>

\* The commit inside release_margin carries the new status.
CommitCancel(o) ==
    /\ editor[o] = "cancel"
    /\ orders' = [orders EXCEPT ![o].status = "cancelled"]
    /\ editor' = [editor EXCEPT ![o] = "none"]
    /\ UNCHANGED <<trades, traded, position, worker, snapshot, crashes>>

CommitModify(o, quantity) ==
    /\ editor[o] = "modify"
    /\ orders' = [orders EXCEPT ![o].quantity = quantity]
    /\ editor' = [editor EXCEPT ![o] = "none"]
    /\ UNCHANGED <<trades, traded, position, worker, snapshot, crashes>>

\* The process dies and starts again: what was committed is all that is left.
Crash ==
    /\ crashes < MaxCrashes
    /\ crashes' = crashes + 1
    /\ worker' = [w \in Workers |-> Free(w)]
    /\ snapshot' = NoSnapshot
    /\ editor' = [o \in Orders |-> "none"]
    /\ UNCHANGED <<orders, trades, traded, position>>

Execute(w) ==
    \/ w \in Orders /\ ExecuteImmediately(w)
    \/ SkipTraded(w)
    \/ Decide(w)
    \/ CommitTrade(w)
    \/ ReadPosition(w)
    \/ WritePosition(w)
    \/ FailExecution(w)

Init ==
    /\ orders \in [Orders -> {[NoRow EXCEPT !.quantity = q] : q \in Quantities}]
    /\ trades = [o \in Orders |-> 0]
    /\ traded = 0
    /\ position = Absent
    /\ worker = [w \in Workers |-> Free(w)]
    /\ snapshot = NoSnapshot
    /\ editor = [o \in Orders |-> "none"]
    /\ crashes = 0

Next ==
    \/ \E o \in Orders : Place(o)
    \/ PollSnapshot
    \/ \E o \in Orders, quoted \in BOOLEAN : PollNext(o, quoted)
    \/ \E o \in Orders : Tick(o)
    \/ \E w \in Workers : Execute(w)
    \/ \E o \in Orders, edit \in Edits : BeginEdit(o, edit)
    \/ \E o \in Orders : CommitCancel(o)
    \/ \E o \in Orders, q \in Quantities : CommitModify(o, q)
    \/ Crash

Spec == Init /\ [][Next]_vars

\* The polling loop never stops, a thread that started an execution finishes
\* it, an order that is polled again and again is quoted at some point, and a
\* commit that is tried again and again succeeds at some point.
FairSpec ==
    /\ Spec
    /\ WF_vars(PollSnapshot)
    /\ \A w \in Workers : WF_vars(Execute(w)) /\ SF_vars(CommitTrade(w))
    /\ \A o \in Orders : /\ WF_vars(\E quoted \in BOOLEAN : PollNext(o, quoted))
                         /\ SF_vars(PollNext(o, TRUE))

-----------------------------------------------------------------------------
(* Properties                                                              *)

\* Rows and local copies hold values of their kind.
TypeOK ==
    /\ orders \in [Orders -> Row]
    /\ trades \in [Orders -> Nat]
    /\ traded \in Nat
    /\ position \in Nat \cup {Absent}
    /\ worker \in [Workers -> [at    : Stages,
                               order : Workers,
                               row   : Row,
                               seen  : Nat \cup {Absent}]]
    /\ \A w \in Workers : worker[w].at # "idle" => worker[w].order \in Orders
    /\ snapshot \in [queue  : SUBSET Orders,
                     rows   : [Orders -> Row],
                     loaded : BOOLEAN]
    /\ editor \in [Orders -> {"none", "cancel", "modify"}]
    /\ crashes \in 0..MaxCrashes

\* Whatever the threads do to each other, crashes and failed commits
\* included, an order that says complete has traded.
CompleteHasTraded ==
    \A o \in Orders : orders[o].status = "complete" => trades[o] > 0

\* The trade check of _process_order and the single attempt of a placing
\* thread bound the damage of a race: an order trades at most once per thread
\* that may execute it, however often it is polled, ticked or left open.
OneTradePerThread ==
    \A o \in Orders :
        trades[o] <= Cardinality(Engines) + (IF Immediate THEN 1 ELSE 0)

\* Shares are never invented: however executions overlap, fail or are cut
\* short, the position holds no more than was traded.
NoPhantomShares == position <= traded

\* The shares a thread has traded and not yet put into the position.
Committed    == {"read", "write"}
Mine(local)  == IF local.at \in Committed THEN local.row.quantity ELSE 0
SharesIn(n)  == IF n = Absent THEN 0 ELSE n
Missing(w)   == traded - SharesIn(position) - Mine(worker[w])

\* A modification was committed after w had read the order it traded.
Overtaken(w) == /\ worker[w].at = "read"
                /\ orders[worker[w].order].quantity # worker[w].row.quantity

\* A failure or crash ends the execution of w after its trade.
CutShort(w)  == /\ worker[w].at \in Committed /\ worker'[w].at = "idle"
                /\ UNCHANGED position

\* A single executor keeps position and trade book together: shares go
\* missing, or too many are booked, only when a modification overtakes a
\* trade or the execution is cut short after it.  No fill overwrites another
\* or is booked twice, through any crashes, failed commits and edits.
BooksPartForAReason ==
    [][\A w \in Engines : Missing(w)' # Missing(w) => Overtaken(w) \/ CutShort(w)]_vars

\* A single executor trades each order at most once, through any number of
\* crashes, failed commits and edits.
AtMostOneTrade == \A o \in Orders : trades[o] <= 1

\* What an observer of the trade book and the order status sees of an order;
\* the order book knows nothing like an order that is overfilled.
Lifecycle(o) ==
    CASE trades[o] = 1 -> "filled"
      [] trades[o] > 1 -> "overfilled"
      [] trades[o] = 0 -> IF orders[o].status \in {"none", "open"}
                          THEN orders[o].status ELSE "dropped"

Abstract == INSTANCE OrderLifecycle
                WITH state <- [o \in Orders |-> Lifecycle(o)]

\* A single executor keeps the order book's promise through crashes, failed
\* commits and modifications: an order is filled or dropped, once and for all,
\* and one that every quote would fill does not stay open.
ImplementsLifecycle == Abstract!FairSpec

=============================================================================
