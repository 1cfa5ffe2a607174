------------------------------ MODULE PendingIndex ------------------------------
(***************************************************************************)
(* The order index of the WebSocket engine                                  *)
(* (sandbox/websocket_execution_engine.py): which open orders a tick of a    *)
(* symbol looks at, and how many orders want the symbol's feed.  Placing     *)
(* threads, the thread that delivers ticks, and start and stop of the engine *)
(* change both under a lock, and call the market data proxy after they have  *)
(* released it.  Orders are also closed without the engine hearing of it: by  *)
(* cancellation, by the polling engines, by the thread that places them.     *)
(*                                                                         *)
(* One user.  A stop ends with a new, empty engine object; a thread that     *)
(* still holds the old one changes nothing in the new (its generation).      *)
(***************************************************************************)
EXTENDS Integers, FiniteSets

CONSTANTS Orders, Symbols,
          SymbolOf,       \* the symbol of each order
          MaxStops        \* bound: stops of the engine

ASSUME SymbolAssumption == SymbolOf \in [Orders -> Symbols]
ASSUME StopsAssumption == MaxStops \in Nat
ASSUME FiniteAssumption == IsFiniteSet(Orders)

VARIABLES status,     \* the orders in the database
          running,    \* the engine's _running
          control,    \* where start or stop is
          wanted,     \* the symbols start or stop is about to call for
          generation, \* which engine object is current
          index,      \* orders in _pending_orders_index
          count,      \* _user_symbol_refcounts of the user
          feed,       \* symbols the proxy streams for the engine
          placer,     \* the thread that places each order
          tick,       \* the thread that delivers ticks
          late        \* history: symbols whose feed and count came apart

vars == <<status, running, control, wanted, generation, index, count, feed, placer, tick, late>>

NoTick == [pc |-> "idle", todo |-> {}, generation |-> 0, symbols |-> {}]

TypeOK ==
    /\ status \in [Orders -> {"none", "open", "closed"}]
    /\ running \in BOOLEAN
    /\ control \in {"off", "failed", "rebuild", "subscribe", "on", "blind", "clear", "unsubscribe"}
    /\ wanted \subseteq Symbols /\ generation \in 0 .. MaxStops
    /\ index \subseteq Orders /\ count \in [Symbols -> Nat] /\ feed \subseteq Symbols
    /\ placer \in [Orders -> [pc : {"place", "check", "get", "notify", "subscribe", "done"},
                              generation : 0 .. MaxStops]]
    /\ tick \in [pc : {"idle", "next", "completed", "unsubscribe"}, todo : SUBSET Orders,
                 generation : 0 .. MaxStops, symbols : SUBSET Symbols]
    /\ late \subseteq Symbols

Init ==
    /\ status = [o \in Orders |-> "none"]
    /\ running = FALSE /\ control = "off" /\ wanted = {} /\ generation = 0
    /\ index = {} /\ count = [s \in Symbols |-> 0] /\ feed = {}
    /\ placer = [o \in Orders |-> [pc |-> "place", generation |-> 0]]
    /\ tick = NoTick
    /\ late = {}

engine == <<running, control, wanted, generation>>
Open == {o \in Orders : status[o] = "open"}
OrdersOf(S, s) == {o \in S : SymbolOf[o] = s}

\* A call that reaches the proxy after the count it was decided on has changed.
Subscribed(S) == feed' = feed \cup S /\ late' = late \cup {s \in S : count[s] = 0}
Unsubscribed(S) == feed' = feed \ S /\ late' = late \cup {s \in S : count[s] > 0}

---------------------------------------------------------------------------
(* place_order, from the commit of the open order. *)

At(o, pc) == placer' = [placer EXCEPT ![o].pc = pc]

Place(o) ==
    /\ placer[o].pc = "place"
    /\ status' = [status EXCEPT ![o] = "open"]
    /\ At(o, "check")
    /\ UNCHANGED <<engine, index, count, feed, tick, late>>

\* The order is cancelled, or executed by another engine or by its own thread.
Close(o) ==
    /\ status[o] = "open"
    /\ status' = [status EXCEPT ![o] = "closed"]
    /\ UNCHANGED <<engine, index, count, feed, placer, tick, late>>

\* Only an order that is still open is reported, and only to a running engine.
Check(o) ==
    /\ placer[o].pc = "check"
    /\ At(o, IF status[o] = "open" /\ running THEN "get" ELSE "done")
    /\ UNCHANGED <<status, engine, index, count, feed, tick, late>>

\* get_websocket_execution_engine: by now perhaps another object, or a new
\* one that has not been started.
Get(o) ==
    /\ placer[o].pc = "get"
    /\ placer' = [placer EXCEPT ![o] = [pc |-> "notify", generation |-> generation]]
    /\ UNCHANGED <<status, engine, index, count, feed, tick, late>>

FaultyNotifyPlaced(o) ==
    /\ placer[o].pc = "notify"
    /\ LET s == SymbolOf[o] IN
       IF placer[o].generation = generation
       THEN /\ index' = index \cup {o}
            /\ count' = [count EXCEPT ![s] = IF OrdersOf(index, s) = {} THEN @ + 1 ELSE @]
            /\ At(o, IF count[s] = 0 THEN "subscribe" ELSE "done")
       ELSE At(o, "subscribe") /\ UNCHANGED <<index, count>>
    /\ UNCHANGED <<status, engine, feed, tick, late>>

\* notify_order_placed: counts the order even if the index has it already.
NotifyPlaced(o) ==
    /\ placer[o].pc = "notify"
    /\ LET s == SymbolOf[o] IN
       IF placer[o].generation = generation
       THEN /\ index' = index \cup {o}
            /\ count' = [count EXCEPT ![s] = @ + 1]
            /\ At(o, IF count[s] = 0 THEN "subscribe" ELSE "done")
       ELSE At(o, "subscribe") /\ UNCHANGED <<index, count>>
    /\ UNCHANGED <<status, engine, feed, tick, late>>

Subscribe(o) ==
    /\ placer[o].pc = "subscribe"
    /\ Subscribed({SymbolOf[o]})
    /\ At(o, "done")
    /\ UNCHANGED <<status, engine, index, count, tick>>

Placing(o) == Place(o) \/ Check(o) \/ Get(o) \/ NotifyPlaced(o) \/ Subscribe(o)

---------------------------------------------------------------------------
(* _on_market_data. *)

\* A tick copies the orders of its symbol.
Tick(s) ==
    /\ tick.pc = "idle" /\ running /\ control \in {"on", "blind"}
    /\ OrdersOf(index, s) # {}
    /\ tick' = [pc |-> "next", todo |-> OrdersOf(index, s), generation |-> generation, symbols |-> {}]
    /\ UNCHANGED <<status, engine, index, count, feed, placer, late>>

\* _check_and_execute_order: an order that is open is executed, or stays as it
\* is; one that is not, or no longer, is reported as completed.
Look(o, executed) ==
    /\ tick.pc = "next" /\ o \in tick.todo
    /\ executed => status[o] = "open"
    /\ status' = [status EXCEPT ![o] = IF executed THEN "closed" ELSE @]
    /\ tick' = IF status[o] = "open" /\ ~executed
               THEN [tick EXCEPT !.todo = @ \ {o}, !.pc = IF tick.todo = {o} THEN "idle" ELSE "next"]
               ELSE [tick EXCEPT !.todo = {o} \cup @, !.pc = "completed", !.symbols = {SymbolOf[o]}]
    /\ UNCHANGED <<engine, index, count, feed, placer, late>>

FaultyNotifyCompleted(o) ==
    /\ tick.pc = "completed" /\ o \in tick.todo /\ status[o] = "closed"
    /\ LET s == SymbolOf[o]
           known == tick.generation = generation /\ \E x \in Symbols : count[x] > 0
           last == known /\ count[s] < 1
           rest == tick.todo \ {o}
       IN
       /\ index' = IF tick.generation = generation THEN index \ {o} ELSE index
       /\ count' = IF known /\ count[s] > 0 THEN [count EXCEPT ![s] = @ - 1] ELSE count
       /\ tick' = IF last THEN [tick EXCEPT !.todo = rest, !.pc = "unsubscribe"]
                  ELSE [tick EXCEPT !.todo = rest, !.pc = IF rest = {} THEN "idle" ELSE "next", !.symbols = {}]
    /\ UNCHANGED <<status, engine, feed, placer, late>>

\* notify_order_completed: the count goes down whether the order was in the
\* index or not; nothing is known of a user without counts.
NotifyCompleted(o) ==
    /\ tick.pc = "completed" /\ o \in tick.todo /\ status[o] = "closed"
    /\ LET s == SymbolOf[o]
           known == tick.generation = generation /\ \E x \in Symbols : count[x] > 0
           last == known /\ count[s] <= 1
           rest == tick.todo \ {o}
       IN
       /\ index' = IF tick.generation = generation THEN index \ {o} ELSE index
       /\ count' = IF known /\ count[s] > 0 THEN [count EXCEPT ![s] = @ - 1] ELSE count
       /\ tick' = IF last THEN [tick EXCEPT !.todo = rest, !.pc = "unsubscribe"]
                  ELSE [tick EXCEPT !.todo = rest, !.pc = IF rest = {} THEN "idle" ELSE "next", !.symbols = {}]
    /\ UNCHANGED <<status, engine, feed, placer, late>>

Unsubscribe ==
    /\ tick.pc = "unsubscribe"
    /\ Unsubscribed(tick.symbols)
    /\ tick' = [tick EXCEPT !.pc = IF tick.todo = {} THEN "idle" ELSE "next", !.symbols = {}]
    /\ UNCHANGED <<status, engine, index, count, placer>>

Ticking == (\E s \in Symbols : Tick(s)) \/ (\E o \in Orders : (\E x \in BOOLEAN : Look(o, x)) \/ NotifyCompleted(o)) \/ Unsubscribe

---------------------------------------------------------------------------
(* start and stop, serialized by the callers' lock. *)

FaultyStart ==
    /\ control \in {"off", "failed"}
    /\ control' = "rebuild"
    /\ UNCHANGED <<status, running, wanted, generation, index, count, feed, placer, tick, late>>

\* From here on placing threads report their orders.
Start ==
    /\ control \in {"off", "failed"}
    /\ running' = TRUE /\ control' = "rebuild"
    /\ UNCHANGED <<status, wanted, generation, index, count, feed, placer, tick, late>>

\* _rebuild_order_index, under the lock.  It also forgets the orders reported
\* since the start, whose feed it does not give up.
Rebuild ==
    /\ control = "rebuild"
    /\ index' = Open
    /\ count' = [s \in Symbols |-> Cardinality(OrdersOf(Open, s))]
    /\ wanted' = {s \in Symbols : OrdersOf(Open, s) # {}}
    /\ control' = "subscribe"
    /\ late' = late \cup {s \in Symbols : count[s] > 0 /\ OrdersOf(Open, s) = {}}
    /\ UNCHANGED <<status, running, generation, feed, placer, tick>>

\* subscribe_critical, the end of start.  If it raises, the engine object does
\* not run, and keeps what it has until it is started again or dropped.
SubscribeCritical(mode) ==
    \/ control' = mode /\ UNCHANGED running
    \/ control' = "failed" /\ running' = FALSE

\* The orders cannot be read: the engine runs with what is reported to it.
RebuildFails ==
    /\ control = "rebuild"
    /\ index' = {} /\ count' = [s \in Symbols |-> 0]
    /\ SubscribeCritical("blind")
    /\ late' = late \cup {s \in Symbols : count[s] > 0}
    /\ UNCHANGED <<status, wanted, generation, feed, placer, tick>>

SubscribeAll ==
    /\ control = "subscribe"
    /\ Subscribed(wanted)
    /\ SubscribeCritical("on") /\ wanted' = {}
    /\ UNCHANGED <<status, generation, index, count, placer, tick>>

Stop ==
    /\ control \in {"on", "blind"} /\ generation < MaxStops
    /\ running' = FALSE /\ control' = "clear"
    /\ UNCHANGED <<status, wanted, generation, index, count, feed, placer, tick, late>>

\* _unsubscribe_all_ws, under the lock.
ClearCounts ==
    /\ control = "clear"
    /\ wanted' = {s \in Symbols : count[s] > 0}
    /\ count' = [s \in Symbols |-> 0]
    /\ control' = "unsubscribe"
    /\ UNCHANGED <<status, running, generation, index, feed, placer, tick, late>>

\* The calls, and the end of the engine object.
UnsubscribeAll ==
    /\ control = "unsubscribe"
    /\ feed' = feed \ wanted
    /\ late' = late \cup {s \in Symbols : count[s] > 0}
    /\ control' = "off" /\ wanted' = {} /\ generation' = generation + 1
    /\ index' = {} /\ count' = [s \in Symbols |-> 0]
    /\ UNCHANGED <<status, running, placer, tick>>

\* A stop drops an engine object that does not run, and nothing else.
Drop ==
    /\ control = "failed" /\ generation < MaxStops
    /\ late' = late \cup {s \in Symbols : count[s] > 0}
    /\ control' = "off" /\ generation' = generation + 1
    /\ index' = {} /\ count' = [s \in Symbols |-> 0]
    /\ UNCHANGED <<status, running, wanted, feed, placer, tick>>

Controlling ==
    Start \/ Rebuild \/ RebuildFails \/ SubscribeAll \/ Stop \/ ClearCounts \/ UnsubscribeAll \/ Drop

Next == (\E o \in Orders : Placing(o) \/ Close(o)) \/ Ticking \/ Controlling

Spec == Init /\ [][Next]_vars

---------------------------------------------------------------------------
Serving == control \in {"subscribe", "on"}

\* While the engine serves with an index it built, every open order is in its index, except those
\* whose placing thread is about to report them: an order that is committed
\* while the engine starts is found by the rebuild or reported.
OpenOrdersAreIndexed ==
    Serving => \A o \in Open : o \in index \/ placer[o].pc \in {"check", "get", "notify"}

\* A symbol is counted at least as often as orders of it are indexed, so
\* that its feed is not given up while an indexed order needs it.
IndexedAreCounted ==
    Serving \/ control = "blind" => \A s \in Symbols : Cardinality(OrdersOf(index, s)) <= count[s]

\* With no call under way, the proxy streams exactly the symbols that are
\* counted, unless a call for the symbol was overtaken by a change of its count.
CallPending(s) ==
    \/ s \in wanted \/ s \in tick.symbols
    \/ \E o \in Orders : placer[o].pc = "subscribe" /\ SymbolOf[o] = s
FeedFollowsCount ==
    control \in {"on", "blind"} => \A s \in Symbols \ late : ~CallPending(s) => (s \in feed <=> count[s] > 0)
===============================================================================
