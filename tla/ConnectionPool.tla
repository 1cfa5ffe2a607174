---------------------------- MODULE ConnectionPool ----------------------------
(***************************************************************************)
(* The pool of broker WebSocket connections of one user                    *)
(* (src/websocket_proxy/connection_manager.py) as a record and the records *)
(* its methods may leave behind.  A broker limits the symbols of one       *)
(* connection; the pool opens up to MaxConnections of them, sends only the *)
(* highest requested mode of a symbol to the broker and remembers all.     *)
(*                                                                         *)
(* Every method holds the pool's lock from start to end.  What varies is   *)
(* the broker: a call to an adapter succeeds, returns an error, or raises. *)
(* Each operator below is the set of results over those outcomes; `failed' *)
(* counts the calls that did not succeed.  Of an adapter only the mode it  *)
(* streams each symbol in is kept.                                         *)
(*                                                                         *)
(* An operator named Faulty... is no part of the model: it is the next     *)
(* definition with a plausible bug, which the properties must detect.      *)
(***************************************************************************)
EXTENDS Integers, Sequences, FiniteSets

CONSTANTS Symbols,          \* symbols on their exchanges
          Modes,            \* subscription modes: 1 LTP, 2 Quote, 3 Depth
          MaxSymbols,       \* MAX_SYMBOLS_PER_WEBSOCKET
          MaxConnections    \* MAX_WEBSOCKET_CONNECTIONS

ASSUME PoolAssumption ==
    /\ Modes \subseteq 1..3
    /\ MaxSymbols \in Nat \ {0}
    /\ MaxConnections \in Nat \ {0}

Keys == Symbols \X Modes
Silent == [s \in Symbols |-> 0]

\* counts and streams: one entry per adapter; tracked: subscription_map, the
\* adapter of a key, 0 without an entry.
Pool == [counts      : Seq(Nat),
         streams     : Seq([Symbols -> Modes \cup {0}]),
         tracked     : [Keys -> Nat],
         initialized : BOOLEAN,
         connected   : BOOLEAN]

NewPool == [counts |-> <<>>, streams |-> <<>>, tracked |-> [k \in Keys |-> 0],
            initialized |-> FALSE, connected |-> FALSE]

Result(pool, ok, failed) == [pool |-> pool, ok |-> ok, failed |-> failed]

Connections(p) == 1..Len(p.counts)
ModesOf(p, s)  == {m \in Modes : p.tracked[<<s, m>>] # 0}
Highest(p, s)  == IF ModesOf(p, s) = {} THEN 0
                  ELSE CHOOSE m \in ModesOf(p, s) : \A n \in ModesOf(p, s) : n <= m

Track(p, k, i)        == [p EXCEPT !.tracked[k] = i]
Stream(p, i, s, mode) == [p EXCEPT !.streams[i][s] = mode]
Count(p, i, change)   == [p EXCEPT !.counts[i] = @ + change]

WithConnection(p) == [p EXCEPT !.counts  = Append(@, 0),
                               !.streams = Append(@, Silent)]

-----------------------------------------------------------------------------
(* Opening                                                                 *)

\* initialize: the first adapter.  With force a pool starts again from nothing.
Initialize(p, force) ==
    LET start == IF force /\ p.initialized THEN NewPool ELSE p
    IN  IF p.initialized /\ ~force
        THEN {Result(p, TRUE, 0)}
        ELSE {Result([WithConnection(start) EXCEPT !.initialized = TRUE], TRUE, 0),
              Result(start, FALSE, 1)}

Connect(p) ==
    IF ~p.initialized THEN {Result(p, FALSE, 0)}
    ELSE IF p.connected THEN {Result(p, TRUE, 0)}
    ELSE {Result([p EXCEPT !.connected = TRUE], TRUE, 0), Result(p, FALSE, 1)}

-----------------------------------------------------------------------------
(* Subscribing                                                             *)

WithRoom(p) == {i \in Connections(p) : p.counts[i] < MaxSymbols}

FirstWithRoom(p) == CHOOSE i \in WithRoom(p) : \A j \in WithRoom(p) : i <= j

\* An adapter whose connect returned an error, which nobody looked at, may
\* accept a subscription and stream nothing.
SubscribeOn(p, i, k) ==
    {Result(Count(Stream(Track(p, k, i), i, k[1], k[2]), i, 1), TRUE, 0),
     Result(Count(Track(p, k, i), i, 1), TRUE, 1),
     Result(p, FALSE, 1)}

\* A symbol not seen yet goes to the first adapter with room, or to a new one
\* (whose initialize and connect may raise; errors they return are ignored).
SubscribeNewSymbol(p, k) ==
    IF WithRoom(p) # {} THEN SubscribeOn(p, FirstWithRoom(p), k)
    ELSE IF Len(p.counts) >= MaxConnections THEN {Result(p, FALSE, 0)}
    ELSE SubscribeOn(WithConnection(p), Len(p.counts) + 1, k)
            \cup {Result(p, FALSE, 1)}

FaultyUpgrade(p, k, i) ==
    {Result(Count(Stream(Track(p, k, i), i, k[1], k[2]), i, 1), TRUE, 0),
     Result(p, FALSE, 1)}

Upgrade(p, k, i) ==
    {Result(Stream(Track(p, k, i), i, k[1], k[2]), TRUE, 0),
     Result(Track(p, k, i), TRUE, 1),
     Result(p, FALSE, 1)}

Subscribe(p, k) ==
    LET highest == Highest(p, k[1])
        i       == p.tracked[<<k[1], highest>>]
    IN  IF p.tracked[k] # 0 THEN {Result(p, TRUE, 0)}
        ELSE IF highest = 0 THEN SubscribeNewSymbol(p, k)
        ELSE IF k[2] > highest THEN Upgrade(p, k, i)
        ELSE {Result(Track(p, k, i), TRUE, 0)}

-----------------------------------------------------------------------------
(* Unsubscribing                                                           *)

\* The last mode of a symbol: a broker that refuses keeps the entry.
UnsubscribeSymbol(p, k, i) ==
    {Result(Count(Stream(Track(p, k, 0), i, k[1], 0), i, -1), TRUE, 0),
     Result(p, FALSE, 1)}

\* The highest of several modes.  The reply of the broker's unsubscribe is not
\* looked at.  If the subscription in the lower mode is refused, the entry is
\* restored and the old mode subscribed again, whatever comes of it; if either
\* call raises, the entry is restored and nothing else is tried.
Downgrade(p, k, i) ==
    LET lower   == Highest(Track(p, k, 0), k[1])
        stopped == {Result(Stream(p, i, k[1], 0), TRUE, 0), Result(p, TRUE, 1)}
    IN  {Result(Stream(Track(r.pool, k, 0), i, k[1], lower), TRUE, r.failed) : r \in stopped}
        \cup {Result(Track(r.pool, k, 0), TRUE, r.failed + 1) : r \in stopped}
        \cup {Result(Stream(r.pool, i, k[1], k[2]), FALSE, r.failed + 1) : r \in stopped}
        \cup {Result(r.pool, FALSE, r.failed + 1) : r \in stopped}
        \cup {Result(p, FALSE, 1)}

Unsubscribe(p, k) ==
    LET i         == p.tracked[k]
        remaining == ModesOf(p, k[1]) \ {k[2]}
    IN  IF i = 0 THEN {Result(p, FALSE, 0)}
        ELSE IF remaining = {} THEN UnsubscribeSymbol(p, k, i)
        ELSE IF \A m \in remaining : k[2] > m THEN Downgrade(p, k, i)
        ELSE {Result(Track(p, k, 0), TRUE, 0)}

Cleared(p) == [p EXCEPT !.tracked = NewPool.tracked,
                        !.counts  = [i \in Connections(p) |-> 0]]

FaultyUnsubscribeAll(p) == {Result(Cleared(p), TRUE, 0)}

\* Of the adapters those in deaf go on streaming.
Silenced(p, deaf) ==
    [p EXCEPT !.streams = [i \in Connections(p) |-> IF i \in deaf THEN p.streams[i] ELSE Silent]]

\* Every adapter is told to stop; one that answers with an error streams on,
\* and the pool forgets its subscriptions all the same.  One that raises keeps
\* those after it from being told, and the pool forgets nothing.
UnsubscribeAll(p) ==
    {Result(Silenced(Cleared(p), deaf), TRUE, Cardinality(deaf)) : deaf \in SUBSET Connections(p)}
        \cup {Result(Silenced(p, deaf), FALSE, 1) :
                 deaf \in {d \in SUBSET Connections(p) : Len(p.counts) \in d}}

=============================================================================
