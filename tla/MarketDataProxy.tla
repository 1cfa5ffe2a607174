--------------------------- MODULE MarketDataProxy ---------------------------
(***************************************************************************)
(* The WebSocket proxy (src/websocket_proxy/server.py): clients log in as  *)
(* a user, subscribe to symbols and disappear; the server keeps an index   *)
(* of who wants what, and asks the connection pool of the user for it.     *)
(*                                                                         *)
(* The server is one event loop and its handlers do not wait before they   *)
(* have changed everything they change, so a handler is an action.  Two    *)
(* handlers go through all subscriptions of a client; they are split into  *)
(* one step per subscription, and `task' keeps everything else waiting.    *)
(*                                                                         *)
(* An operator named Faulty... is no part of the model: it is the next     *)
(* definition with a plausible bug, which the properties must detect.      *)
(***************************************************************************)
EXTENDS ConnectionPool

CONSTANTS Clients,       \* WebSocket connections to the proxy
          Users,         \* owners of API keys; a deployment has one
          Nobody,        \* stands for a client that has not logged in
          MaxFailures    \* bound on broker calls that fail for a subscription

ASSUME ProxyAssumption ==
    /\ Nobody \notin Users
    /\ MaxFailures \in Nat

VARIABLES online,     \* clients
          user,       \* user_mapping
          wants,      \* subscriptions, by client
          index,      \* subscription_index, by key
          live,       \* users with an entry in broker_adapters
          pools,      \* _POOLED_ADAPTERS, by user
          keeps,      \* users of a broker whose connection outlives its clients
          task,       \* the client whose subscriptions are being dropped
          failures    \* failed broker calls so far

vars == <<online, user, wants, index, live, pools, keeps, task, failures>>

NoTask == [kind |-> "none", client |-> Nobody]
Idle   == task = NoTask

\* The pool of u after a call with result r.
PoolStep(u, r) ==
    /\ failures + r.failed <= MaxFailures
    /\ pools' = [pools EXCEPT ![u] = r.pool]
    /\ failures' = failures + r.failed

-----------------------------------------------------------------------------
(* Logging in                                                              *)

\* handle_client.  A client is known by the address of its connection, which
\* may have been another's.
Accept(c) ==
    /\ Idle
    /\ c \notin online
    /\ online' = online \cup {c}
    /\ UNCHANGED <<user, wants, index, live, pools, keeps, task, failures>>

\* What is left of a pool when its user logs in: initialize, connect and,
\* for some connection errors, both again from nothing.  The server does not
\* recognise the pool's own error reply of initialize; connect then refuses.
Login(p) ==
    LET opened   == UNION {Connect(r.pool) : r \in Initialize(p, FALSE)}
        refused  == {r \in opened : r.pool.initialized /\ ~r.ok}
        reopened == UNION {Initialize(r.pool, TRUE) : r \in refused}
    IN  opened \cup {r \in reopened : ~r.ok}
               \cup UNION {Connect(r.pool) : r \in {r \in reopened : r.ok}}

Authenticate(c, u) ==
    /\ Idle
    /\ c \in online
    /\ user' = [user EXCEPT ![c] = u]
    /\ IF u \in live
       THEN UNCHANGED <<pools, live>>
       ELSE \E r \in Login(pools[u]) :
               /\ pools' = [pools EXCEPT ![u] = r.pool]
               /\ live'  = IF r.ok THEN live \cup {u} ELSE live
    /\ UNCHANGED <<online, wants, index, keeps, task, failures>>

-----------------------------------------------------------------------------
(* Subscribing and unsubscribing                                           *)

\* subscribe_client, for one symbol of the request.
SubscribeClient(c, k) ==
    /\ Idle
    /\ c \in online
    /\ user[c] \in live
    /\ \E r \in Subscribe(pools[user[c]], k) :
          /\ PoolStep(user[c], r)
          /\ IF r.ok
             THEN /\ wants' = [wants EXCEPT ![c] = @ \cup {k}]
                  /\ index' = [index EXCEPT ![k] = @ \cup {c}]
             ELSE UNCHANGED <<wants, index>>
    /\ UNCHANGED <<online, user, live, keeps, task>>

FaultyAnyHolder(c, k) == c \in index[k]

FaultyLastHolder(c, k) == \A m \in Modes : index[<<k[1], m>>] \subseteq {c}

\* Nobody else wants this key: the broker has to be told.
LastHolder(c, k) == index[k] = {c}

\* The client's entry goes first, whatever the pool then answers.
Release(c, k) ==
    /\ index' = [index EXCEPT ![k] = @ \ {c}]
    /\ wants' = [wants EXCEPT ![c] = @ \ {k}]
    /\ IF LastHolder(c, k) /\ user[c] \in live
       THEN \E r \in Unsubscribe(pools[user[c]], k) : PoolStep(user[c], r)
       ELSE UNCHANGED <<pools, failures>>

\* unsubscribe_client, for one symbol of the request.
UnsubscribeClient(c, k) ==
    /\ Idle
    /\ c \in online
    /\ user[c] \in live
    /\ Release(c, k)
    /\ UNCHANGED <<online, user, live, keeps, task>>

\* unsubscribe_client with unsubscribe_all.
BeginUnsubscribeAll(c) ==
    /\ Idle
    /\ c \in online
    /\ user[c] \in live
    /\ task' = [kind |-> "clear", client |-> c]
    /\ UNCHANGED <<online, user, wants, index, live, pools, keeps, failures>>

\* The connection of a client is gone: cleanup_client.
BeginCleanup(c) ==
    /\ Idle
    /\ c \in online
    /\ online' = online \ {c}
    /\ task' = [kind |-> "leave", client |-> c]
    /\ UNCHANGED <<user, wants, index, live, pools, keeps, failures>>

DropSubscription(k) ==
    /\ ~Idle
    /\ k \in wants[task.client]
    /\ Release(task.client, k)
    /\ UNCHANGED <<online, user, live, keeps, task>>

Done == ~Idle /\ wants[task.client] = {}

EndUnsubscribeAll ==
    /\ Done
    /\ task.kind = "clear"
    /\ task' = NoTask
    /\ UNCHANGED <<online, user, wants, index, live, pools, keeps, failures>>

FaultyLastOfUser(c) ==
    /\ user[c] \in live
    /\ online = {}

LastOfUser(c) ==
    /\ user[c] \in live
    /\ \A d \in Clients \ {c} : user[d] # user[c]

\* The last client of a user takes the connections with it; with Flattrade and
\* Shoonya they stay and are silenced.  If that raises, the client that is gone
\* stays in user_mapping.
EndCleanup ==
    LET c == task.client
    IN  /\ Done
        /\ task.kind = "leave"
        /\ task' = NoTask
        /\ \/ /\ ~LastOfUser(c)
              /\ user' = [user EXCEPT ![c] = Nobody]
              /\ UNCHANGED <<live, pools, failures>>
           \/ /\ LastOfUser(c)
              /\ user[c] \in keeps
              /\ \E r \in UnsubscribeAll(pools[user[c]]) :
                    /\ PoolStep(user[c], r)
                    /\ user' = IF r.ok THEN [user EXCEPT ![c] = Nobody] ELSE user
              /\ UNCHANGED live
           \/ /\ LastOfUser(c)
              /\ user[c] \notin keeps
              /\ user' = [user EXCEPT ![c] = Nobody]
              /\ pools' = [pools EXCEPT ![user[c]] = NewPool]
              /\ live'  = live \ {user[c]}
              /\ UNCHANGED failures
        /\ UNCHANGED <<online, wants, index, keeps>>

\* The web process reports a new login with the broker or a logout: the
\* connections are closed, the clients and their index entries stay.
Invalidate(u) ==
    /\ Idle
    /\ u \in live
    /\ pools' = [pools EXCEPT ![u] = NewPool]
    /\ live'  = live \ {u}
    /\ UNCHANGED <<online, user, wants, index, keeps, task, failures>>

Init ==
    /\ online   = {}
    /\ user     = [c \in Clients |-> Nobody]
    /\ wants    = [c \in Clients |-> {}]
    /\ index    = [k \in Keys |-> {}]
    /\ live     = {}
    /\ pools    = [u \in Users |-> NewPool]
    /\ keeps    \in SUBSET Users
    /\ task     = NoTask
    /\ failures = 0

Next ==
    \/ \E c \in Clients : Accept(c)
    \/ \E c \in Clients, u \in Users : Authenticate(c, u)
    \/ \E c \in Clients, k \in Keys : SubscribeClient(c, k)
    \/ \E c \in Clients, k \in Keys : UnsubscribeClient(c, k)
    \/ \E c \in Clients : BeginUnsubscribeAll(c)
    \/ \E c \in Clients : BeginCleanup(c)
    \/ \E k \in Keys : DropSubscription(k)
    \/ EndUnsubscribeAll
    \/ EndCleanup
    \/ \E u \in Users : Invalidate(u)

Spec == Init /\ [][Next]_vars

-----------------------------------------------------------------------------
(* Properties                                                              *)

\* Tables and counters hold values of their kind; the symbol count of a
\* connection never goes below zero, whatever fails.
TypeOK ==
    /\ online \subseteq Clients
    /\ user \in [Clients -> Users \cup {Nobody}]
    /\ wants \in [Clients -> SUBSET Keys]
    /\ index \in [Keys -> SUBSET Clients]
    /\ live \subseteq Users
    /\ \A u \in Users : pools[u] \in Pool
    /\ keeps \subseteq Users
    /\ task \in [kind : {"none", "clear", "leave"}, client : Clients \cup {Nobody}]
    /\ failures \in 0..MaxFailures

SymbolsOn(p, i) == {s \in Symbols : \E m \in Modes : p.tracked[<<s, m>>] = i}

\* Through upgrades, downgrades, refusals and exceptions the slots counted on
\* a connection are the symbols tracked on it, and a symbol has one connection.
SlotsMatchSymbols ==
    \A u \in Users :
        LET p == pools[u]
        IN  /\ \A i \in Connections(p) : p.counts[i] = Cardinality(SymbolsOn(p, i))
            /\ \A s \in Symbols : \A m, n \in ModesOf(p, s) :
                  p.tracked[<<s, m>>] = p.tracked[<<s, n>>]

\* The index the ticks are routed by and the clients' own sets agree, also
\* while a client is going and after its user's connections were closed.
IndexMatchesClients ==
    \A k \in Keys : index[k] = {c \in Clients : k \in wants[c]}

\* Connections stay open for nobody, unless the broker's are kept on purpose.
ConnectionsHaveClients ==
    \A u \in live : u \in keeps \/ \E c \in Clients : user[c] = u

\* What the server and its pools remember follows the clients, through logins
\* that fail, disconnections, and connections closed under clients that stay.
ServerFollowsClients == IndexMatchesClients /\ ConnectionsHaveClients

Streaming(u, s) == {pools[u].streams[i][s] : i \in Connections(pools[u])}

\* Entries from before an invalidation are tracked by no pool; they may be fed
\* by chance, as long as somebody wants the symbol in a higher mode.
Fed(c, k) ==
    /\ c \in index[k]
    /\ user[c] \in live
    /\ pools[user[c]].tracked[k] # 0
    /\ \E mode \in Streaming(user[c], k[1]) : mode >= k[2]

\* What one client does never takes the feed of another: a client that gets
\* its data keeps getting it until it unsubscribes, a broker call fails or the
\* user's connections are invalidated.
NoFeedLost ==
    [][failures' = failures =>
          \/ \A c \in Clients, k \in Keys :
                Fed(c, k) /\ c \in index'[k] => Fed(c, k)'
          \/ \E u \in Users : Invalidate(u)]_vars

Unwanted(u) == {k \in Keys : pools[u].tracked[k] # 0 /\ index[k] = {}}

\* A step in which no broker call fails leaves no slot occupied for a key
\* that nobody wants any more (for the one user of a deployment).
SlotsAreFreed == [][failures' = failures => \A u \in Users : Unwanted(u)' \subseteq Unwanted(u)]_vars

Orphans(p) ==
    {s \in Symbols : \E i \in Connections(p) : p.streams[i][s] # 0 /\ s \notin SymbolsOn(p, i)}

\* Nor does it leave the broker streaming a symbol that the pool forgot.
NoOrphanStreams ==
    [][failures' = failures => \A u \in Users : Orphans(pools'[u]) \subseteq Orphans(pools[u])]_vars

=============================================================================
