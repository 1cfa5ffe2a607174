---------------------------- MODULE EngineLifecycle ----------------------------
(***************************************************************************)
(* Starting and stopping the sandbox engines (sandbox/execution_thread.py): *)
(* requests start and stop them under one lock; while the market data proxy *)
(* is down a polling thread serves the orders and a watcher waits to replace *)
(* it by the WebSocket engine (sandbox/websocket_execution_engine.py), whose *)
(* monitor thread starts a polling loop of its own while data is stale.     *)
(*                                                                         *)
(* Every join has a timeout, so a join may return while its thread lives.   *)
(* The engine type is the default, websocket.  The global _websocket_engine *)
(* and the module's singleton are set and cleared together: ref.engine.     *)
(* Identities of threads and engines are used again once nothing refers to  *)
(* them; how many there are bounds the overlap, not the history.            *)
(***************************************************************************)
EXTENDS Integers, FiniteSets

CONSTANTS Callers,    \* request threads that start and stop
          Pollers,    \* identities of polling threads
          Watchers,   \* identities of upgrade watchers
          Engines,    \* identities of WebSocket engine objects
          Monitors,   \* identities of their monitor threads
          Loops,      \* identities of their fallback loops
          MaxFaults,  \* bound: failed subscriptions, and callbacks an engine may leak
          None

ASSUME FaultsAssumption == MaxFaults \in Nat \ {0}
ASSUME NoneAssumption == None \notin Callers \cup Pollers \cup Watchers \cup Engines \cup Monitors \cup Loops
ASSUME ThreadsAssumption == Callers \cap Watchers = {}

VARIABLES lock,       \* who holds _thread_lock
          caller,     \* where each request is
          last,       \* the last start or stop that finished
          ref,        \* the globals _execution_thread, _websocket_engine, _auto_upgrade_thread
          stopEvent,  \* _auto_upgrade_stop_event
          poller, watcher, engine, monitor, loop,
          healthy,    \* the proxy accepts connections
          fresh,      \* the market data is fresh
          faults

vars == <<lock, caller, last, ref, stopEvent, poller, watcher, engine, monitor, loop, healthy, fresh, faults>>
env == <<healthy, fresh>>

Idle == [engine |-> None, late |-> FALSE]
Resting == [engine |-> None, pc |-> "watch"]
Engine(running, falling, l, subs) == [running |-> running, falling |-> falling, loop |-> l, subs |-> subs]
NewEngine == Engine(FALSE, FALSE, None, 0)
Refs(p, e, w) == [poller |-> p, engine |-> e, watcher |-> w]

TypeOK ==
    /\ lock \in {None} \cup Callers \cup Watchers
    /\ caller \in [Callers -> {"ready", "join_watcher", "engine", "fallback", "join_loop",
                               "unsubscribe", "poller", "join_poller", "end"}]
    /\ last \in {"stop", "start"}
    /\ ref \in [poller : Pollers \cup {None}, engine : Engines \cup {None}, watcher : Watchers \cup {None}]
    /\ stopEvent \in BOOLEAN /\ healthy \in BOOLEAN /\ fresh \in BOOLEAN
    /\ poller \in [Pollers -> {"dead", "running", "told"}]
    /\ watcher \in [Watchers -> {"dead", "sleep", "lock", "join_poller"}]
    /\ engine \in [Engines -> [running : BOOLEAN, falling : BOOLEAN, loop : Loops \cup {None},
                               subs : 0 .. (MaxFaults + 1)]]
    /\ monitor \in [Monitors -> [engine : Engines \cup {None}, pc : {"watch", "start", "check", "join"}]]
    /\ loop \in [Loops -> [engine : Engines \cup {None}, late : BOOLEAN]]
    /\ faults \in 0 .. MaxFaults

Init ==
    /\ lock = None /\ caller = [c \in Callers |-> "ready"] /\ last = "stop"
    /\ ref = Refs(None, None, None)
    /\ stopEvent = FALSE
    /\ poller = [p \in Pollers |-> "dead"] /\ watcher = [w \in Watchers |-> "dead"]
    /\ engine = [e \in Engines |-> NewEngine]
    /\ monitor = [m \in Monitors |-> Resting] /\ loop = [l \in Loops |-> Idle]
    /\ healthy \in BOOLEAN /\ fresh \in BOOLEAN
    /\ faults = 0

\* Faults are counted up to the bound; a failed subscription also needs room for one.
Counted == faults' = IF faults < MaxFaults THEN faults + 1 ELSE faults

PollerAlive == ref.poller # None /\ poller[ref.poller] # "dead"
EngineRunning == ref.engine # None /\ engine[ref.engine].running
WatcherAlive == ref.watcher # None /\ watcher[ref.watcher] # "dead"

---------------------------------------------------------------------------
(* start_execution_engine, one step under the lock. *)

\* Nothing refers to the engine object any more.
Spare(e) ==
    /\ e # ref.engine /\ engine[e].subs = 0
    /\ \A m \in Monitors : monitor[m].engine # e
    /\ \A l \in Loops : loop[l].engine # e

\* WebSocketExecutionEngine.start of the singleton, created if there is none.
\* If the subscription to market data fails the engine does not run, and the
\* caller is told that it was started all the same.
StartEngine(e) ==
    /\ IF ref.engine = None THEN Spare(e) ELSE e = ref.engine
    /\ LET was == IF ref.engine = None THEN NewEngine ELSE engine[e] IN
       /\ was.subs <= MaxFaults
       /\ \/ \E m \in Monitors :
               /\ monitor[m].engine = None
               /\ monitor' = [monitor EXCEPT ![m] = [engine |-> e, pc |-> "watch"]]
               /\ engine' = [engine EXCEPT ![e] = Engine(TRUE, was.falling, was.loop, was.subs + 1)]
               /\ UNCHANGED faults
          \/ /\ engine' = [engine EXCEPT ![e] = was] /\ faults < MaxFaults /\ Counted
             /\ UNCHANGED monitor

StartPoller(p) ==
    /\ poller[p] = "dead"
    /\ poller' = [poller EXCEPT ![p] = "running"]

FaultyStartWatcher(w) ==
    IF WatcherAlive
    THEN w = ref.watcher /\ UNCHANGED <<watcher, stopEvent>>
    ELSE /\ watcher[w] = "dead"
         /\ watcher' = [watcher EXCEPT ![w] = "sleep"]
         /\ UNCHANGED stopEvent

\* _start_websocket_upgrade_watcher: a watcher that outlived its join is no
\* longer known, and clearing the event revives it.
StartWatcher(w) ==
    IF WatcherAlive
    THEN w = ref.watcher /\ UNCHANGED <<watcher, stopEvent>>
    ELSE /\ watcher[w] = "dead"
         /\ watcher' = [watcher EXCEPT ![w] = "sleep"]
         /\ stopEvent' = FALSE

AlreadyRunning == PollerAlive \/ EngineRunning

Start(c) ==
    /\ lock = None /\ caller[c] = "ready"
    /\ last' = "start"
    /\ \/ AlreadyRunning /\ UNCHANGED <<ref, stopEvent, poller, watcher, engine, monitor, faults>>
       \/ /\ ~AlreadyRunning /\ healthy
          /\ \E e \in Engines : StartEngine(e) /\ ref' = [ref EXCEPT !.engine = e]
          /\ UNCHANGED <<stopEvent, poller, watcher>>
       \/ /\ ~AlreadyRunning /\ ~healthy
          /\ \E p \in Pollers, w \in Watchers :
               /\ StartPoller(p) /\ StartWatcher(w)
               /\ ref' = Refs(p, ref.engine, w)
          /\ UNCHANGED <<engine, monitor, faults>>
    /\ UNCHANGED <<lock, caller, loop, env>>

---------------------------------------------------------------------------
(* stop_execution_engine, which keeps the lock while it joins. *)

Goto(c, pc) == caller' = [caller EXCEPT ![c] = pc]

\* _stop_websocket_upgrade_watcher sets the event and joins the watcher.
BeginStop(c) ==
    /\ lock = None /\ caller[c] = "ready"
    /\ lock' = c
    /\ stopEvent' = TRUE
    /\ Goto(c, IF WatcherAlive THEN "join_watcher" ELSE "engine")
    /\ UNCHANGED <<last, ref, poller, watcher, engine, monitor, loop, env, faults>>

FaultyJoinWatcher(c) ==
    /\ caller[c] = "join_watcher" /\ ~WatcherAlive
    /\ Goto(c, "engine")
    /\ UNCHANGED <<lock, last, ref, stopEvent, poller, watcher, engine, monitor, loop, env, faults>>

\* A watcher that waits for the lock cannot finish: the join times out.
JoinWatcher(c) ==
    /\ caller[c] = "join_watcher"
    /\ Goto(c, "engine")
    /\ UNCHANGED <<lock, last, ref, stopEvent, poller, watcher, engine, monitor, loop, env, faults>>

\* WebSocketExecutionEngine.stop, its first lines.
StopEngine(c) ==
    /\ caller[c] = "engine"
    /\ IF EngineRunning
       THEN /\ LET e == engine[ref.engine] IN
               engine' = [engine EXCEPT ![ref.engine] = Engine(FALSE, FALSE, e.loop, e.subs)]
            /\ ref' = [ref EXCEPT !.watcher = None]
            /\ Goto(c, "fallback")
       ELSE /\ ref' = Refs(ref.poller, None, None)
            /\ Goto(c, "poller")
            /\ UNCHANGED engine
    /\ UNCHANGED <<lock, last, stopEvent, poller, watcher, monitor, loop, env, faults>>

LoopAlive(e) == engine[e].loop # None /\ loop[engine[e].loop].engine = e

\* _stop_fallback: is there a loop to join?
StopFallback(c) ==
    /\ caller[c] = "fallback"
    /\ Goto(c, IF LoopAlive(ref.engine) THEN "join_loop" ELSE "unsubscribe")
    /\ UNCHANGED <<lock, last, ref, stopEvent, poller, watcher, engine, monitor, loop, env, faults>>

\* The join of the loop of engine e ends, with the loop or without it.
Forget(e) ==
    /\ engine' = [engine EXCEPT ![e].loop = None]
    /\ loop' = [loop EXCEPT ![engine[e].loop].late = @ \/ loop[engine[e].loop].engine = e]

\* The monitor may have cleared the attribute since it was looked at: then
\* the call on None ends engine.stop() before it unsubscribes, and the engine
\* object stays where it was.
JoinLoop(c) ==
    /\ caller[c] = "join_loop"
    /\ \/ engine[ref.engine].loop # None /\ Forget(ref.engine) /\ Goto(c, "unsubscribe") /\ UNCHANGED faults
       \/ engine[ref.engine].loop = None /\ Counted /\ Goto(c, "poller") /\ UNCHANGED <<engine, loop>>
    /\ UNCHANGED <<lock, last, ref, stopEvent, poller, watcher, monitor, env>>

Unsubscribe(c) ==
    /\ caller[c] = "unsubscribe"
    /\ engine' = [engine EXCEPT ![ref.engine].subs = @ - 1]
    /\ ref' = [ref EXCEPT !.engine = None]
    /\ Goto(c, "poller")
    /\ UNCHANGED <<lock, last, stopEvent, poller, watcher, monitor, loop, env, faults>>

StopPoller(c) ==
    /\ caller[c] = "poller"
    /\ IF PollerAlive
       THEN poller' = [poller EXCEPT ![ref.poller] = "told"] /\ Goto(c, "join_poller")
       ELSE UNCHANGED poller /\ Goto(c, "end")
    /\ UNCHANGED <<lock, last, ref, stopEvent, watcher, engine, monitor, loop, env, faults>>

FaultyJoinPoller(c) ==
    /\ caller[c] = "join_poller"
    /\ ref' = [ref EXCEPT !.poller = IF PollerAlive THEN @ ELSE None]
    /\ Goto(c, "end")
    /\ UNCHANGED <<lock, last, stopEvent, poller, watcher, engine, monitor, loop, env, faults>>

\* The polling thread may be in the middle of a cycle: it is forgotten anyway.
JoinPoller(c) ==
    /\ caller[c] = "join_poller"
    /\ ref' = [ref EXCEPT !.poller = None]
    /\ Goto(c, "end")
    /\ UNCHANGED <<lock, last, stopEvent, poller, watcher, engine, monitor, loop, env, faults>>

EndStop(c) ==
    /\ caller[c] = "end"
    /\ lock' = None /\ last' = "stop"
    /\ Goto(c, "ready")
    /\ UNCHANGED <<ref, stopEvent, poller, watcher, engine, monitor, loop, env, faults>>

Stopping(c) ==
    \/ JoinWatcher(c) \/ StopEngine(c) \/ StopFallback(c) \/ JoinLoop(c)
    \/ Unsubscribe(c) \/ StopPoller(c) \/ JoinPoller(c) \/ EndStop(c)

---------------------------------------------------------------------------
(* The upgrade watcher. *)

\* It wakes up every five seconds; it asks for the lock if the proxy is up.
Wake(w) ==
    /\ watcher[w] = "sleep" /\ (stopEvent \/ healthy)
    /\ watcher' = [watcher EXCEPT ![w] = IF stopEvent THEN "dead" ELSE "lock"]
    /\ UNCHANGED <<lock, caller, last, ref, stopEvent, poller, engine, monitor, loop, env, faults>>

FaultyUpgrade(w) ==
    /\ watcher[w] = "lock" /\ lock = None
    /\ ref.engine = None
    /\ \E e \in Engines : StartEngine(e) /\ ref' = [ref EXCEPT !.engine = e]
    /\ poller' = IF PollerAlive THEN [poller EXCEPT ![ref.poller] = "told"] ELSE poller
    /\ watcher' = [watcher EXCEPT ![w] = "join_poller"]
    /\ lock' = w
    /\ UNCHANGED <<caller, last, stopEvent, loop, env>>

\* With the lock it looks at the engines again, but not at the event: it
\* starts the WebSocket engine first and then tells the polling thread to stop.
Upgrade(w) ==
    /\ watcher[w] = "lock" /\ lock = None
    /\ PollerAlive /\ ref.engine = None
    /\ \E e \in Engines : StartEngine(e) /\ ref' = [ref EXCEPT !.engine = e]
    /\ poller' = [poller EXCEPT ![ref.poller] = "told"]
    /\ watcher' = [watcher EXCEPT ![w] = "join_poller"]
    /\ lock' = w
    /\ UNCHANGED <<caller, last, stopEvent, loop, env>>

NothingToUpgrade(w) ==
    /\ watcher[w] = "lock" /\ lock = None
    /\ ~PollerAlive \/ ref.engine # None
    /\ watcher' = [watcher EXCEPT ![w] = "sleep"]
    /\ UNCHANGED <<lock, caller, last, ref, stopEvent, poller, engine, monitor, loop, env, faults>>

EndUpgrade(w) ==
    /\ watcher[w] = "join_poller"
    /\ ref' = [ref EXCEPT !.poller = None]
    /\ watcher' = [watcher EXCEPT ![w] = "dead"]
    /\ lock' = None
    /\ UNCHANGED <<caller, last, stopEvent, poller, engine, monitor, loop, env, faults>>

Watching(w) == Wake(w) \/ Upgrade(w) \/ NothingToUpgrade(w) \/ EndUpgrade(w)

---------------------------------------------------------------------------
(* The monitor of a WebSocket engine, its fallback loop, the polling thread. *)

Monitoring(m, pc) == monitor[m].engine # None /\ monitor[m].pc = pc
At(m, pc) == monitor' = [monitor EXCEPT ![m].pc = pc]
Quiet == UNCHANGED <<lock, caller, last, ref, stopEvent, poller, watcher, env, faults>>

\* Stale data asks for a fallback loop, fresh data for its end.
Look(m) ==
    /\ Monitoring(m, "watch")
    /\ LET e == engine[monitor[m].engine] IN
       \/ e.running /\ ~fresh /\ ~e.falling /\ At(m, "start") /\ UNCHANGED engine
       \/ /\ e.running /\ fresh /\ e.falling /\ At(m, "check")
          /\ engine' = [engine EXCEPT ![monitor[m].engine].falling = FALSE]
       \/ ~e.running /\ monitor' = [monitor EXCEPT ![m] = Resting] /\ UNCHANGED engine
    /\ UNCHANGED loop /\ Quiet

FaultyStartUnmarked(m) ==
    /\ Monitoring(m, "start")
    /\ LET e == monitor[m].engine IN
       \E l \in Loops :
          /\ loop[l].engine = None /\ \A other \in Engines \ {e} : engine[other].loop # l
          /\ loop' = [loop EXCEPT ![l] = [engine |-> e, late |-> FALSE]]
          /\ engine' = [engine EXCEPT ![e].loop = l]
    /\ At(m, "watch")
    /\ Quiet

FaultyStartOnce(m) ==
    /\ Monitoring(m, "start")
    /\ LET e == monitor[m].engine IN
       \E l \in Loops :
          /\ loop[l].engine = None /\ \A other \in Engines \ {e} : engine[other].loop # l
          /\ loop' = IF engine[e].loop = None THEN [loop EXCEPT ![l] = [engine |-> e, late |-> FALSE]] ELSE loop
          /\ engine' = [engine EXCEPT ![e].falling = TRUE, ![e].loop = IF @ = None THEN l ELSE @]
    /\ At(m, "watch")
    /\ Quiet

\* _start_fallback.
StartFallback(m) ==
    /\ Monitoring(m, "start")
    /\ LET e == monitor[m].engine IN
       IF engine[e].falling
       THEN UNCHANGED <<engine, loop>>
       ELSE \E l \in Loops :
              /\ loop[l].engine = None /\ \A other \in Engines \ {e} : engine[other].loop # l
              /\ loop' = [loop EXCEPT ![l] = [engine |-> e, late |-> FALSE]]
              /\ engine' = [engine EXCEPT ![e] = Engine(@.running, TRUE, l, @.subs)]
    /\ At(m, "watch")
    /\ Quiet

\* _stop_fallback, called by the monitor.
CheckFallback(m) ==
    /\ Monitoring(m, "check")
    /\ At(m, IF LoopAlive(monitor[m].engine) THEN "join" ELSE "watch")
    /\ UNCHANGED <<engine, loop>> /\ Quiet

JoinFallback(m) ==
    /\ Monitoring(m, "join")
    /\ IF engine[monitor[m].engine].loop # None THEN Forget(monitor[m].engine) ELSE UNCHANGED <<engine, loop>>
    /\ At(m, "watch")
    /\ Quiet

MonitorThread(m) == Look(m) \/ StartFallback(m) \/ CheckFallback(m) \/ JoinFallback(m)

\* A loop ends when it finds a flag down; one that is busy may miss that the
\* flag was down for a while.
Wanted(l) == engine[loop[l].engine].falling /\ engine[loop[l].engine].running
LoopEnds(l) ==
    /\ loop[l].engine # None /\ ~Wanted(l)
    /\ loop' = [loop EXCEPT ![l] = Idle]
    /\ UNCHANGED <<engine, monitor>> /\ Quiet

PollerEnds(p) ==
    /\ poller[p] = "told"
    /\ poller' = [poller EXCEPT ![p] = "dead"]
    /\ UNCHANGED <<lock, caller, last, ref, stopEvent, watcher, engine, monitor, loop, env, faults>>

Environment ==
    /\ \/ healthy' = ~healthy /\ UNCHANGED fresh
       \/ fresh' = ~fresh /\ UNCHANGED healthy
    /\ UNCHANGED <<lock, caller, last, ref, stopEvent, poller, watcher, engine, monitor, loop, faults>>

Next ==
    \/ \E c \in Callers : Start(c) \/ BeginStop(c) \/ Stopping(c)
    \/ \E w \in Watchers : Watching(w)
    \/ \E m \in Monitors : MonitorThread(m)
    \/ \E l \in Loops : LoopEnds(l)
    \/ \E p \in Pollers : PollerEnds(p)
    \/ Environment

Spec == Init /\ [][Next]_vars

\* Threads that run are scheduled and every join returns; nobody has to call,
\* and neither the proxy nor the data has to recover.
Fairness ==
    /\ \A c \in Callers : WF_vars(Stopping(c))
    /\ \A w \in Watchers : WF_vars(Watching(w))
    /\ \A m \in Monitors : WF_vars(MonitorThread(m))
    /\ \A l \in Loops : WF_vars(LoopEnds(l))
    /\ \A p \in Pollers : WF_vars(PollerEnds(p))
FairSpec == Spec /\ Fairness

---------------------------------------------------------------------------
Untold == {p \in Pollers : poller[p] = "running"}
Running == {e \in Engines : engine[e].running}

\* start_execution_engine promises one instance: of all polling threads and
\* engines that live, at most one has not been told to stop, however starts,
\* stops and upgrades meet and however many joins time out.
OneExecutor == lock = None => Cardinality(Untold) + Cardinality(Running) <= 1

\* After a stop nothing goes on executing: every polling thread is told, no
\* engine runs and no fallback loop is wanted; a watcher that outlived its join
\* and gets the lock later must not start anything.
StoppedStaysStopped ==
    lock = None /\ last = "stop" =>
        Untold = {} /\ Running = {} /\ \A l \in Loops : loop[l].engine # None => ~Wanted(l)

\* After a start something serves the orders, also while and after the
\* watcher replaces the polling thread, unless a subscription failed.
StartedIsServed == last = "start" /\ faults = 0 /\ lock \notin Callers => Untold # {} \/ Running # {}

\* The switch as its users see it, from the lock and the last call.
Setting == IF lock \in Callers THEN "stopping" ELSE IF last = "start" THEN "on" ELSE "off"

\* Who executes: threads that were told to stop are on their way out.
Executor ==
    IF Untold = {} /\ Running = {} THEN "none"
    ELSE IF Running = {} /\ \E p \in Pollers : Untold = {p} THEN "polling"
    ELSE IF Untold = {} /\ \E e \in Engines : Running = {e} THEN "websocket"
    ELSE "several"

Switch == INSTANCE ExecutorSwitch WITH switch <- Setting, executor <- Executor, failures <- faults

\* Starts, stops and upgrades, in whatever order they get the lock and with
\* whatever threads outlive their joins, come to one executor that is switched
\* on, replaced and switched off: never two, none after a stop, and none after
\* a start only when a subscription failed.
ImplementsSwitch == Switch!Spec

\* An engine has one fallback loop, apart from those whose join timed out.
OneLoopUnlessLate ==
    faults = 0 => \A e \in Engines : Cardinality({l \in Loops : loop[l].engine = e /\ ~loop[l].late}) <= 1

\* A stop returns, although it joins threads that may wait for its lock.
StopReturns == \A c \in Callers : caller[c] # "ready" ~> caller[c] = "ready"

\* Polling gives way to the WebSocket engine once the proxy stays up.
UpgradeHappens ==
    lock = None /\ last = "start" /\ Untold # {} /\ healthy
        ~> ~healthy \/ Running # {} \/ lock \in Callers \/ faults > 0

\* Orders of a running engine are polled while its data stays stale.
StaleDataIsPolled ==
    \A e \in Engines :
        engine[e].running /\ ~fresh
            ~> fresh \/ ~engine[e].running \/ faults > 0 \/ \E l \in Loops : loop[l].engine = e
===============================================================================
