------------------------- MODULE EngineLifecycleProofs -------------------------
(***************************************************************************)
(* Proofs about EngineLifecycle for any number of callers, threads, engines *)
(* and faults.                                                              *)
(*                                                                         *)
(* The globals name the only polling thread that was not told to stop and   *)
(* the only engine that runs, and the lock is held through every join: what *)
(* a stop or an upgrade has taken down cannot come up behind it.            *)
(***************************************************************************)
EXTENDS EngineLifecycle, FiniteSetTheorems, TLAPS

USE FaultsAssumption, NoneAssumption, ThreadsAssumption

NoPoller == \A p \in Pollers : poller[p] # "running"
NoEngine == \A e \in Engines : ~engine[e].running

\* A stop and an upgrade hold the lock until they have joined everything.
LockIsHeld ==
    /\ \A c \in Callers : caller[c] # "ready" <=> lock = c
    /\ \A w \in Watchers : watcher[w] = "join_poller" <=> lock = w

\* Whatever executes is what the globals name, and is one.
ExecutorIsKnown ==
    /\ \A p \in Pollers : poller[p] = "running" => ref.poller = p
    /\ \A e \in Engines : engine[e].running => ref.engine = e
    /\ NoPoller \/ NoEngine

\* What a stop has behind it.
StopUnderWay ==
    \A c \in Callers :
        /\ caller[c] \in {"fallback", "join_loop", "unsubscribe"}
             => ref.engine # None /\ engine[ref.engine].subs > 0
        /\ caller[c] \in {"fallback", "join_loop", "unsubscribe", "poller", "join_poller", "end"} => NoEngine
        /\ caller[c] \in {"join_poller", "end"} => NoPoller
        /\ caller[c] = "end" => ref.poller = None

\* An upgrade that joins the polling thread has told it to stop.
UpgradeUnderWay == lock \in Watchers => NoPoller

\* The polling thread of the globals polls, unless it is being joined.
PollerIsKnown ==
    \/ ref.poller = None
    \/ poller[ref.poller] = "running"
    \/ lock \in Watchers
    \/ \E c \in Callers : caller[c] = "join_poller"

RunningIsSubscribed == \A e \in Engines : engine[e].running => engine[e].subs > 0

StopIsFinal == last = "stop" => ref.poller = None /\ NoPoller /\ NoEngine

StartServes == last = "start" /\ faults = 0 /\ lock \notin Callers => ~NoPoller \/ ~NoEngine

Sound ==
    /\ LockIsHeld /\ ExecutorIsKnown /\ StopUnderWay /\ UpgradeUnderWay /\ PollerIsKnown
    /\ RunningIsSubscribed /\ StopIsFinal /\ StartServes

Inv == TypeOK /\ Sound

-----------------------------------------------------------------------------
(* Types.                                                                   *)

CallerPcs == {"ready", "join_watcher", "engine", "fallback", "join_loop",
              "unsubscribe", "poller", "join_poller", "end"}
EngineType == [running : BOOLEAN, falling : BOOLEAN, loop : Loops \cup {None}, subs : 0 .. (MaxFaults + 1)]
RefType == [poller : Pollers \cup {None}, engine : Engines \cup {None}, watcher : Watchers \cup {None}]
MonitorType == [engine : Engines \cup {None}, pc : {"watch", "start", "check", "join"}]
LoopType == [engine : Engines \cup {None}, late : BOOLEAN]

\* The parts of TypeOK by name.
LEMMA Types ==
    ASSUME TypeOK
    PROVE  /\ lock \in {None} \cup Callers \cup Watchers
           /\ caller \in [Callers -> CallerPcs]
           /\ ref \in RefType
           /\ poller \in [Pollers -> {"dead", "running", "told"}]
           /\ watcher \in [Watchers -> {"dead", "sleep", "lock", "join_poller"}]
           /\ engine \in [Engines -> EngineType]
           /\ monitor \in [Monitors -> MonitorType]
           /\ loop \in [Loops -> LoopType]
           /\ faults \in 0 .. MaxFaults
BY DEF TypeOK, CallerPcs, EngineType, RefType, MonitorType, LoopType

\* The fields of an engine.
LEMMA EngineFields ==
    ASSUME NEW e \in EngineType
    PROVE  /\ e.running \in BOOLEAN /\ e.falling \in BOOLEAN /\ e.loop \in Loops \cup {None}
           /\ e.subs \in 0 .. (MaxFaults + 1)
BY DEF EngineType

\* The globals from their values.
LEMMA RefsIs ==
    ASSUME NEW p \in Pollers \cup {None}, NEW e \in Engines \cup {None}, NEW w \in Watchers \cup {None}
    PROVE  /\ Refs(p, e, w) \in RefType
           /\ Refs(p, e, w).poller = p /\ Refs(p, e, w).engine = e /\ Refs(p, e, w).watcher = w
BY DEF Refs, RefType

\* Writing one of the globals.
LEMMA RefWrites ==
    ASSUME ref \in RefType
    PROVE  /\ ref.poller \in Pollers \cup {None} /\ ref.engine \in Engines \cup {None}
           /\ ref.watcher \in Watchers \cup {None}
           /\ \A e \in Engines \cup {None} :
                /\ [ref EXCEPT !.engine = e] \in RefType
                /\ [ref EXCEPT !.engine = e].poller = ref.poller
                /\ [ref EXCEPT !.engine = e].engine = e
           /\ [ref EXCEPT !.poller = None] \in RefType
           /\ [ref EXCEPT !.poller = None].poller = None
           /\ [ref EXCEPT !.poller = None].engine = ref.engine
           /\ [ref EXCEPT !.watcher = None] \in RefType
           /\ [ref EXCEPT !.watcher = None].poller = ref.poller
           /\ [ref EXCEPT !.watcher = None].engine = ref.engine
BY DEF RefType

\* What StartEngine does: engine e runs with one more subscription, or none
\* does and a fault is counted.
LEMMA StartEngineIs ==
    ASSUME TypeOK, NEW e \in Engines, StartEngine(e)
    PROVE  /\ engine' \in [Engines -> EngineType] /\ monitor' \in [Monitors -> MonitorType]
           /\ faults' \in 0 .. MaxFaults
           /\ ref.engine # None => e = ref.engine
           /\ \A f \in Engines \ {e} : engine'[f] = engine[f]
           /\ \/ engine'[e].running /\ engine'[e].subs > 0 /\ faults' = faults
              \/ faults' > faults /\ engine'[e].running = (ref.engine # None /\ engine[e].running)
                 /\ (ref.engine # None => engine'[e].subs = engine[e].subs)
<1> DEFINE was == IF ref.engine = None THEN NewEngine ELSE engine[e]
<1>1. /\ engine \in [Engines -> EngineType] /\ monitor \in [Monitors -> MonitorType]
      /\ faults \in 0 .. MaxFaults
  BY Types
<1>2. NewEngine \in EngineType /\ NewEngine.running = FALSE
  <2>1. 0 \in 0 .. (MaxFaults + 1)  OBVIOUS
  <2> QED BY <2>1 DEF NewEngine, Engine, EngineType
<1>3. was \in EngineType /\ was.running = (ref.engine # None /\ engine[e].running)
  <2>1. CASE ref.engine = None  BY <1>2, <2>1
  <2>2. CASE ref.engine # None
    <3>1. engine[e].running \in BOOLEAN  BY <1>1, EngineFields
    <3> QED BY <1>1, <2>2, <3>1
  <2> QED BY <2>1, <2>2
<1>4. ref.engine # None => was = engine[e]  OBVIOUS
<1>5. /\ was.subs <= MaxFaults
      /\ \/ \E m \in Monitors :
              /\ monitor' = [monitor EXCEPT ![m] = [engine |-> e, pc |-> "watch"]]
              /\ engine' = [engine EXCEPT ![e] = Engine(TRUE, was.falling, was.loop, was.subs + 1)]
              /\ UNCHANGED faults
         \/ /\ engine' = [engine EXCEPT ![e] = was] /\ faults < MaxFaults /\ Counted
            /\ UNCHANGED monitor
  BY DEF StartEngine
<1>6. ref.engine # None => e = ref.engine  BY DEF StartEngine
<1>7. /\ was.falling \in BOOLEAN /\ was.loop \in Loops \cup {None} /\ was.subs \in 0 .. (MaxFaults + 1)
  BY <1>3, EngineFields
<1> HIDE DEF was
<1>8. CASE \E m \in Monitors :
              /\ monitor' = [monitor EXCEPT ![m] = [engine |-> e, pc |-> "watch"]]
              /\ engine' = [engine EXCEPT ![e] = Engine(TRUE, was.falling, was.loop, was.subs + 1)]
              /\ UNCHANGED faults
  <2> DEFINE new == Engine(TRUE, was.falling, was.loop, was.subs + 1)
  <2>1. was.subs + 1 \in 0 .. (MaxFaults + 1) /\ was.subs + 1 > 0  BY <1>5, <1>7
  <2>2. new \in EngineType /\ new.running = TRUE /\ new.subs = was.subs + 1
    BY <1>7, <2>1 DEF Engine, EngineType
  <2>3. engine' = [engine EXCEPT ![e] = new]  BY <1>8
  <2>4. monitor' \in [Monitors -> MonitorType]  BY <1>1, <1>8 DEF MonitorType
  <2> HIDE DEF new
  <2>5. /\ engine' \in [Engines -> EngineType] /\ engine'[e] = new
        /\ \A f \in Engines \ {e} : engine'[f] = engine[f]
    BY <1>1, <2>2, <2>3
  <2> QED BY <1>1, <1>6, <1>8, <2>1, <2>2, <2>4, <2>5
<1>9. CASE engine' = [engine EXCEPT ![e] = was] /\ faults < MaxFaults /\ Counted /\ UNCHANGED monitor
  <2>1. /\ engine' \in [Engines -> EngineType] /\ engine'[e] = was
        /\ \A f \in Engines \ {e} : engine'[f] = engine[f]
    BY <1>1, <1>3, <1>9
  <2>2. faults' \in 0 .. MaxFaults /\ faults' > faults  BY <1>1, <1>9 DEF Counted
  <2>3. engine'[e].running = (ref.engine # None /\ engine[e].running)  BY <1>3, <2>1
  <2>4. ref.engine # None => engine'[e].subs = engine[e].subs  BY <1>4, <2>1
  <2> QED BY <1>1, <1>6, <1>9, <2>1, <2>2, <2>3, <2>4
<1> QED BY <1>5, <1>8, <1>9
\* TypeOK after a step, from its parts.
LEMMA TypeParts ==
    ASSUME /\ lock' \in {None} \cup Callers \cup Watchers
           /\ caller' \in [Callers -> CallerPcs]
           /\ last' \in {"stop", "start"}
           /\ ref' \in RefType
           /\ stopEvent' \in BOOLEAN /\ healthy' \in BOOLEAN /\ fresh' \in BOOLEAN
           /\ poller' \in [Pollers -> {"dead", "running", "told"}]
           /\ watcher' \in [Watchers -> {"dead", "sleep", "lock", "join_poller"}]
           /\ engine' \in [Engines -> EngineType]
           /\ monitor' \in [Monitors -> MonitorType]
           /\ loop' \in [Loops -> LoopType]
           /\ faults' \in 0 .. MaxFaults
    PROVE  TypeOK'
BY DEF TypeOK, CallerPcs, EngineType, RefType, MonitorType, LoopType

\* Forgetting a loop keeps the types.
LEMMA ForgetType ==
    ASSUME TypeOK, NEW e \in Engines, engine[e].loop # None, Forget(e)
    PROVE  engine' \in [Engines -> EngineType] /\ loop' \in [Loops -> LoopType]
<1>1. engine \in [Engines -> EngineType] /\ loop \in [Loops -> LoopType]  BY Types
<1>2. PICK k \in Loops : k = engine[e].loop  BY <1>1 DEF EngineType
<1>3. engine' \in [Engines -> EngineType]  BY <1>1 DEF Forget, EngineType
<1>4. PICK late \in BOOLEAN : late <=> (loop[k].late \/ loop[k].engine = e)  OBVIOUS
<1>5. \A b \in BOOLEAN : [loop EXCEPT ![k].late = b] \in [Loops -> LoopType]
  BY <1>1, <1>2 DEF LoopType
<1>6. (loop[k].late \/ loop[k].engine = e) \in BOOLEAN  OBVIOUS
<1>7. loop' = [loop EXCEPT ![k].late = loop[k].late \/ loop[k].engine = e]  BY <1>2 DEF Forget
<1> QED BY <1>3, <1>5, <1>6, <1>7

\* Each step of a stop keeps the types.
LEMMA StoppingType ==
    ASSUME Inv, NEW c \in Callers, BeginStop(c) \/ Stopping(c)
    PROVE  TypeOK'
<1> USE Types DEF Inv
<1>1. ASSUME NEW pc \in CallerPcs, Goto(c, pc) PROVE caller' \in [Callers -> CallerPcs]
  BY <1>1 DEF Goto
<1>2. caller' \in [Callers -> CallerPcs]
  <2>1. \E pc \in CallerPcs : Goto(c, pc)
    BY DEF BeginStop, Stopping, JoinWatcher, StopEngine, StopFallback, JoinLoop, Unsubscribe,
           StopPoller, JoinPoller, EndStop, CallerPcs
  <2> QED BY <1>1, <2>1
<1>3. CASE BeginStop(c)  BY <1>2, <1>3, TypeParts DEF BeginStop, TypeOK, env
<1>4. CASE JoinWatcher(c)  BY <1>2, <1>4, TypeParts DEF JoinWatcher, TypeOK, env
<1>5. CASE StopEngine(c)
  <2>1. CASE EngineRunning
    <3> DEFINE e == engine[ref.engine]
    <3>1. ref.engine \in Engines  BY <2>1, RefWrites DEF EngineRunning
    <3>2. /\ e.running \in BOOLEAN /\ e.falling \in BOOLEAN /\ e.loop \in Loops \cup {None}
          /\ e.subs \in 0 .. (MaxFaults + 1)
      BY <3>1, EngineFields
    <3>3. Engine(FALSE, FALSE, e.loop, e.subs) \in EngineType  BY <3>2 DEF Engine, EngineType
    <3>4. engine' = [engine EXCEPT ![ref.engine] = Engine(FALSE, FALSE, e.loop, e.subs)]
      BY <1>5, <2>1 DEF StopEngine
    <3>5. engine' \in [Engines -> EngineType]  BY <3>1, <3>3, <3>4
    <3>6. ref' \in RefType  BY <1>5, <2>1, RefWrites DEF StopEngine
    <3> QED BY <1>2, <1>5, <3>5, <3>6, TypeParts DEF StopEngine, TypeOK, env
  <2>2. CASE ~EngineRunning
    <3>1. ref' \in RefType  BY <1>5, <2>2, RefWrites, RefsIs DEF StopEngine
    <3> QED BY <1>2, <1>5, <2>2, <3>1, TypeParts DEF StopEngine, TypeOK, env
  <2> QED BY <2>1, <2>2
<1>6. CASE StopFallback(c)  BY <1>2, <1>6, TypeParts DEF StopFallback, TypeOK, env
<1>7. CASE JoinLoop(c)
  <2>1. ref.engine \in Engines  BY <1>7, RefWrites DEF JoinLoop, Sound, StopUnderWay
  <2>2. CASE engine[ref.engine].loop # None /\ Forget(ref.engine) /\ UNCHANGED faults
    <3>1. engine' \in [Engines -> EngineType] /\ loop' \in [Loops -> LoopType]  BY <2>1, <2>2, ForgetType
    <3> QED BY <1>2, <1>7, <2>2, <3>1, TypeParts DEF JoinLoop, TypeOK, env
  <2>3. CASE Counted /\ UNCHANGED <<engine, loop>>
    <3>1. faults' \in 0 .. MaxFaults  BY <2>3 DEF Counted
    <3> QED BY <1>2, <1>7, <2>3, <3>1, TypeParts DEF JoinLoop, TypeOK, env
  <2> QED BY <1>7, <2>2, <2>3 DEF JoinLoop
<1>8. CASE Unsubscribe(c)
  <2>1. ref.engine \in Engines /\ engine[ref.engine].subs > 0
    BY <1>8, RefWrites DEF Unsubscribe, Sound, StopUnderWay
  <2>2. engine[ref.engine] \in EngineType  BY <2>1
  <2>3. engine[ref.engine].subs - 1 \in 0 .. (MaxFaults + 1)  BY <2>1, <2>2, EngineFields
  <2>4. [engine[ref.engine] EXCEPT !.subs = @ - 1] \in EngineType  BY <2>2, <2>3 DEF EngineType
  <2>5. engine' = [engine EXCEPT ![ref.engine] = [engine[ref.engine] EXCEPT !.subs = @ - 1]]
    BY <1>8, <2>1 DEF Unsubscribe
  <2>6. engine' \in [Engines -> EngineType]  BY <2>1, <2>4, <2>5
  <2>7. ref' \in RefType  BY <1>8, RefWrites DEF Unsubscribe
  <2> QED BY <1>2, <1>8, <2>6, <2>7, TypeParts DEF Unsubscribe, TypeOK, env
<1>9. CASE StopPoller(c)
  <2>1. poller' \in [Pollers -> {"dead", "running", "told"}]
    BY <1>9, RefWrites DEF StopPoller, PollerAlive
  <2> QED BY <1>2, <1>9, <2>1, TypeParts DEF StopPoller, TypeOK, env
<1>10. CASE JoinPoller(c)
  <2>1. ref' \in RefType  BY <1>10, RefWrites DEF JoinPoller
  <2> QED BY <1>2, <1>10, <2>1, TypeParts DEF JoinPoller, TypeOK, env
<1>11. CASE EndStop(c)  BY <1>2, <1>11, TypeParts DEF EndStop, TypeOK, env
<1> QED BY <1>3, <1>4, <1>5, <1>6, <1>7, <1>8, <1>9, <1>10, <1>11 DEF Stopping

\* So does a start.
LEMMA StartType == ASSUME TypeOK, NEW c \in Callers, Start(c) PROVE TypeOK'
<1> USE Types
<1>1. CASE AlreadyRunning /\ UNCHANGED <<ref, stopEvent, poller, watcher, engine, monitor, faults>>
  BY <1>1, TypeParts DEF Start, TypeOK, env
<1>2. ASSUME NEW e \in Engines, StartEngine(e), ref' = [ref EXCEPT !.engine = e],
             UNCHANGED <<stopEvent, poller, watcher>>
      PROVE  TypeOK'
  <2>1. ref' \in RefType  BY <1>2, RefWrites
  <2>2. engine' \in [Engines -> EngineType] /\ monitor' \in [Monitors -> MonitorType] /\ faults' \in 0 .. MaxFaults
    BY <1>2, StartEngineIs
  <2> QED BY <1>2, <2>1, <2>2, TypeParts DEF Start, TypeOK, env
<1>3. ASSUME NEW p \in Pollers, NEW w \in Watchers, StartPoller(p), StartWatcher(w), ref' = Refs(p, ref.engine, w),
             UNCHANGED <<engine, monitor, faults>>
      PROVE  TypeOK'
  <2>1. ref' \in RefType  BY <1>3, RefWrites, RefsIs
  <2>2. poller' \in [Pollers -> {"dead", "running", "told"}]  BY <1>3 DEF StartPoller
  <2>3. watcher' \in [Watchers -> {"dead", "sleep", "lock", "join_poller"}] /\ stopEvent' \in BOOLEAN
    BY <1>3 DEF StartWatcher, TypeOK
  <2> QED BY <1>3, <2>1, <2>2, <2>3, TypeParts DEF Start, TypeOK, env
<1> QED BY <1>1, <1>2, <1>3 DEF Start

\* And the watcher.
LEMMA WatchingType == ASSUME TypeOK, NEW w \in Watchers, Watching(w) PROVE TypeOK'
<1> USE Types
<1>1. CASE Wake(w)
  <2>1. watcher' \in [Watchers -> {"dead", "sleep", "lock", "join_poller"}]  BY <1>1 DEF Wake
  <2> QED BY <1>1, <2>1, TypeParts DEF Wake, TypeOK, env
<1>2. CASE Upgrade(w)
  <2>1. PICK e \in Engines : StartEngine(e) /\ ref' = [ref EXCEPT !.engine = e]  BY <1>2 DEF Upgrade
  <2>2. ref' \in RefType  BY <2>1, RefWrites
  <2>3. engine' \in [Engines -> EngineType] /\ monitor' \in [Monitors -> MonitorType] /\ faults' \in 0 .. MaxFaults
    BY <2>1, StartEngineIs
  <2>4. poller' \in [Pollers -> {"dead", "running", "told"}]  BY <1>2 DEF Upgrade
  <2>5. watcher' \in [Watchers -> {"dead", "sleep", "lock", "join_poller"}]  BY <1>2 DEF Upgrade
  <2> QED BY <1>2, <2>2, <2>3, <2>4, <2>5, TypeParts DEF Upgrade, TypeOK, env
<1>3. CASE NothingToUpgrade(w)
  <2>1. watcher' \in [Watchers -> {"dead", "sleep", "lock", "join_poller"}]  BY <1>3 DEF NothingToUpgrade
  <2> QED BY <1>3, <2>1, TypeParts DEF NothingToUpgrade, TypeOK, env
<1>4. CASE EndUpgrade(w)
  <2>1. watcher' \in [Watchers -> {"dead", "sleep", "lock", "join_poller"}]  BY <1>4 DEF EndUpgrade
  <2>2. ref' \in RefType  BY <1>4, RefWrites DEF EndUpgrade
  <2> QED BY <1>4, <2>1, <2>2, TypeParts DEF EndUpgrade, TypeOK, env
<1> QED BY <1>1, <1>2, <1>3, <1>4 DEF Watching
\* A monitor and the loops change the fallback of an engine, not whether it
\* runs or how often it is subscribed.
SameEngines == \A e \in Engines : engine'[e].running = engine[e].running /\ engine'[e].subs = engine[e].subs

LEMMA ForgetKeeps == ASSUME TypeOK, NEW e \in Engines, Forget(e) PROVE SameEngines
<1>1. engine \in [Engines -> EngineType]  BY Types
<1> QED BY <1>1 DEF Forget, SameEngines, EngineType

LEMMA MonitorKeeps ==
    ASSUME TypeOK, NEW m \in Monitors, MonitorThread(m)
    PROVE  TypeOK' /\ SameEngines /\ Quiet
<1>1. /\ monitor \in [Monitors -> MonitorType] /\ engine \in [Engines -> EngineType]
      /\ loop \in [Loops -> LoopType]
  BY Types
<1> DEFINE e == monitor[m].engine
<1>2. e \in Engines
  BY <1>1 DEF MonitorThread, Look, StartFallback, CheckFallback, JoinFallback, Monitoring, MonitorType
<1>3. Quiet  BY DEF MonitorThread, Look, StartFallback, CheckFallback, JoinFallback
<1>4. ASSUME NEW pc \in {"watch", "start", "check", "join"}, At(m, pc) PROVE monitor' \in [Monitors -> MonitorType]
  BY <1>1, <1>4 DEF At, MonitorType
<1>5. monitor' \in [Monitors -> MonitorType]
  <2>1. Resting \in MonitorType  BY DEF Resting, MonitorType
  <2>2. CASE monitor' = [monitor EXCEPT ![m] = Resting]  BY <1>1, <2>1, <2>2
  <2>3. monitor' = [monitor EXCEPT ![m] = Resting] \/ \E pc \in {"watch", "start", "check", "join"} : At(m, pc)
    BY DEF MonitorThread, Look, StartFallback, CheckFallback, JoinFallback
  <2> QED BY <1>4, <2>2, <2>3
<1>6. engine' \in [Engines -> EngineType] /\ loop' \in [Loops -> LoopType] /\ SameEngines
  <2>1. CASE UNCHANGED <<engine, loop>>  BY <1>1, <2>1 DEF SameEngines
  <2>2. CASE engine' = [engine EXCEPT ![e].falling = FALSE] /\ UNCHANGED loop
    <3> DEFINE new == [engine[e] EXCEPT !.falling = FALSE]
    <3>a. engine[e] \in EngineType  BY <1>1, <1>2
    <3>1. new \in EngineType /\ new.running = engine[e].running /\ new.subs = engine[e].subs
      BY <3>a DEF EngineType
    <3>2. engine' = [engine EXCEPT ![e] = new]  BY <1>2, <2>2
    <3> HIDE DEF new
    <3> QED BY <1>1, <1>2, <2>2, <3>1, <3>2 DEF SameEngines
  <2>3. ASSUME NEW l \in Loops, loop' = [loop EXCEPT ![l] = [engine |-> e, late |-> FALSE]],
               engine' = [engine EXCEPT ![e] = Engine(@.running, TRUE, l, @.subs)]
        PROVE  engine' \in [Engines -> EngineType] /\ loop' \in [Loops -> LoopType] /\ SameEngines
    <3> DEFINE new == Engine(engine[e].running, TRUE, l, engine[e].subs)
    <3>1. engine[e] \in EngineType  BY <1>1, <1>2
    <3>2. /\ new \in EngineType /\ new.running = engine[e].running /\ new.subs = engine[e].subs
      BY <3>1 DEF Engine, EngineType
    <3>3. engine' = [engine EXCEPT ![e] = new]  BY <1>2, <2>3
    <3>4. loop' \in [Loops -> LoopType]  BY <1>1, <1>2, <2>3 DEF LoopType
    <3> HIDE DEF new
    <3> QED BY <1>1, <1>2, <3>2, <3>3, <3>4 DEF SameEngines
  <2>4. CASE engine[e].loop # None /\ Forget(e)  BY <1>2, <2>4, ForgetType, ForgetKeeps
  <2>5. \/ UNCHANGED <<engine, loop>>
        \/ engine' = [engine EXCEPT ![e].falling = FALSE] /\ UNCHANGED loop
        \/ \E l \in Loops : /\ loop' = [loop EXCEPT ![l] = [engine |-> e, late |-> FALSE]]
                             /\ engine' = [engine EXCEPT ![e] = Engine(@.running, TRUE, l, @.subs)]
        \/ engine[e].loop # None /\ Forget(e)
    BY DEF MonitorThread, Look, StartFallback, CheckFallback, JoinFallback
  <2> QED BY <2>1, <2>2, <2>3, <2>4, <2>5
<1> QED BY <1>3, <1>5, <1>6, Types, TypeParts DEF Quiet, env, TypeOK

LEMMA LoopKeeps == ASSUME TypeOK, NEW l \in Loops, LoopEnds(l) PROVE TypeOK' /\ SameEngines /\ Quiet
<1>1. loop' \in [Loops -> LoopType]
  <2>1. Idle \in LoopType  BY DEF Idle, LoopType
  <2> QED BY <2>1, Types DEF LoopEnds
<1> QED BY <1>1, Types, TypeParts DEF LoopEnds, SameEngines, Quiet, env, TypeOK

-----------------------------------------------------------------------------
(* Steps that leave the threads that execute alone.                         *)

\* The monitors, the loops and the environment.
LEMMA QuietSound ==
    ASSUME Inv, SameEngines, UNCHANGED <<lock, caller, last, ref, poller, watcher, faults>>
    PROVE  Sound'
<1>1. NoPoller' <=> NoPoller  BY DEF NoPoller
<1>2. NoEngine' <=> NoEngine  BY DEF NoEngine, SameEngines
<1>3. LockIsHeld' /\ UpgradeUnderWay' /\ PollerIsKnown' /\ StopIsFinal' /\ StartServes'
  BY <1>1, <1>2 DEF Inv, Sound, LockIsHeld, UpgradeUnderWay, PollerIsKnown, StopIsFinal, StartServes
<1>4. ExecutorIsKnown' /\ RunningIsSubscribed'
  BY <1>1, <1>2 DEF Inv, Sound, ExecutorIsKnown, RunningIsSubscribed, SameEngines
<1>5. StopUnderWay'
  <2>1. ref.engine # None => engine'[ref.engine].subs = engine[ref.engine].subs
    BY Types, RefWrites DEF Inv, SameEngines
  <2> QED BY <1>1, <1>2, <2>1 DEF Inv, Sound, StopUnderWay
<1> QED BY <1>3, <1>4, <1>5 DEF Sound

\* A polling thread that was told ends.
LEMMA PollerEndsSound == ASSUME Inv, NEW p \in Pollers, PollerEnds(p) PROVE TypeOK' /\ Sound'
<1>1. poller' = [poller EXCEPT ![p] = "dead"] /\ poller[p] = "told"  BY DEF PollerEnds
<1>2. UNCHANGED <<lock, caller, last, ref, stopEvent, watcher, engine, monitor, loop, healthy, fresh, faults>>
  BY DEF PollerEnds, env
<1>3. poller \in [Pollers -> {"dead", "running", "told"}]  BY Types DEF Inv
<1>4. TypeOK'  BY <1>1, <1>2, <1>3, Types, TypeParts DEF Inv, TypeOK
<1>5. \A q \in Pollers : poller'[q] = "running" <=> poller[q] = "running"  BY <1>1, <1>3
<1>6. (NoPoller' <=> NoPoller) /\ (NoEngine' <=> NoEngine)  BY <1>2, <1>5 DEF NoPoller, NoEngine
<1>7. LockIsHeld' /\ StopUnderWay' /\ UpgradeUnderWay' /\ RunningIsSubscribed' /\ StopIsFinal' /\ StartServes'
  BY <1>2, <1>6
     DEF Inv, Sound, LockIsHeld, StopUnderWay, UpgradeUnderWay, RunningIsSubscribed, StopIsFinal, StartServes
<1>8. ExecutorIsKnown'  BY <1>2, <1>5, <1>6 DEF Inv, Sound, ExecutorIsKnown
<1>9. PollerIsKnown'
  <2>1. ref.poller # None => ref.poller \in Pollers  BY Types, RefWrites DEF Inv
  <2> QED BY <1>2, <1>5, <2>1 DEF Inv, Sound, PollerIsKnown
<1> QED BY <1>4, <1>7, <1>8, <1>9 DEF Sound
-----------------------------------------------------------------------------
(* The steps of a stop.                                                     *)

\* A stop that has begun has the lock, and is the only one.
LEMMA Holder ==
    ASSUME Inv, NEW c \in Callers, caller[c] # "ready"
    PROVE  /\ lock = c /\ lock # None /\ lock \notin Watchers
           /\ \A d \in Callers : d # c => caller[d] = "ready"
           /\ \A w \in Watchers : watcher[w] # "join_poller"
BY DEF Inv, Sound, LockIsHeld

\* A stop goes on: it still has the lock.
LEMMA StopGoesOn ==
    ASSUME Inv, NEW c \in Callers, caller[c] # "ready", NEW pc \in CallerPcs \ {"ready"}, Goto(c, pc),
           UNCHANGED <<lock, last, watcher>>
    PROVE  /\ LockIsHeld' /\ UpgradeUnderWay' /\ StartServes'
           /\ caller'[c] = pc /\ \A d \in Callers : d # c => caller'[d] = "ready"
<1>1. /\ lock = c /\ lock # None /\ lock \notin Watchers
      /\ \A d \in Callers : d # c => caller[d] = "ready"
      /\ \A w \in Watchers : watcher[w] # "join_poller"
  BY Holder
<1>2. caller'[c] = pc /\ \A d \in Callers : d # c => caller'[d] = "ready"
  BY <1>1, Types DEF Goto, Inv
<1>3. LockIsHeld'  BY <1>1, <1>2 DEF LockIsHeld
<1> QED BY <1>1, <1>2, <1>3 DEF UpgradeUnderWay, StartServes

\* What is left to show for such a step.
LEMMA StopStep ==
    ASSUME Inv, NEW c \in Callers, caller[c] # "ready", NEW pc \in CallerPcs \ {"ready"}, Goto(c, pc),
           UNCHANGED <<lock, last, watcher>>,
           ExecutorIsKnown', PollerIsKnown', RunningIsSubscribed', StopIsFinal',
           pc \in {"fallback", "join_loop", "unsubscribe"} => ref'.engine # None /\ engine'[ref'.engine].subs > 0,
           pc \in {"fallback", "join_loop", "unsubscribe", "poller", "join_poller", "end"} => NoEngine',
           pc \in {"join_poller", "end"} => NoPoller',
           pc = "end" => ref'.poller = None
    PROVE  Sound'
<1>1. /\ LockIsHeld' /\ UpgradeUnderWay' /\ StartServes'
      /\ caller'[c] = pc /\ \A d \in Callers : d # c => caller'[d] = "ready"
  BY StopGoesOn
<1>2. StopUnderWay'  BY <1>1 DEF StopUnderWay
<1> QED BY <1>1, <1>2 DEF Sound

\* Steps that only move on.
LEMMA StopMoves ==
    ASSUME Inv, NEW c \in Callers, caller[c] \notin {"ready", "join_poller"},
           NEW pc \in CallerPcs \ {"ready"}, Goto(c, pc),
           UNCHANGED <<lock, last, ref, watcher, poller>>, SameEngines,
           pc \in {"fallback", "join_loop", "unsubscribe"} => caller[c] \in {"fallback", "join_loop"},
           pc = "poller" => caller[c] = "join_loop",
           pc \notin {"join_poller", "end"}
    PROVE  Sound'
<1>1. (NoPoller' <=> NoPoller) /\ (NoEngine' <=> NoEngine)  BY DEF NoPoller, NoEngine, SameEngines
<1>2. ExecutorIsKnown' /\ RunningIsSubscribed' /\ StopIsFinal'
  BY <1>1 DEF Inv, Sound, ExecutorIsKnown, RunningIsSubscribed, StopIsFinal, SameEngines
<1>3. PollerIsKnown'
  <2>1. ref.poller = None \/ poller[ref.poller] = "running"
    BY Holder DEF Inv, Sound, PollerIsKnown
  <2> QED BY <2>1 DEF PollerIsKnown
<1>4. caller[c] \in {"fallback", "join_loop"} => NoEngine /\ ref.engine # None /\ engine[ref.engine].subs > 0
  BY DEF Inv, Sound, StopUnderWay
<1>5. ref.engine # None => engine'[ref.engine].subs = engine[ref.engine].subs
  BY Types, RefWrites DEF Inv, SameEngines
<1> QED BY <1>1, <1>2, <1>3, <1>4, <1>5, StopStep

LEMMA StopEngineSound == ASSUME Inv, NEW c \in Callers, StopEngine(c) PROVE Sound'
<1>1. /\ caller[c] = "engine" /\ UNCHANGED <<lock, last, poller, watcher>>  BY DEF StopEngine
<1>2. engine \in [Engines -> EngineType] /\ ref \in RefType  BY Types DEF Inv
<1>3. ref.poller = None \/ poller[ref.poller] = "running"
  BY <1>1, Holder DEF Inv, Sound, PollerIsKnown
<1>4. CASE EngineRunning
  <2> DEFINE e == engine[ref.engine]
             new == Engine(FALSE, FALSE, e.loop, e.subs)
  <2>1. ref.engine \in Engines /\ e.running  BY <1>2, <1>4, RefWrites DEF EngineRunning
  <2>2. new.running = FALSE /\ new.subs = e.subs  BY DEF Engine
  <2>3. engine' = [engine EXCEPT ![ref.engine] = new]  BY <1>4 DEF StopEngine
  <2>4. ref'.poller = ref.poller /\ ref'.engine = ref.engine  BY <1>2, <1>4, RefWrites DEF StopEngine
  <2>5. e.subs > 0  BY <2>1 DEF Inv, Sound, RunningIsSubscribed
  <2> HIDE DEF new
  <2>6. engine'[ref.engine] = new /\ \A f \in Engines \ {ref.engine} : engine'[f] = engine[f]
    BY <1>2, <2>1, <2>3
  <2>7. NoEngine'  BY <2>2, <2>6 DEF Inv, Sound, ExecutorIsKnown, NoEngine
  <2>8. ExecutorIsKnown'  BY <1>1, <2>4, <2>7 DEF Inv, Sound, ExecutorIsKnown, NoPoller, NoEngine
  <2>9. RunningIsSubscribed'  BY <2>7 DEF RunningIsSubscribed, NoEngine
  <2>10. StopIsFinal'  BY <1>1, <2>4, <2>7 DEF Inv, Sound, StopIsFinal, NoPoller
  <2>11. PollerIsKnown'  BY <1>1, <1>3, <2>4 DEF PollerIsKnown
  <2>12. Goto(c, "fallback") /\ "fallback" \in CallerPcs \ {"ready"}  BY <1>4 DEF StopEngine, CallerPcs
  <2> QED BY <1>1, <1>2, <2>1, <2>2, <2>4, <2>5, <2>6, <2>7, <2>8, <2>9, <2>10, <2>11, <2>12, StopStep
<1>5. CASE ~EngineRunning
  <2>1. engine' = engine /\ ref' = Refs(ref.poller, None, None)  BY <1>5 DEF StopEngine
  <2>2. ref'.poller = ref.poller  BY <1>2, <2>1, RefWrites, RefsIs
  <2>3. NoEngine
    <3>1. ASSUME NEW e \in Engines, engine[e].running PROVE FALSE
      <4>1. ref.engine = e  BY <3>1 DEF Inv, Sound, ExecutorIsKnown
      <4> QED BY <1>5, <3>1, <4>1 DEF EngineRunning
    <3> QED BY <3>1 DEF NoEngine
  <2>4. NoEngine'  BY <2>1, <2>3 DEF NoEngine
  <2>5. ExecutorIsKnown'  BY <1>1, <2>2, <2>4 DEF Inv, Sound, ExecutorIsKnown, NoPoller, NoEngine
  <2>6. RunningIsSubscribed'  BY <2>4 DEF RunningIsSubscribed, NoEngine
  <2>7. StopIsFinal'  BY <1>1, <2>2, <2>4 DEF Inv, Sound, StopIsFinal, NoPoller
  <2>8. PollerIsKnown'  BY <1>1, <1>3, <2>2 DEF PollerIsKnown
  <2>9. Goto(c, "poller") /\ "poller" \in CallerPcs \ {"ready"}  BY <1>5 DEF StopEngine, CallerPcs
  <2> QED BY <1>1, <2>4, <2>5, <2>6, <2>7, <2>8, <2>9, StopStep
<1> QED BY <1>4, <1>5
LEMMA JoinLoopSound == ASSUME Inv, NEW c \in Callers, JoinLoop(c) PROVE Sound'
<1>1. caller[c] = "join_loop" /\ UNCHANGED <<lock, last, ref, poller, watcher>>  BY DEF JoinLoop
<1>2. ref.engine \in Engines  BY <1>1, Types, RefWrites DEF Inv, Sound, StopUnderWay
<1>3. CASE Forget(ref.engine) /\ Goto(c, "unsubscribe")
  <2>1. SameEngines  BY <1>2, <1>3, ForgetKeeps DEF Inv
  <2> QED BY <1>1, <1>3, <2>1, StopMoves DEF CallerPcs
<1>4. CASE Goto(c, "poller") /\ UNCHANGED engine
  <2>1. SameEngines  BY <1>4 DEF SameEngines
  <2> QED BY <1>1, <1>4, <2>1, StopMoves DEF CallerPcs
<1> QED BY <1>3, <1>4 DEF JoinLoop

LEMMA UnsubscribeSound == ASSUME Inv, NEW c \in Callers, Unsubscribe(c) PROVE Sound'
<1>1. caller[c] = "unsubscribe" /\ Goto(c, "poller") /\ UNCHANGED <<lock, last, poller, watcher>>
  BY DEF Unsubscribe
<1>2. engine \in [Engines -> EngineType] /\ ref \in RefType  BY Types DEF Inv
<1>3. ref'.poller = ref.poller  BY <1>2, RefWrites DEF Unsubscribe
<1>4. NoEngine /\ ref.engine \in Engines  BY <1>1, <1>2, RefWrites DEF Inv, Sound, StopUnderWay
<1>5. NoEngine'
  <2>1. engine' = [engine EXCEPT ![ref.engine].subs = @ - 1]  BY DEF Unsubscribe
  <2>2. \A e \in Engines : engine'[e].running = engine[e].running  BY <1>2, <1>4, <2>1 DEF EngineType
  <2> QED BY <1>4, <2>2 DEF NoEngine
<1>6. ExecutorIsKnown'  BY <1>1, <1>3, <1>5 DEF Inv, Sound, ExecutorIsKnown, NoPoller, NoEngine
<1>7. RunningIsSubscribed'  BY <1>5 DEF RunningIsSubscribed, NoEngine
<1>8. StopIsFinal'  BY <1>1, <1>3, <1>5 DEF Inv, Sound, StopIsFinal, NoPoller
<1>9. PollerIsKnown'
  <2>1. ref.poller = None \/ poller[ref.poller] = "running"
    BY <1>1, Holder DEF Inv, Sound, PollerIsKnown
  <2> QED BY <1>1, <1>3, <2>1 DEF PollerIsKnown
<1> QED BY <1>1, <1>5, <1>6, <1>7, <1>8, <1>9, StopStep DEF CallerPcs

LEMMA StopPollerSound == ASSUME Inv, NEW c \in Callers, StopPoller(c) PROVE Sound'
<1>1. caller[c] = "poller" /\ UNCHANGED <<lock, last, ref, engine, watcher>>  BY DEF StopPoller
<1>2. poller \in [Pollers -> {"dead", "running", "told"}] /\ ref.poller \in Pollers \cup {None}
  BY Types, RefWrites DEF Inv
<1>3. NoEngine /\ NoEngine'  BY <1>1 DEF Inv, Sound, StopUnderWay, NoEngine
<1>4. RunningIsSubscribed'  BY <1>3 DEF RunningIsSubscribed, NoEngine
<1>5. ref.poller = None \/ poller[ref.poller] = "running"
  BY <1>1, Holder DEF Inv, Sound, PollerIsKnown
<1>6. CASE PollerAlive
  <2>1. ref.poller \in Pollers /\ poller' = [poller EXCEPT ![ref.poller] = "told"] /\ Goto(c, "join_poller")
    BY <1>2, <1>6 DEF StopPoller, PollerAlive
  <2>2. NoPoller'  BY <1>1, <1>2, <2>1 DEF Inv, Sound, ExecutorIsKnown, NoPoller
  <2>3. ExecutorIsKnown'  BY <1>3, <2>2 DEF ExecutorIsKnown, NoPoller, NoEngine
  <2>4. StopIsFinal'  BY <1>1, <1>3, <2>2 DEF Inv, Sound, StopIsFinal
  <2>5. PollerIsKnown'
    <3>1. caller'[c] = "join_poller"  BY <2>1, Types DEF Inv, Goto
    <3> QED BY <3>1 DEF PollerIsKnown
  <2> QED BY <1>1, <1>3, <1>4, <2>1, <2>2, <2>3, <2>4, <2>5, StopStep DEF CallerPcs
<1>7. CASE ~PollerAlive
  <2>1. poller' = poller /\ Goto(c, "end")  BY <1>7 DEF StopPoller
  <2>2. ref.poller = None  BY <1>5, <1>7 DEF PollerAlive
  <2>3. NoPoller  BY <2>2 DEF Inv, Sound, ExecutorIsKnown, NoPoller
  <2>4. NoPoller'  BY <2>1, <2>3 DEF NoPoller
  <2>5. ExecutorIsKnown'  BY <1>3, <2>4 DEF ExecutorIsKnown, NoPoller, NoEngine
  <2>6. StopIsFinal' /\ PollerIsKnown'  BY <1>1, <1>3, <2>2, <2>4 DEF StopIsFinal, PollerIsKnown
  <2> QED BY <1>1, <1>3, <1>4, <2>1, <2>2, <2>4, <2>5, <2>6, StopStep DEF CallerPcs
<1> QED BY <1>6, <1>7

LEMMA JoinPollerSound == ASSUME Inv, NEW c \in Callers, JoinPoller(c) PROVE Sound'
<1>1. caller[c] = "join_poller" /\ Goto(c, "end") /\ UNCHANGED <<lock, last, poller, engine, watcher>>
  BY DEF JoinPoller
<1>2. ref'.poller = None  BY Types, RefWrites DEF JoinPoller, Inv
<1>3. NoEngine /\ NoPoller  BY <1>1 DEF Inv, Sound, StopUnderWay
<1>4. NoEngine' /\ NoPoller'  BY <1>1, <1>3 DEF NoEngine, NoPoller
<1>5. ExecutorIsKnown' /\ PollerIsKnown' /\ RunningIsSubscribed' /\ StopIsFinal'
  BY <1>2, <1>4 DEF ExecutorIsKnown, PollerIsKnown, RunningIsSubscribed, StopIsFinal, NoPoller, NoEngine
<1> QED BY <1>1, <1>2, <1>4, <1>5, StopStep DEF CallerPcs

LEMMA EndStopSound == ASSUME Inv, NEW c \in Callers, EndStop(c) PROVE Sound'
<1>1. caller[c] = "end" /\ Goto(c, "ready") /\ UNCHANGED <<ref, poller, engine, watcher>> /\ lock' = None /\ last' = "stop"
  BY DEF EndStop
<1>2. NoEngine /\ NoPoller /\ ref.poller = None  BY <1>1 DEF Inv, Sound, StopUnderWay
<1>3. NoEngine' /\ NoPoller'  BY <1>1, <1>2 DEF NoEngine, NoPoller
<1>4. \A d \in Callers : caller'[d] = "ready"
  <2>1. \A d \in Callers : d # c => caller[d] = "ready"  BY <1>1, Holder
  <2> QED BY <1>1, <2>1, Types DEF Inv, Goto
<1>5. \A w \in Watchers : watcher'[w] # "join_poller"  BY <1>1, Holder
<1>6. LockIsHeld'  BY <1>1, <1>4, <1>5 DEF LockIsHeld
<1>7. ExecutorIsKnown' /\ PollerIsKnown' /\ RunningIsSubscribed' /\ StopIsFinal' /\ StartServes'
  BY <1>1, <1>2, <1>3
     DEF ExecutorIsKnown, PollerIsKnown, RunningIsSubscribed, StopIsFinal, StartServes, NoPoller, NoEngine
<1>8. StopUnderWay' /\ UpgradeUnderWay'  BY <1>1, <1>4 DEF StopUnderWay, UpgradeUnderWay
<1> QED BY <1>6, <1>7, <1>8 DEF Sound

\* A stop takes the lock.
LEMMA BeginStopSound == ASSUME Inv, NEW c \in Callers, BeginStop(c) PROVE Sound'
<1>1. /\ lock = None /\ lock' = c /\ UNCHANGED <<last, ref, poller, watcher, engine, faults>>
  BY DEF BeginStop
<1>2. \A d \in Callers : caller[d] = "ready"  BY <1>1 DEF Inv, Sound, LockIsHeld
<1>3. PICK pc \in {"join_watcher", "engine"} : Goto(c, pc)  BY DEF BeginStop
<1>4. caller'[c] = pc /\ \A d \in Callers : d # c => caller'[d] = "ready"  BY <1>2, <1>3, Types DEF Inv, Goto
<1>5. LockIsHeld'
  <2>1. \A w \in Watchers : watcher[w] # "join_poller"  BY <1>1 DEF Inv, Sound, LockIsHeld
  <2> QED BY <1>1, <1>3, <1>4, <2>1 DEF LockIsHeld
<1>6. StopUnderWay'  BY <1>3, <1>4 DEF StopUnderWay
<1>7. UpgradeUnderWay' /\ StartServes'  BY <1>1 DEF UpgradeUnderWay, StartServes
<1>8. (NoPoller' <=> NoPoller) /\ (NoEngine' <=> NoEngine)  BY <1>1 DEF NoPoller, NoEngine
<1>9. ExecutorIsKnown' /\ RunningIsSubscribed' /\ StopIsFinal'
  BY <1>1, <1>8 DEF Inv, Sound, ExecutorIsKnown, RunningIsSubscribed, StopIsFinal
<1>10. PollerIsKnown'  BY <1>1, <1>2 DEF Inv, Sound, PollerIsKnown
<1> QED BY <1>5, <1>6, <1>7, <1>9, <1>10 DEF Sound

LEMMA StoppingSound == ASSUME Inv, NEW c \in Callers, Stopping(c) PROVE Sound'
<1>1. CASE JoinWatcher(c)
  <2>1. SameEngines  BY <1>1 DEF JoinWatcher, SameEngines
  <2> QED BY <1>1, <2>1, StopMoves DEF JoinWatcher, CallerPcs
<1>2. CASE StopFallback(c)
  <2>1. SameEngines  BY <1>2 DEF StopFallback, SameEngines
  <2>2. PICK pc \in {"join_loop", "unsubscribe"} : Goto(c, pc)  BY <1>2 DEF StopFallback
  <2> QED BY <1>2, <2>1, <2>2, StopMoves DEF StopFallback, CallerPcs
<1> QED BY <1>1, <1>2, StopEngineSound, JoinLoopSound, UnsubscribeSound, StopPollerSound,
           JoinPollerSound, EndStopSound DEF Stopping
-----------------------------------------------------------------------------
(* Starts and upgrades.                                                     *)

\* Nothing executes if neither global names something that does.
LEMMA NothingRuns == ASSUME Inv, lock = None, ~AlreadyRunning PROVE NoPoller /\ NoEngine
<1>1. NoPoller  BY DEF Inv, Sound, ExecutorIsKnown, AlreadyRunning, PollerAlive, NoPoller
<1>2. NoEngine  BY DEF Inv, Sound, ExecutorIsKnown, AlreadyRunning, EngineRunning, NoEngine
<1> QED BY <1>1, <1>2

\* A polling thread is known to poll while nobody has the lock.
LEMMA PollerPolls == ASSUME Inv, lock = None, ref.poller # None PROVE poller[ref.poller] = "running"
BY DEF Inv, Sound, PollerIsKnown, LockIsHeld

\* The engine that StartEngine was given runs if any does.
LEMMA StartedEngine ==
    ASSUME Inv, NEW e \in Engines, StartEngine(e), ref' = [ref EXCEPT !.engine = e], NoEngine
    PROVE  /\ ref'.engine = e /\ ref'.poller = ref.poller
           /\ \A f \in Engines : engine'[f].running => f = e /\ engine'[f].subs > 0
           /\ \/ ~NoEngine' /\ faults' = faults
              \/ NoEngine' /\ faults' > faults
           /\ faults' = 0 => ~NoEngine'
<1>1. /\ \A f \in Engines \ {e} : engine'[f] = engine[f]
      /\ \/ engine'[e].running /\ engine'[e].subs > 0 /\ faults' = faults
         \/ faults' > faults /\ engine'[e].running = (ref.engine # None /\ engine[e].running)
  BY StartEngineIs DEF Inv
<1>0. faults \in 0 .. MaxFaults  BY Types DEF Inv
<1>2. ref'.engine = e /\ ref'.poller = ref.poller  BY Types, RefWrites DEF Inv
<1>3. \A f \in Engines \ {e} : ~engine'[f].running  BY <1>1 DEF NoEngine
<1>4. CASE engine'[e].running /\ engine'[e].subs > 0 /\ faults' = faults  BY <1>2, <1>3, <1>4 DEF NoEngine
<1>5. CASE faults' > faults /\ engine'[e].running = (ref.engine # None /\ engine[e].running)
  <2>1. ~engine'[e].running  BY <1>5 DEF NoEngine
  <2>2. NoEngine'  BY <1>3, <2>1 DEF NoEngine
  <2>3. faults' # 0  BY <1>0, <1>5
  <2> QED BY <1>2, <1>3, <1>5, <2>1, <2>2, <2>3
<1> QED BY <1>1, <1>4, <1>5

LEMMA StartSound == ASSUME Inv, NEW c \in Callers, Start(c) PROVE Sound'
<1>1. lock = None /\ last' = "start" /\ UNCHANGED <<lock, caller>>  BY DEF Start
<1>2. /\ \A d \in Callers : caller[d] = "ready"
      /\ \A w \in Watchers : watcher[w] # "join_poller"
  BY <1>1 DEF Inv, Sound, LockIsHeld
<1>3. StopUnderWay' /\ UpgradeUnderWay' /\ StopIsFinal'
  BY <1>1, <1>2 DEF StopUnderWay, UpgradeUnderWay, StopIsFinal
<1>4. ASSUME \A w \in Watchers : watcher'[w] # "join_poller" PROVE LockIsHeld'
  BY <1>1, <1>2, <1>4 DEF LockIsHeld
<1>5. CASE AlreadyRunning /\ UNCHANGED <<ref, stopEvent, poller, watcher, engine, monitor, faults>>
  <2>1. LockIsHeld'  BY <1>2, <1>4, <1>5
  <2>2. (NoPoller' <=> NoPoller) /\ (NoEngine' <=> NoEngine)  BY <1>5 DEF NoPoller, NoEngine
  <2>3. ExecutorIsKnown' /\ RunningIsSubscribed'
    BY <1>5, <2>2 DEF Inv, Sound, ExecutorIsKnown, RunningIsSubscribed
  <2>4. PollerIsKnown'  BY <1>1, <1>5, PollerPolls DEF PollerIsKnown
  <2>5. StartServes'
    <3>1. CASE PollerAlive
      <4>1. ref.poller \in Pollers /\ poller[ref.poller] = "running"
        BY <1>1, <3>1, PollerPolls, Types, RefWrites DEF Inv, PollerAlive
      <4> QED BY <1>5, <4>1 DEF StartServes, NoPoller
    <3>2. CASE EngineRunning
      <4>1. ref.engine \in Engines  BY <3>2, Types, RefWrites DEF Inv, EngineRunning
      <4> QED BY <1>5, <3>2, <4>1 DEF StartServes, NoEngine, EngineRunning
    <3> QED BY <1>5, <3>1, <3>2 DEF AlreadyRunning
  <2> QED BY <1>3, <2>1, <2>3, <2>4, <2>5 DEF Sound
<1>6. ASSUME ~AlreadyRunning, NEW e \in Engines, StartEngine(e), ref' = [ref EXCEPT !.engine = e],
             UNCHANGED <<stopEvent, poller, watcher>>
      PROVE  Sound'
  <2>1. NoPoller /\ NoEngine  BY <1>1, <1>6, NothingRuns
  <2>2. /\ ref'.engine = e /\ ref'.poller = ref.poller
        /\ \A f \in Engines : engine'[f].running => f = e /\ engine'[f].subs > 0
        /\ faults' = 0 => ~NoEngine'
    BY <1>6, <2>1, StartedEngine
  <2>3. NoPoller'  BY <1>6, <2>1 DEF NoPoller
  <2>4. ExecutorIsKnown' /\ RunningIsSubscribed' /\ StartServes'
    BY <2>2, <2>3 DEF ExecutorIsKnown, RunningIsSubscribed, StartServes, NoPoller
  <2>5. PollerIsKnown'  BY <1>1, <1>6, <2>2, PollerPolls DEF PollerIsKnown
  <2>6. LockIsHeld'  BY <1>2, <1>4, <1>6
  <2> QED BY <1>3, <2>4, <2>5, <2>6 DEF Sound
<1>7. ASSUME ~AlreadyRunning, NEW p \in Pollers, NEW w \in Watchers, StartPoller(p), StartWatcher(w),
             ref' = Refs(p, ref.engine, w), UNCHANGED <<engine, monitor, faults>>
      PROVE  Sound'
  <2>1. NoPoller /\ NoEngine  BY <1>1, <1>7, NothingRuns
  <2>2. ref'.poller = p  BY <1>7 DEF Refs
  <2>3. poller'[p] = "running" /\ \A q \in Pollers : q # p => poller'[q] # "running"
    BY <1>7, <2>1, Types DEF Inv, StartPoller, NoPoller
  <2>4. NoEngine'  BY <1>7, <2>1 DEF NoEngine
  <2>5. ExecutorIsKnown' /\ RunningIsSubscribed' /\ StartServes' /\ PollerIsKnown'
    BY <2>2, <2>3, <2>4 DEF ExecutorIsKnown, RunningIsSubscribed, StartServes, PollerIsKnown, NoPoller, NoEngine
  <2>6. \A v \in Watchers : watcher'[v] # "join_poller"  BY <1>2, <1>7, Types DEF Inv, StartWatcher
  <2> QED BY <1>3, <1>4, <2>5, <2>6 DEF Sound
<1> QED BY <1>5, <1>6, <1>7 DEF Start

\* The polling thread was told before the engine that replaces it can be seen.
LEMMA UpgradeSound == ASSUME Inv, NEW w \in Watchers, Upgrade(w) PROVE Sound'
<1>1. /\ lock = None /\ lock' = w /\ PollerAlive /\ ref.engine = None /\ UNCHANGED <<caller, last>>
      /\ poller' = [poller EXCEPT ![ref.poller] = "told"]
      /\ watcher' = [watcher EXCEPT ![w] = "join_poller"]
  BY DEF Upgrade
<1>2. PICK e \in Engines : StartEngine(e) /\ ref' = [ref EXCEPT !.engine = e]  BY DEF Upgrade
<1>3. NoEngine  BY <1>1 DEF Inv, Sound, ExecutorIsKnown, NoEngine
<1>4. /\ ref'.engine = e /\ ref'.poller = ref.poller
      /\ \A f \in Engines : engine'[f].running => f = e /\ engine'[f].subs > 0
      /\ faults' = 0 => ~NoEngine'
  BY <1>2, <1>3, StartedEngine
<1>5. NoPoller'  BY <1>1, Types DEF Inv, Sound, ExecutorIsKnown, NoPoller
<1>6. /\ \A d \in Callers : caller[d] = "ready"
      /\ \A v \in Watchers : watcher[v] # "join_poller"
  BY <1>1 DEF Inv, Sound, LockIsHeld
<1>7. LockIsHeld'
  <2>1. \A v \in Watchers : watcher'[v] = "join_poller" <=> v = w  BY <1>1, <1>6, Types DEF Inv
  <2>2. \A d \in Callers : d # w  OBVIOUS
  <2> QED BY <1>1, <1>6, <2>1, <2>2 DEF LockIsHeld
<1>8. StopUnderWay'  BY <1>1, <1>6 DEF StopUnderWay
<1>9. UpgradeUnderWay' /\ PollerIsKnown'  BY <1>1, <1>5 DEF UpgradeUnderWay, PollerIsKnown
<1>10. ExecutorIsKnown' /\ RunningIsSubscribed' /\ StartServes'
  BY <1>4, <1>5 DEF ExecutorIsKnown, RunningIsSubscribed, StartServes, NoPoller
<1>11. StopIsFinal'
  <2>1. last # "stop"  BY <1>1 DEF Inv, Sound, StopIsFinal, PollerAlive
  <2> QED BY <1>1, <2>1 DEF StopIsFinal
<1> QED BY <1>7, <1>8, <1>9, <1>10, <1>11 DEF Sound

LEMMA EndUpgradeSound == ASSUME Inv, NEW w \in Watchers, EndUpgrade(w) PROVE Sound'
<1>1. /\ watcher[w] = "join_poller" /\ lock' = None /\ UNCHANGED <<caller, last, poller, engine, faults>>
      /\ watcher' = [watcher EXCEPT ![w] = "dead"]
  BY DEF EndUpgrade
<1>2. ref'.poller = None /\ ref'.engine = ref.engine  BY Types, RefWrites DEF EndUpgrade, Inv
<1>3. lock = w /\ lock # None  BY <1>1 DEF Inv, Sound, LockIsHeld
<1>4. NoPoller  BY <1>3 DEF Inv, Sound, UpgradeUnderWay
<1>5. (NoPoller' <=> NoPoller) /\ (NoEngine' <=> NoEngine)  BY <1>1 DEF NoPoller, NoEngine
<1>6. \A d \in Callers : caller[d] = "ready"
  <2>1. \A d \in Callers : d # w  OBVIOUS
  <2> QED BY <1>3, <2>1 DEF Inv, Sound, LockIsHeld
<1>7. LockIsHeld'
  <2>1. \A v \in Watchers : v # w => watcher[v] # "join_poller"  BY <1>3 DEF Inv, Sound, LockIsHeld
  <2>2. \A v \in Watchers : watcher'[v] # "join_poller"  BY <1>1, <2>1, Types DEF Inv
  <2> QED BY <1>1, <1>6, <2>2 DEF LockIsHeld
<1>8. StopUnderWay' /\ UpgradeUnderWay' /\ PollerIsKnown'
  BY <1>1, <1>2, <1>6 DEF StopUnderWay, UpgradeUnderWay, PollerIsKnown
<1>9. ExecutorIsKnown' /\ RunningIsSubscribed'
  BY <1>1, <1>2, <1>4, <1>5 DEF Inv, Sound, ExecutorIsKnown, RunningIsSubscribed, NoPoller
<1>10. StopIsFinal' /\ StartServes'
  <2>1. lock \notin Callers  BY <1>3
  <2> QED BY <1>1, <1>2, <1>5, <2>1 DEF Inv, Sound, StopIsFinal, StartServes
<1> QED BY <1>7, <1>8, <1>9, <1>10 DEF Sound

\* A watcher that waits, or finds nothing to do.
LEMMA WakeSound == ASSUME Inv, NEW w \in Watchers, Wake(w) \/ NothingToUpgrade(w) PROVE Sound'
<1>1. UNCHANGED <<lock, caller, last, ref, poller, engine, faults>>  BY DEF Wake, NothingToUpgrade
<1>2. LockIsHeld'
  <2>1. PICK pc \in {"dead", "lock", "sleep"} : watcher' = [watcher EXCEPT ![w] = pc]
    BY DEF Wake, NothingToUpgrade
  <2>2. watcher[w] # "join_poller"  BY DEF Wake, NothingToUpgrade
  <2>3. \A v \in Watchers : watcher'[v] = "join_poller" <=> watcher[v] = "join_poller"
    BY <2>1, <2>2, Types DEF Inv
  <2> QED BY <1>1, <2>3 DEF Inv, Sound, LockIsHeld
<1>3. (NoPoller' <=> NoPoller) /\ (NoEngine' <=> NoEngine)  BY <1>1 DEF NoPoller, NoEngine
<1>4. ExecutorIsKnown' /\ StopUnderWay' /\ UpgradeUnderWay' /\ PollerIsKnown'
  BY <1>1, <1>3 DEF Inv, Sound, ExecutorIsKnown, StopUnderWay, UpgradeUnderWay, PollerIsKnown
<1>5. RunningIsSubscribed' /\ StopIsFinal' /\ StartServes'
  BY <1>1, <1>3 DEF Inv, Sound, RunningIsSubscribed, StopIsFinal, StartServes
<1> QED BY <1>2, <1>4, <1>5 DEF Sound

-----------------------------------------------------------------------------
(* The invariant and the theorems.                                          *)

LEMMA InitInv == Init => Inv
<1> SUFFICES ASSUME Init PROVE Inv  OBVIOUS
<1>1. NewEngine \in EngineType /\ ~NewEngine.running  BY DEF NewEngine, Engine, EngineType
<1>2. Refs(None, None, None) \in RefType /\ Refs(None, None, None).poller = None
  BY RefsIs
<1>3. Resting \in MonitorType /\ Idle \in LoopType  BY DEF Resting, Idle, MonitorType, LoopType
<1>4. TypeOK
  <2>1. engine \in [Engines -> EngineType]  BY <1>1 DEF Init
  <2>2. ref \in RefType  BY <1>2 DEF Init
  <2>3. monitor \in [Monitors -> MonitorType] /\ loop \in [Loops -> LoopType]  BY <1>3 DEF Init
  <2>4. /\ caller \in [Callers -> CallerPcs] /\ poller \in [Pollers -> {"dead", "running", "told"}]
        /\ watcher \in [Watchers -> {"dead", "sleep", "lock", "join_poller"}]
    BY DEF Init, CallerPcs
  <2>5. faults \in 0 .. MaxFaults  BY DEF Init
  <2>6. stopEvent \in BOOLEAN /\ healthy \in BOOLEAN /\ fresh \in BOOLEAN  BY DEF Init
  <2> QED BY <2>1, <2>2, <2>3, <2>4, <2>5, <2>6
          DEF Init, TypeOK, CallerPcs, EngineType, RefType, MonitorType, LoopType
<1>5. NoPoller /\ NoEngine  BY <1>1 DEF Init, NoPoller, NoEngine
<1>6. Sound
  BY <1>2, <1>5 DEF Init, Sound, LockIsHeld, ExecutorIsKnown, StopUnderWay, UpgradeUnderWay, PollerIsKnown,
                    RunningIsSubscribed, StopIsFinal, StartServes, NoPoller, NoEngine
<1> QED BY <1>4, <1>6 DEF Inv

LEMMA NextInv == Inv /\ [Next]_vars => Inv'
<1> SUFFICES ASSUME Inv, [Next]_vars PROVE Inv'  OBVIOUS
<1>1. ASSUME NEW c \in Callers, Start(c) PROVE Inv'  BY <1>1, StartType, StartSound DEF Inv
<1>2. ASSUME NEW c \in Callers, BeginStop(c) \/ Stopping(c) PROVE Inv'
  BY <1>2, StoppingType, BeginStopSound, StoppingSound DEF Inv
<1>3. ASSUME NEW w \in Watchers, Watching(w) PROVE Inv'
  BY <1>3, WatchingType, WakeSound, UpgradeSound, EndUpgradeSound DEF Inv, Watching
<1>4. ASSUME NEW m \in Monitors, MonitorThread(m) PROVE Inv'
  BY <1>4, MonitorKeeps, QuietSound DEF Inv, Quiet
<1>5. ASSUME NEW l \in Loops, LoopEnds(l) PROVE Inv'
  BY <1>5, LoopKeeps, QuietSound DEF Inv, Quiet
<1>6. ASSUME NEW p \in Pollers, PollerEnds(p) PROVE Inv'  BY <1>6, PollerEndsSound DEF Inv
<1>7. CASE Environment
  <2>1. TypeOK'  BY <1>7, Types, TypeParts DEF Inv, Environment, TypeOK
  <2>2. SameEngines  BY <1>7 DEF Environment, SameEngines
  <2> QED BY <1>7, <2>1, <2>2, QuietSound DEF Inv, Environment
<1>8. CASE UNCHANGED vars
  <2>1. TypeOK'  BY <1>8, Types, TypeParts DEF Inv, vars, TypeOK
  <2>2. SameEngines  BY <1>8 DEF vars, SameEngines
  <2> QED BY <1>8, <2>1, <2>2, QuietSound DEF Inv, vars
<1> QED BY <1>1, <1>2, <1>3, <1>4, <1>5, <1>6, <1>7, <1>8 DEF Next

LEMMA Invariance == Spec => []Inv
BY InitInv, NextInv, PTL DEF Spec

\* The threads and globals keep their types; an engine is subscribed at most
\* once more than subscriptions may leak (TypeOK of the model).
THEOREM LifecycleType == Spec => []TypeOK
<1>1. Inv => TypeOK  BY DEF Inv
<1> QED BY <1>1, Invariance, PTL

\* At most one polling thread or engine has not been told to stop
\* (start_execution_engine, stop_execution_engine and the upgrade watcher).
THEOREM OneExecutes == Spec => []OneExecutor
<1>1. Inv => OneExecutor
  <2> SUFFICES ASSUME Inv PROVE Cardinality(Untold) + Cardinality(Running) <= 1  BY DEF OneExecutor
  <2>1. ExecutorIsKnown  BY DEF Inv, Sound
  <2>2. Untold \subseteq {ref.poller} /\ Running \subseteq {ref.engine} /\ (Untold = {} \/ Running = {})
    BY <2>1 DEF ExecutorIsKnown, Untold, Running, NoPoller, NoEngine
  <2>3. ASSUME NEW S, NEW x, S \subseteq {x} PROVE Cardinality(S) \in 0 .. 1
    <3>1. IsFiniteSet({x}) /\ Cardinality({x}) = 1  BY FS_Singleton
    <3>2. IsFiniteSet(S) /\ Cardinality(S) <= 1  BY <2>3, <3>1, FS_Subset
    <3> QED BY <3>2, FS_CardinalityType
  <2>4. Cardinality(Untold) \in 0 .. 1 /\ Cardinality(Running) \in 0 .. 1  BY <2>2, <2>3
  <2>5. Cardinality(Untold) = 0 \/ Cardinality(Running) = 0  BY <2>2, FS_EmptySet
  <2> QED BY <2>4, <2>5
<1> QED BY <1>1, Invariance, PTL

\* After a stop no thread goes on executing, and none starts behind it
\* (stop_execution_engine against a watcher that outlived its join).
THEOREM StopStays == Spec => []StoppedStaysStopped
<1>1. Inv => StoppedStaysStopped
  <2> SUFFICES ASSUME Inv, last = "stop"
      PROVE Untold = {} /\ Running = {} /\ \A l \in Loops : loop[l].engine # None => ~Wanted(l)
    BY DEF StoppedStaysStopped
  <2>1. NoPoller /\ NoEngine  BY DEF Inv, Sound, StopIsFinal
  <2>2. \A l \in Loops : loop[l].engine # None => loop[l].engine \in Engines
    BY Types DEF Inv, LoopType
  <2> QED BY <2>1, <2>2 DEF NoPoller, NoEngine, Untold, Running, Wanted
<1> QED BY <1>1, Invariance, PTL

\* After a start orders are served, through every upgrade, unless a
\* subscription failed (start_execution_engine and the upgrade watcher).
THEOREM StartIsServed == Spec => []StartedIsServed
<1>1. Inv => StartedIsServed
  BY DEF Inv, Sound, StartServes, StartedIsServed, NoPoller, NoEngine, Untold, Running
<1> QED BY <1>1, Invariance, PTL
-----------------------------------------------------------------------------
(* The fallback loops, while nothing has failed.                            *)

\* A loop that was not joined in vain is the one its engine names.
LoopIsNamed ==
    \A l \in Loops : loop[l].engine # None /\ ~loop[l].late => engine[loop[l].engine].loop = l

OneMonitor ==
    \A m, n \in Monitors : monitor[m].engine # None /\ monitor[m].engine = monitor[n].engine => m = n

\* The engine of the globals runs, but for a stop in its course.
EngineServes ==
    ref.engine # None => \/ engine[ref.engine].running
                         \/ \E c \in Callers : caller[c] \in {"fallback", "join_loop", "unsubscribe"}

OnlyLate(e) == \A l \in Loops : loop[l].engine = e => loop[l].late

\* A monitor that is about to start a loop has none.
MonitorKnows ==
    \A m \in Monitors :
        monitor[m].engine # None =>
            /\ monitor[m].pc = "start" => ~engine[monitor[m].engine].falling /\ OnlyLate(monitor[m].engine)
            /\ /\ monitor[m].pc = "watch"
               /\ engine[monitor[m].engine].running /\ ~engine[monitor[m].engine].falling
               => OnlyLate(monitor[m].engine)

Single == faults = 0 => LoopIsNamed /\ OneMonitor /\ EngineServes /\ MonitorKnows

\* Steps that leave engines, monitors and loops as they are.
LEMMA SingleKept ==
    ASSUME Single, UNCHANGED <<engine, monitor, loop>>, faults' = 0 => faults = 0,
           EngineServes => EngineServes'
    PROVE  Single'
BY DEF Single, LoopIsNamed, OneMonitor, MonitorKnows, OnlyLate

\* The loop that is forgotten was joined in vain, or has ended.
LEMMA ForgetSingle ==
    ASSUME TypeOK, LoopIsNamed, NEW e \in Engines, engine[e].loop # None, Forget(e)
    PROVE  /\ LoopIsNamed' /\ \A l \in Loops : loop'[l].engine = e => loop'[l].late
           /\ \A l \in Loops : loop'[l].engine = loop[l].engine /\ (loop[l].late => loop'[l].late)
           /\ \A f \in Engines : engine'[f].running = engine[f].running /\ engine'[f].falling = engine[f].falling
<1>1. engine \in [Engines -> EngineType] /\ loop \in [Loops -> LoopType]  BY Types
<1>2. PICK k \in Loops : k = engine[e].loop  BY <1>1 DEF EngineType
<1>3. /\ engine' = [engine EXCEPT ![e].loop = None]
      /\ loop' = [loop EXCEPT ![k].late = loop[k].late \/ loop[k].engine = e]
  BY <1>2 DEF Forget
<1>4. \A l \in Loops : loop'[l].engine = loop[l].engine  BY <1>1, <1>2, <1>3 DEF LoopType
<1>5. \A l \in Loops : l # k => loop'[l] = loop[l]  BY <1>1, <1>2, <1>3
<1>6. loop'[k].late <=> (loop[k].late \/ loop[k].engine = e)
  <2>1. loop[k] \in LoopType  BY <1>1, <1>2
  <2> QED BY <1>1, <1>2, <1>3, <2>1 DEF LoopType
<1>7. \A f \in Engines : /\ f # e => engine'[f] = engine[f]
                         /\ engine'[f].running = engine[f].running /\ engine'[f].falling = engine[f].falling
  BY <1>1, <1>3 DEF EngineType
<1>8. \A l \in Loops : loop'[l].engine = e => loop'[l].late
  <2> SUFFICES ASSUME NEW l \in Loops, loop'[l].engine = e PROVE loop'[l].late  OBVIOUS
  <2>1. CASE l = k  BY <1>4, <1>6, <2>1
  <2>2. CASE l # k
    <3>1. loop[l].engine = e /\ (loop'[l].late <=> loop[l].late)  BY <1>5, <2>2
    <3>2. loop[l].engine # None /\ engine[e].loop # l  BY <1>2, <2>2, <3>1
    <3> QED BY <3>1, <3>2 DEF LoopIsNamed
  <2> QED BY <2>1, <2>2
<1>9. \A l \in Loops : loop[l].late => loop'[l].late  BY <1>5, <1>6
<1>10. LoopIsNamed'
  <2> SUFFICES ASSUME NEW l \in Loops, loop'[l].engine # None, ~loop'[l].late
               PROVE  engine'[loop'[l].engine].loop = l
    BY DEF LoopIsNamed
  <2>1. loop[l].engine # None /\ ~loop[l].late /\ loop[l].engine # e  BY <1>4, <1>8, <1>9
  <2>2. loop[l].engine \in Engines  BY <1>1, <2>1 DEF LoopType
  <2> QED BY <1>4, <1>7, <2>1, <2>2 DEF LoopIsNamed
<1> QED BY <1>4, <1>7, <1>8, <1>9, <1>10
\* A stop moves on without touching the engine of the globals.
LEMMA ServesKept ==
    ASSUME TypeOK, EngineServes, NEW c \in Callers, NEW pc, Goto(c, pc), ref'.engine = ref.engine, UNCHANGED engine,
           \/ caller[c] \notin {"fallback", "join_loop", "unsubscribe"}
           \/ pc \in {"fallback", "join_loop", "unsubscribe"}
    PROVE  EngineServes'
<1>1. CASE ref.engine = None  BY <1>1 DEF EngineServes
<1>2. CASE ref.engine # None /\ engine[ref.engine].running  BY <1>2 DEF EngineServes
<1>3. ASSUME NEW d \in Callers, caller[d] \in {"fallback", "join_loop", "unsubscribe"} PROVE EngineServes'
  <2>1. caller'[d] \in {"fallback", "join_loop", "unsubscribe"}  BY <1>3, Types DEF Goto
  <2> QED BY <2>1 DEF EngineServes
<1> QED BY <1>1, <1>2, <1>3 DEF EngineServes

\* An engine that is started where there was none is new to all threads.
LEMMA StartSingle ==
    ASSUME TypeOK, Single, ref.engine = None, NEW e \in Engines, StartEngine(e), ref' = [ref EXCEPT !.engine = e],
           UNCHANGED loop
    PROVE  Single'
<1>1. /\ monitor \in [Monitors -> MonitorType] /\ engine \in [Engines -> EngineType]
      /\ faults \in 0 .. MaxFaults /\ ref'.engine = e
  BY Types, RefWrites
<1>2. SUFFICES ASSUME faults' = 0 PROVE Single'  BY DEF Single
<1>3. /\ \A m \in Monitors : monitor[m].engine # e
      /\ \A l \in Loops : loop[l].engine # e
  BY DEF StartEngine, Spare
<1>4. PICK m \in Monitors :
         /\ monitor[m].engine = None
         /\ monitor' = [monitor EXCEPT ![m] = [engine |-> e, pc |-> "watch"]]
         /\ engine' = [engine EXCEPT ![e] = Engine(TRUE, NewEngine.falling, NewEngine.loop, NewEngine.subs + 1)]
         /\ UNCHANGED faults
  <2> DEFINE was == IF ref.engine = None THEN NewEngine ELSE engine[e]
  <2>1. was = NewEngine  OBVIOUS
  <2>2. \/ \E m \in Monitors :
               /\ monitor[m].engine = None
               /\ monitor' = [monitor EXCEPT ![m] = [engine |-> e, pc |-> "watch"]]
               /\ engine' = [engine EXCEPT ![e] = Engine(TRUE, was.falling, was.loop, was.subs + 1)]
               /\ UNCHANGED faults
        \/ faults < MaxFaults /\ Counted
    BY DEF StartEngine
  <2> HIDE DEF was
  <2>3. ~(faults < MaxFaults /\ Counted)  BY <1>1, <1>2 DEF Counted
  <2> QED BY <2>1, <2>2, <2>3
<1>5. LoopIsNamed /\ OneMonitor /\ MonitorKnows  BY <1>2, <1>4 DEF Single
<1>6. engine'[e].running /\ \A f \in Engines : f # e => engine'[f] = engine[f]  BY <1>1, <1>4 DEF Engine
<1>7. /\ monitor'[m].engine = e /\ monitor'[m].pc = "watch"
      /\ \A n \in Monitors : n # m => monitor'[n] = monitor[n]
  BY <1>1, <1>4
<1>8. LoopIsNamed'
  <2>1. \A l \in Loops : loop[l].engine # None => loop[l].engine \in Engines  BY Types DEF LoopType
  <2> QED BY <1>3, <1>5, <1>6, <2>1 DEF LoopIsNamed
<1>9. OneMonitor'  BY <1>3, <1>5, <1>7 DEF OneMonitor
<1>10. EngineServes'  BY <1>1, <1>6 DEF EngineServes
<1>11. MonitorKnows'
  <2>1. \A n \in Monitors : monitor[n].engine # None => monitor[n].engine \in Engines  BY <1>1 DEF MonitorType
  <2> QED BY <1>3, <1>5, <1>6, <1>7, <2>1 DEF MonitorKnows, OnlyLate
<1> QED BY <1>8, <1>9, <1>10, <1>11 DEF Single

LEMMA StopEngineSingle == ASSUME Inv, Single, NEW c \in Callers, StopEngine(c) PROVE Single'
<1>1. UNCHANGED <<monitor, loop, faults>>  BY DEF StopEngine
<1>2. CASE EngineRunning
  <2> DEFINE e == engine[ref.engine]
             new == Engine(FALSE, FALSE, e.loop, e.subs)
  <2>1. ref.engine \in Engines /\ engine \in [Engines -> EngineType]
    BY <1>2, Types, RefWrites DEF EngineRunning, Inv
  <2>2. engine' = [engine EXCEPT ![ref.engine] = new] /\ Goto(c, "fallback")  BY <1>2 DEF StopEngine
  <2>3. new.running = FALSE /\ new.falling = FALSE /\ new.loop = e.loop  BY DEF Engine
  <2> HIDE DEF new
  <2>4. \A f \in Engines : /\ engine'[f].loop = engine[f].loop
                           /\ engine'[f].running => engine[f].running /\ engine'[f] = engine[f]
                           /\ engine'[f].falling => engine[f].falling
    BY <2>1, <2>2, <2>3
  <2>5. LoopIsNamed => LoopIsNamed'
    <3>1. \A l \in Loops : loop[l].engine # None => loop[l].engine \in Engines  BY Types DEF Inv, LoopType
    <3> QED BY <1>1, <2>4, <3>1 DEF LoopIsNamed
  <2>6. MonitorKnows => MonitorKnows'
    <3>1. \A n \in Monitors : monitor[n].engine # None => monitor[n].engine \in Engines
      BY Types DEF Inv, MonitorType
    <3> QED BY <1>1, <2>4, <3>1 DEF MonitorKnows, OnlyLate
  <2>7. EngineServes'
    <3>1. caller'[c] = "fallback"  BY <2>2, Types DEF Inv, Goto
    <3> QED BY <3>1 DEF EngineServes
  <2> QED BY <1>1, <2>5, <2>6, <2>7 DEF Single, OneMonitor
<1>3. CASE ~EngineRunning
  <2>1. ref' = Refs(ref.poller, None, None) /\ UNCHANGED engine  BY <1>3 DEF StopEngine
  <2>2. ref'.engine = None  BY <2>1 DEF Refs
  <2> QED BY <1>1, <2>1, <2>2, SingleKept DEF EngineServes
<1> QED BY <1>2, <1>3

LEMMA JoinLoopSingle == ASSUME Inv, Single, NEW c \in Callers, JoinLoop(c) PROVE Single'
<1>1. caller[c] = "join_loop" /\ UNCHANGED <<ref, monitor>>  BY DEF JoinLoop
<1>2. ref.engine \in Engines  BY <1>1, Types, RefWrites DEF Inv, Sound, StopUnderWay
<1>3. CASE engine[ref.engine].loop # None /\ Forget(ref.engine) /\ Goto(c, "unsubscribe") /\ UNCHANGED faults
  <2> SUFFICES ASSUME faults = 0, LoopIsNamed, OneMonitor, MonitorKnows PROVE Single'
    BY <1>3 DEF Single
  <2>1. /\ LoopIsNamed'
        /\ \A l \in Loops : loop'[l].engine = loop[l].engine /\ (loop[l].late => loop'[l].late)
        /\ \A f \in Engines : engine'[f].running = engine[f].running /\ engine'[f].falling = engine[f].falling
    BY <1>2, <1>3, ForgetSingle DEF Inv
  <2>2. MonitorKnows'
    <3>1. \A n \in Monitors : monitor[n].engine # None => monitor[n].engine \in Engines
      BY Types DEF Inv, MonitorType
    <3> QED BY <1>1, <2>1, <3>1 DEF MonitorKnows, OnlyLate
  <2>3. EngineServes'
    <3>1. caller'[c] = "unsubscribe"  BY <1>3, Types DEF Inv, Goto
    <3> QED BY <3>1 DEF EngineServes
  <2> QED BY <1>1, <2>1, <2>2, <2>3 DEF Single, OneMonitor
<1>4. CASE Counted
  <2>1. faults' # 0  BY <1>4, Types DEF Inv, Counted
  <2> QED BY <2>1 DEF Single
<1> QED BY <1>3, <1>4 DEF JoinLoop

LEMMA UnsubscribeSingle == ASSUME Inv, Single, NEW c \in Callers, Unsubscribe(c) PROVE Single'
<1>1. /\ caller[c] = "unsubscribe" /\ UNCHANGED <<monitor, loop, faults>>
      /\ engine' = [engine EXCEPT ![ref.engine].subs = @ - 1]
  BY DEF Unsubscribe
<1>2. ref'.engine = None  BY Types, RefWrites DEF Unsubscribe, Inv
<1>3. engine \in [Engines -> EngineType]  BY Types DEF Inv
<1>4. \A f \in Engines : /\ engine'[f].loop = engine[f].loop /\ engine'[f].running = engine[f].running
                         /\ engine'[f].falling = engine[f].falling
  BY <1>1, <1>3 DEF EngineType
<1>5. LoopIsNamed => LoopIsNamed'
  <2>1. \A l \in Loops : loop[l].engine # None => loop[l].engine \in Engines  BY Types DEF Inv, LoopType
  <2> QED BY <1>1, <1>4, <2>1 DEF LoopIsNamed
<1>6. MonitorKnows => MonitorKnows'
  <2>1. \A n \in Monitors : monitor[n].engine # None => monitor[n].engine \in Engines
    BY Types DEF Inv, MonitorType
  <2> QED BY <1>1, <1>4, <2>1 DEF MonitorKnows, OnlyLate
<1> QED BY <1>1, <1>2, <1>5, <1>6 DEF Single, OneMonitor, EngineServes

LEMMA StoppingSingle ==
    ASSUME Inv, Single, NEW c \in Callers, BeginStop(c) \/ Stopping(c)
    PROVE  Single'
<1>1. ASSUME UNCHANGED <<engine, monitor, loop, faults>>, ref'.engine = ref.engine, NEW pc, Goto(c, pc),
             \/ caller[c] \notin {"fallback", "join_loop", "unsubscribe"}
             \/ pc \in {"fallback", "join_loop", "unsubscribe"}
      PROVE  Single'
  BY <1>1, ServesKept, SingleKept DEF Inv
<1>2. CASE BeginStop(c)  BY <1>1, <1>2 DEF BeginStop
<1>3. CASE JoinWatcher(c)  BY <1>1, <1>3 DEF JoinWatcher
<1>4. CASE StopFallback(c)
  <2>1. PICK pc \in {"join_loop", "unsubscribe"} : Goto(c, pc)  BY <1>4 DEF StopFallback
  <2> QED BY <1>1, <1>4, <2>1 DEF StopFallback
<1>5. CASE StopPoller(c)
  <2>1. PICK pc : Goto(c, pc)  BY <1>5 DEF StopPoller
  <2> QED BY <1>1, <1>5, <2>1 DEF StopPoller
<1>6. CASE JoinPoller(c)
  <2>1. ref'.engine = ref.engine  BY <1>6, Types, RefWrites DEF JoinPoller, Inv
  <2> QED BY <1>1, <1>6, <2>1 DEF JoinPoller
<1>7. CASE EndStop(c)  BY <1>1, <1>7 DEF EndStop
<1> QED BY <1>2, <1>3, <1>4, <1>5, <1>6, <1>7, StopEngineSingle, JoinLoopSingle, UnsubscribeSingle
        DEF Stopping
LEMMA LookSingle == ASSUME Inv, Single, NEW m \in Monitors, Look(m) PROVE Single'
<1> DEFINE e == monitor[m].engine
<1>1. /\ e # None /\ monitor[m].pc = "watch" /\ UNCHANGED <<caller, ref, loop, faults>>
      /\ monitor \in [Monitors -> MonitorType] /\ engine \in [Engines -> EngineType]
  BY Types DEF Look, Monitoring, Quiet, Inv
<1>2. e \in Engines  BY <1>1 DEF MonitorType
<1> SUFFICES ASSUME faults = 0, LoopIsNamed, OneMonitor, EngineServes, MonitorKnows PROVE Single'
  BY <1>1 DEF Single
<1>3. CASE engine[e].running /\ ~engine[e].falling /\ At(m, "start") /\ UNCHANGED engine
  <2>1. /\ monitor'[m].engine = e /\ monitor'[m].pc = "start"
        /\ \A n \in Monitors : n # m => monitor'[n] = monitor[n]
    BY <1>1, <1>3 DEF At, MonitorType
  <2>2. ~engine[e].falling /\ OnlyLate(e)  BY <1>1, <1>3 DEF MonitorKnows
  <2>3. MonitorKnows'  BY <1>1, <1>3, <2>1, <2>2 DEF MonitorKnows, OnlyLate
  <2>4. OneMonitor'  BY <2>1 DEF OneMonitor
  <2> QED BY <1>1, <1>3, <2>3, <2>4 DEF Single, LoopIsNamed, EngineServes
<1>4. CASE engine[e].falling /\ At(m, "check") /\ engine' = [engine EXCEPT ![e].falling = FALSE]
  <2>1. /\ monitor'[m].engine = e /\ monitor'[m].pc = "check"
        /\ \A n \in Monitors : n # m => monitor'[n] = monitor[n]
    BY <1>1, <1>4 DEF At, MonitorType
  <2>2. \A f \in Engines : /\ engine'[f].loop = engine[f].loop /\ engine'[f].running = engine[f].running
                           /\ f # e => engine'[f] = engine[f]
    BY <1>1, <1>2, <1>4 DEF EngineType
  <2>3. \A n \in Monitors : n # m /\ monitor[n].engine # None
           => monitor[n].engine # e /\ monitor[n].engine \in Engines
    BY <1>1 DEF OneMonitor, MonitorType
  <2>4. MonitorKnows'  BY <1>1, <2>1, <2>2, <2>3 DEF MonitorKnows, OnlyLate
  <2>5. OneMonitor'  BY <2>1 DEF OneMonitor
  <2>6. LoopIsNamed'
    <3>1. \A l \in Loops : loop[l].engine # None => loop[l].engine \in Engines  BY Types DEF Inv, LoopType
    <3> QED BY <1>1, <2>2, <3>1 DEF LoopIsNamed
  <2>7. EngineServes'
    <3>1. ref.engine # None => ref.engine \in Engines  BY Types, RefWrites DEF Inv
    <3> QED BY <1>1, <2>2, <3>1 DEF EngineServes
  <2> QED BY <2>4, <2>5, <2>6, <2>7 DEF Single
<1>5. CASE monitor' = [monitor EXCEPT ![m] = Resting] /\ UNCHANGED engine
  <2>1. /\ monitor'[m].engine = None
        /\ \A n \in Monitors : n # m => monitor'[n] = monitor[n]
    BY <1>1, <1>5 DEF Resting
  <2>2. MonitorKnows'  BY <1>1, <1>5, <2>1 DEF MonitorKnows, OnlyLate
  <2>3. OneMonitor'  BY <2>1 DEF OneMonitor
  <2> QED BY <1>1, <1>5, <2>2, <2>3 DEF Single, LoopIsNamed, EngineServes
<1> QED BY <1>3, <1>4, <1>5 DEF Look

LEMMA StartFallbackSingle == ASSUME Inv, Single, NEW m \in Monitors, StartFallback(m) PROVE Single'
<1> DEFINE e == monitor[m].engine
<1>1. /\ e # None /\ monitor[m].pc = "start" /\ At(m, "watch") /\ UNCHANGED <<caller, ref, faults>>
      /\ monitor \in [Monitors -> MonitorType] /\ engine \in [Engines -> EngineType]
      /\ loop \in [Loops -> LoopType]
  BY Types DEF StartFallback, Monitoring, Quiet, Inv
<1>2. e \in Engines  BY <1>1 DEF MonitorType
<1> SUFFICES ASSUME faults = 0, LoopIsNamed, OneMonitor, EngineServes, MonitorKnows PROVE Single'
  BY <1>1 DEF Single
<1>3. ~engine[e].falling /\ OnlyLate(e)  BY <1>1 DEF MonitorKnows
<1>4. PICK l \in Loops :
         /\ loop[l].engine = None
         /\ loop' = [loop EXCEPT ![l] = [engine |-> e, late |-> FALSE]]
         /\ engine' = [engine EXCEPT ![e] = Engine(@.running, TRUE, l, @.subs)]
  BY <1>3 DEF StartFallback
<1>5. /\ engine'[e].running = engine[e].running /\ engine'[e].falling /\ engine'[e].loop = l
      /\ \A f \in Engines : f # e => engine'[f] = engine[f]
  BY <1>1, <1>2, <1>4 DEF Engine
<1>6. /\ loop'[l].engine = e /\ \A k \in Loops : k # l => loop'[k] = loop[k]
  BY <1>1, <1>4
<1>7. /\ monitor'[m].engine = e /\ monitor'[m].pc = "watch"
      /\ \A n \in Monitors : n # m => monitor'[n] = monitor[n]
  BY <1>1 DEF At, MonitorType
<1>8. LoopIsNamed'
  <2> SUFFICES ASSUME NEW k \in Loops, loop'[k].engine # None, ~loop'[k].late
               PROVE  engine'[loop'[k].engine].loop = k
    BY DEF LoopIsNamed
  <2>1. CASE k = l  BY <1>5, <1>6, <2>1
  <2>2. CASE k # l
    <3>1. loop'[k] = loop[k] /\ loop[k].engine # e  BY <1>3, <1>6, <2>2 DEF OnlyLate
    <3>2. loop[k].engine \in Engines  BY <1>1, <3>1 DEF LoopType
    <3> QED BY <1>5, <3>1, <3>2 DEF LoopIsNamed
  <2> QED BY <2>1, <2>2
<1>9. OneMonitor'  BY <1>7 DEF OneMonitor
<1>10. EngineServes'
  <2>1. ref.engine # None => ref.engine \in Engines  BY Types, RefWrites DEF Inv
  <2> QED BY <1>1, <1>5, <2>1 DEF EngineServes
<1>11. MonitorKnows'
  <2> SUFFICES ASSUME NEW n \in Monitors, n # m, monitor[n].engine # None
      PROVE  /\ monitor[n].pc = "start"
                  => ~engine'[monitor[n].engine].falling /\ OnlyLate(monitor[n].engine)'
             /\ /\ monitor[n].pc = "watch"
                /\ engine'[monitor[n].engine].running /\ ~engine'[monitor[n].engine].falling
                => OnlyLate(monitor[n].engine)'
    BY <1>5, <1>7 DEF MonitorKnows, OnlyLate
  <2>1. monitor[n].engine # e /\ monitor[n].engine \in Engines /\ monitor'[n] = monitor[n]
    BY <1>1, <1>7 DEF OneMonitor, MonitorType
  <2>2. OnlyLate(monitor[n].engine) => OnlyLate(monitor[n].engine)'  BY <1>6, <2>1 DEF OnlyLate
  <2>3. engine'[monitor[n].engine] = engine[monitor[n].engine]  BY <1>5, <2>1
  <2> QED BY <2>2, <2>3 DEF MonitorKnows
<1> QED BY <1>8, <1>9, <1>10, <1>11 DEF Single

\* The monitor finds no loop to join, or has joined it.
LEMMA CheckedSingle ==
    ASSUME Inv, Single, NEW m \in Monitors, CheckFallback(m) \/ JoinFallback(m)
    PROVE  Single'
<1> DEFINE e == monitor[m].engine
<1>1. /\ e # None /\ UNCHANGED <<caller, ref, faults>>
      /\ monitor \in [Monitors -> MonitorType] /\ engine \in [Engines -> EngineType]
      /\ loop \in [Loops -> LoopType]
  BY Types DEF CheckFallback, JoinFallback, Monitoring, Quiet, Inv
<1>2. e \in Engines  BY <1>1 DEF MonitorType
<1> SUFFICES ASSUME faults = 0, LoopIsNamed, OneMonitor, EngineServes, MonitorKnows PROVE Single'
  BY <1>1 DEF Single
<1>3. PICK pc \in {"watch", "join"} : At(m, pc)  BY DEF CheckFallback, JoinFallback
<1>4. /\ monitor'[m].engine = e /\ monitor'[m].pc = pc
      /\ \A n \in Monitors : n # m => monitor'[n] = monitor[n]
  BY <1>1, <1>3 DEF At, MonitorType
<1>5. OneMonitor'  BY <1>4 DEF OneMonitor
<1>6. \A n \in Monitors : n # m /\ monitor[n].engine # None => monitor[n].engine # e /\ monitor[n].engine \in Engines
  BY <1>1 DEF OneMonitor, MonitorType
<1>7. CASE UNCHANGED <<engine, loop>> /\ (pc = "watch" => OnlyLate(e))
  <2>1. MonitorKnows'  BY <1>3, <1>4, <1>6, <1>7 DEF MonitorKnows, OnlyLate
  <2> QED BY <1>1, <1>5, <1>7, <2>1 DEF Single, LoopIsNamed, EngineServes
<1>8. CASE engine[e].loop # None /\ Forget(e)
  <2>1. /\ LoopIsNamed' /\ \A l \in Loops : loop'[l].engine = e => loop'[l].late
        /\ \A l \in Loops : loop'[l].engine = loop[l].engine /\ (loop[l].late => loop'[l].late)
        /\ \A f \in Engines : engine'[f].running = engine[f].running /\ engine'[f].falling = engine[f].falling
    BY <1>2, <1>8, ForgetSingle DEF Inv
  <2>2. MonitorKnows'  BY <1>3, <1>4, <1>6, <2>1 DEF MonitorKnows, OnlyLate
  <2>3. EngineServes'
    <3>1. ref.engine # None => ref.engine \in Engines  BY Types, RefWrites DEF Inv
    <3> QED BY <1>1, <2>1, <3>1 DEF EngineServes
  <2> QED BY <1>5, <2>1, <2>2, <2>3 DEF Single
<1>9. CASE CheckFallback(m)
  <2>1. UNCHANGED <<engine, loop>> /\ At(m, IF LoopAlive(e) THEN "join" ELSE "watch")  BY <1>9 DEF CheckFallback
  <2>2. ~LoopAlive(e) => OnlyLate(e)  BY <1>1 DEF LoopIsNamed, OnlyLate, LoopAlive
  <2>3. pc = "watch" => ~LoopAlive(e)
    <3>1. monitor'[m].pc = IF LoopAlive(e) THEN "join" ELSE "watch"  BY <1>1, <2>1 DEF At, MonitorType
    <3> QED BY <1>4, <3>1
  <2> QED BY <1>7, <2>1, <2>2, <2>3
<1>10. CASE JoinFallback(m)
  <2>1. CASE engine[e].loop = None
    <3>1. OnlyLate(e)  BY <1>1, <2>1 DEF LoopIsNamed, OnlyLate
    <3> QED BY <1>7, <1>10, <2>1, <3>1 DEF JoinFallback
  <2>2. CASE engine[e].loop # None  BY <1>8, <1>10, <2>2 DEF JoinFallback
  <2> QED BY <2>1, <2>2
<1> QED BY <1>9, <1>10

LEMMA LoopEndsSingle == ASSUME Inv, Single, NEW l \in Loops, LoopEnds(l) PROVE Single'
<1>1. UNCHANGED <<caller, ref, engine, monitor, faults>> /\ loop' = [loop EXCEPT ![l] = Idle]
  BY DEF LoopEnds, Quiet
<1>2. loop'[l].engine = None /\ \A k \in Loops : k # l => loop'[k] = loop[k]
  BY <1>1, Types DEF Inv, Idle
<1>3. LoopIsNamed => LoopIsNamed'  BY <1>1, <1>2 DEF LoopIsNamed
<1>4. MonitorKnows => MonitorKnows'  BY <1>1, <1>2 DEF MonitorKnows, OnlyLate
<1> QED BY <1>1, <1>3, <1>4 DEF Single, OneMonitor, EngineServes

LEMMA NextSingle == Inv /\ Single /\ [Next]_vars => Single'
<1> SUFFICES ASSUME Inv, Single, [Next]_vars PROVE Single'  OBVIOUS
<1>0. ASSUME UNCHANGED <<engine, monitor, loop, caller, ref, faults>> PROVE Single'
  BY <1>0, SingleKept DEF EngineServes
<1>1. ASSUME NEW c \in Callers, Start(c) PROVE Single'
  <2>1. CASE UNCHANGED <<engine, monitor, faults>> /\ ref'.engine = ref.engine
    <3>1. EngineServes => EngineServes'  BY <1>1, <2>1 DEF Start, EngineServes
    <3> QED BY <1>1, <2>1, <3>1, SingleKept DEF Start
  <2>2. ASSUME ~AlreadyRunning, NEW e \in Engines, StartEngine(e), ref' = [ref EXCEPT !.engine = e] PROVE Single'
    <3>1. SUFFICES ASSUME faults' = 0 PROVE Single'  BY DEF Single
    <3>2. faults = 0
      <4>1. faults' > faults \/ faults' = faults  BY <2>2, StartEngineIs DEF Inv
      <4>2. faults \in 0 .. MaxFaults  BY Types DEF Inv
      <4> QED BY <3>1, <4>1, <4>2
    <3>3. \A d \in Callers : caller[d] = "ready"  BY <1>1 DEF Start, Inv, Sound, LockIsHeld
    <3>4. ref.engine = None  BY <2>2, <3>2, <3>3 DEF Single, EngineServes, AlreadyRunning, EngineRunning
    <3> QED BY <1>1, <2>2, <3>4, StartSingle DEF Inv, Start
  <2>3. ASSUME NEW p, NEW w, ref' = Refs(p, ref.engine, w) PROVE ref'.engine = ref.engine  BY <2>3 DEF Refs
  <2> QED BY <1>1, <2>1, <2>2, <2>3 DEF Start
<1>2. ASSUME NEW c \in Callers, BeginStop(c) \/ Stopping(c) PROVE Single'  BY <1>2, StoppingSingle
<1>3. ASSUME NEW w \in Watchers, Watching(w) PROVE Single'
  <2>1. CASE Upgrade(w)
    <3>1. PICK e \in Engines : StartEngine(e) /\ ref' = [ref EXCEPT !.engine = e]  BY <2>1 DEF Upgrade
    <3> QED BY <2>1, <3>1, StartSingle DEF Upgrade, Inv
  <2>2. CASE EndUpgrade(w)
    <3>1. ref'.engine = ref.engine  BY <2>2, Types, RefWrites DEF EndUpgrade, Inv
    <3>2. EngineServes => EngineServes'  BY <2>2, <3>1 DEF EndUpgrade, EngineServes
    <3> QED BY <2>2, <3>2, SingleKept DEF EndUpgrade
  <2> QED BY <1>0, <1>3, <2>1, <2>2 DEF Watching, Wake, NothingToUpgrade
<1>4. ASSUME NEW m \in Monitors, MonitorThread(m) PROVE Single'
  BY <1>4, LookSingle, StartFallbackSingle, CheckedSingle DEF MonitorThread
<1>5. ASSUME NEW l \in Loops, LoopEnds(l) PROVE Single'  BY <1>5, LoopEndsSingle
<1>6. ASSUME NEW p \in Pollers, PollerEnds(p) PROVE Single'  BY <1>0, <1>6 DEF PollerEnds
<1>7. CASE Environment  BY <1>0, <1>7 DEF Environment
<1>8. CASE UNCHANGED vars  BY <1>0, <1>8 DEF vars
<1> QED BY <1>1, <1>2, <1>3, <1>4, <1>5, <1>6, <1>7, <1>8 DEF Next

\* While nothing has failed an engine has one fallback loop, apart from those
\* whose join timed out (_start_fallback, _stop_fallback).
THEOREM LoopsAreSingle == Spec => []OneLoopUnlessLate
<1>1. Init => Single
  <2> SUFFICES ASSUME Init PROVE Single  OBVIOUS
  <2>1. /\ \A l \in Loops : loop[l].engine = None
        /\ \A m \in Monitors : monitor[m].engine = None
        /\ ref.engine = None
    BY DEF Init, Idle, Resting, Refs
  <2> QED BY <2>1 DEF Single, LoopIsNamed, OneMonitor, EngineServes, MonitorKnows
<1>2. Inv /\ Single => OneLoopUnlessLate
  <2> SUFFICES ASSUME LoopIsNamed, NEW e \in Engines
      PROVE  Cardinality({l \in Loops : loop[l].engine = e /\ ~loop[l].late}) <= 1
    BY DEF OneLoopUnlessLate, Single
  <2> DEFINE S == {l \in Loops : loop[l].engine = e /\ ~loop[l].late}
  <2>1. S \subseteq {engine[e].loop}  BY DEF LoopIsNamed
  <2>2. IsFiniteSet({engine[e].loop}) /\ Cardinality({engine[e].loop}) = 1  BY FS_Singleton
  <2> QED BY <2>1, <2>2, FS_Subset
<1> QED BY <1>1, <1>2, Invariance, NextSingle, PTL DEF Spec
-----------------------------------------------------------------------------
(* The switch.                                                              *)

Step == [Switch!Next]_<<Setting, Executor, faults>>

ExecutorTold ==
    /\ NoPoller /\ NoEngine => Executor = "none"
    /\ ~NoPoller => NoEngine /\ Executor = "polling"
    /\ ~NoEngine => NoPoller /\ Executor = "websocket"

\* Who executes, as it is known that it is one.
LEMMA ExecutorIs == ExecutorIsKnown => ExecutorTold
<1> SUFFICES ASSUME ExecutorIsKnown PROVE ExecutorTold  OBVIOUS
<1>1. (Untold = {} <=> NoPoller) /\ (Running = {} <=> NoEngine)
  BY DEF Untold, Running, NoPoller, NoEngine
<1>2. ASSUME ~NoPoller PROVE \E p \in Pollers : Untold = {p}
  <2>1. PICK p \in Pollers : poller[p] = "running"  BY <1>2 DEF NoPoller
  <2>2. Untold = {p}  BY <2>1 DEF Untold, ExecutorIsKnown
  <2> QED BY <2>2
<1>3. ASSUME ~NoEngine PROVE \E e \in Engines : Running = {e}
  <2>1. PICK e \in Engines : engine[e].running  BY <1>3 DEF NoEngine
  <2>2. Running = {e}  BY <2>1 DEF Running, ExecutorIsKnown
  <2> QED BY <2>2
<1>4. NoPoller \/ NoEngine  BY DEF ExecutorIsKnown
<1> QED BY <1>1, <1>2, <1>3, <1>4 DEF Executor, ExecutorTold

\* The same before and after a step.
LEMMA ExecutorsTold == Inv /\ Inv' => ExecutorTold /\ ExecutorTold'
<1>1. Inv => ExecutorTold  BY ExecutorIs DEF Inv, Sound
<1> QED BY <1>1, PTL

LEMMA ExecutorsAre ==
    ASSUME Inv, Inv'
    PROVE  /\ NoPoller /\ NoEngine => Executor = "none"
           /\ ~NoPoller => NoEngine /\ Executor = "polling"
           /\ ~NoEngine => NoPoller /\ Executor = "websocket"
           /\ NoPoller' /\ NoEngine' => Executor' = "none"
           /\ ~NoPoller' => NoEngine' /\ Executor' = "polling"
           /\ ~NoEngine' => NoPoller' /\ Executor' = "websocket"
BY ExecutorsTold DEF ExecutorTold

\* A step that neither the setting nor the executors feel.
LEMMA NotSeen ==
    ASSUME Inv, Inv', Setting' = Setting, UNCHANGED faults, NoPoller' <=> NoPoller, NoEngine' <=> NoEngine
    PROVE  Step
<1>1. Executor' = Executor  BY ExecutorsAre
<1> QED BY <1>1 DEF Step

\* The monitors, the loops, threads that were told and the environment.
LEMMA QuietNotSeen ==
    ASSUME Inv, Inv', SameEngines, UNCHANGED <<lock, last, poller, faults>>
    PROVE  Step
<1>1. (NoPoller' <=> NoPoller) /\ (NoEngine' <=> NoEngine)  BY DEF NoPoller, NoEngine, SameEngines
<1>2. Setting' = Setting  BY DEF Setting
<1> QED BY <1>1, <1>2, NotSeen

\* A start finds an executor or brings one up; its subscription may fail.
LEMMA StartStep == ASSUME Inv, Inv', NEW c \in Callers, Start(c) PROVE Step
<1>1. lock = None /\ last' = "start" /\ lock' = lock  BY DEF Start
<1>2. Setting # "stopping" /\ Setting' = "on"  BY <1>1 DEF Setting
<1>3. CASE AlreadyRunning /\ UNCHANGED <<poller, engine, faults>>
  <2>1. ~NoPoller \/ ~NoEngine
    <3>1. CASE PollerAlive
      <4>1. ref.poller \in Pollers /\ poller[ref.poller] = "running"
        BY <1>1, <3>1, PollerPolls, Types, RefWrites DEF Inv, PollerAlive
      <4> QED BY <4>1 DEF NoPoller
    <3>2. CASE EngineRunning  BY <3>2, Types, RefWrites DEF Inv, EngineRunning, NoEngine
    <3> QED BY <1>3, <3>1, <3>2 DEF AlreadyRunning
  <2>2. (NoPoller' <=> NoPoller) /\ (NoEngine' <=> NoEngine)  BY <1>3 DEF NoPoller, NoEngine
  <2>3. Executor # "none" /\ Executor' = Executor  BY <2>1, <2>2, ExecutorsAre
  <2>4. Switch!Start  BY <1>2, <1>3, <2>3 DEF Switch!Start
  <2> QED BY <2>4 DEF Step, Switch!Next
<1>4. ASSUME ~AlreadyRunning, NEW e \in Engines, StartEngine(e), ref' = [ref EXCEPT !.engine = e],
             UNCHANGED poller
      PROVE  Step
  <2>1. NoPoller /\ NoEngine  BY <1>1, <1>4, NothingRuns
  <2>2. NoPoller'  BY <1>4, <2>1 DEF NoPoller
  <2>3. (~NoEngine' /\ faults' = faults) \/ (NoEngine' /\ faults' > faults)  BY <1>4, <2>1, StartedEngine
  <2>4. Executor = "none"  BY <2>1, ExecutorsAre
  <2>5. CASE ~NoEngine' /\ faults' = faults
    <3>1. Executor' = "websocket"  BY <2>5, ExecutorsAre
    <3>2. Switch!Start  BY <1>2, <2>4, <2>5, <3>1 DEF Switch!Start
    <3> QED BY <3>2 DEF Step, Switch!Next
  <2>6. CASE NoEngine' /\ faults' > faults
    <3>1. Executor' = "none"  BY <2>2, <2>6, ExecutorsAre
    <3>2. Switch!Fail  BY <1>2, <2>4, <2>6, <3>1 DEF Switch!Fail
    <3> QED BY <3>2 DEF Step, Switch!Next
  <2> QED BY <2>3, <2>5, <2>6
<1>5. ASSUME ~AlreadyRunning, NEW p \in Pollers, StartPoller(p), UNCHANGED <<engine, faults>> PROVE Step
  <2>1. NoPoller /\ NoEngine  BY <1>1, <1>5, NothingRuns
  <2>2. poller'[p] = "running"  BY <1>5, Types DEF Inv, StartPoller
  <2>3. ~NoPoller'  BY <2>2 DEF NoPoller
  <2>4. Executor = "none" /\ Executor' = "polling"  BY <2>1, <2>3, ExecutorsAre
  <2>5. Switch!Start  BY <1>2, <1>5, <2>4 DEF Switch!Start
  <2> QED BY <2>5 DEF Step, Switch!Next
<1> QED BY <1>3, <1>4, <1>5 DEF Start

\* A stop takes the lock and keeps it; the executor ends at one of its steps.
LEMMA StopSteps == ASSUME Inv, Inv', NEW c \in Callers, BeginStop(c) \/ Stopping(c) PROVE Step
<1>1. CASE BeginStop(c)
  <2>1. lock = None /\ lock' = c /\ UNCHANGED <<poller, engine, faults>>  BY <1>1 DEF BeginStop
  <2>2. (NoPoller' <=> NoPoller) /\ (NoEngine' <=> NoEngine)  BY <2>1 DEF NoPoller, NoEngine
  <2>3. Executor' = Executor  BY <2>2, ExecutorsAre
  <2>4. Setting # "stopping" /\ Setting' = "stopping"  BY <2>1 DEF Setting
  <2>5. Switch!BeginStop  BY <2>1, <2>3, <2>4 DEF Switch!BeginStop
  <2> QED BY <2>5 DEF Step, Switch!Next
<1>2. CASE Stopping(c)
  <2>1. caller[c] # "ready"
    BY <1>2 DEF Stopping, JoinWatcher, StopEngine, StopFallback, JoinLoop, Unsubscribe, StopPoller, JoinPoller, EndStop
  <2>2. lock = c /\ Setting = "stopping"  BY <2>1, Holder DEF Setting
  <2>3. CASE EndStop(c)
    <3>1. NoPoller /\ NoEngine  BY <2>3 DEF EndStop, Inv, Sound, StopUnderWay
    <3>2. /\ lock' = None /\ last' = "stop" /\ UNCHANGED <<poller, engine, faults>>
      BY <2>3 DEF EndStop
    <3>3. NoPoller' /\ NoEngine'  BY <3>1, <3>2 DEF NoPoller, NoEngine
    <3>4. Executor = "none" /\ Executor' = "none"  BY <3>1, <3>3, ExecutorsAre
    <3>5. Setting' = "off"  BY <3>2 DEF Setting
    <3>6. Switch!EndStop  BY <2>2, <3>2, <3>4, <3>5 DEF Switch!EndStop
    <3> QED BY <3>6 DEF Step, Switch!Next
  <2>4. CASE JoinLoop(c)
    <3>1. UNCHANGED <<lock, last, poller>> /\ (UNCHANGED faults \/ Counted)  BY <2>4 DEF JoinLoop
    <3>2. NoEngine /\ ref.engine \in Engines
      BY <2>4, Types, RefWrites DEF JoinLoop, Inv, Sound, StopUnderWay
    <3>3. NoEngine'
      <4>1. CASE Forget(ref.engine)  BY <3>2, <4>1, ForgetKeeps DEF Inv, SameEngines, NoEngine
      <4>2. CASE UNCHANGED engine  BY <3>2, <4>2 DEF NoEngine
      <4> QED BY <2>4, <4>1, <4>2 DEF JoinLoop
    <3>4. NoPoller' <=> NoPoller  BY <3>1 DEF NoPoller
    <3>5. Executor' = Executor /\ Setting' = Setting  BY <3>1, <3>2, <3>3, <3>4, ExecutorsAre DEF Setting
    <3>6. faults' = faults \/ faults' > faults  BY <3>1, Types DEF Inv, Counted
    <3>7. CASE faults' = faults  BY <3>5, <3>7 DEF Step
    <3>8. CASE faults' > faults
      <4>1. Switch!Fail  BY <3>5, <3>8 DEF Switch!Fail
      <4> QED BY <4>1 DEF Step, Switch!Next
    <3> QED BY <3>6, <3>7, <3>8
  <2>5. ASSUME UNCHANGED <<lock, last, faults>>,
               NoPoller => NoPoller', NoEngine => NoEngine'
        PROVE  ((NoPoller' <=> NoPoller) /\ (NoEngine' <=> NoEngine)) \/ (NoPoller' /\ NoEngine') => Step
    <3>1. Setting' = Setting  BY <2>5 DEF Setting
    <3>2. CASE (NoPoller' <=> NoPoller) /\ (NoEngine' <=> NoEngine)  BY <2>5, <3>1, <3>2, NotSeen
    <3>3. CASE NoPoller' /\ NoEngine'
      <4>1. Executor' = "none"  BY <3>3, ExecutorsAre
      <4>2. Switch!End  BY <2>2, <2>5, <3>1, <4>1 DEF Switch!End
      <4> QED BY <4>2 DEF Step, Switch!Next
    <3> QED BY <3>2, <3>3
  <2>6. CASE StopEngine(c)
    <3>1. UNCHANGED <<lock, last, poller, faults>>  BY <2>6 DEF StopEngine
    <3>2. NoEngine'
      <4>1. caller'[c] \in {"fallback", "poller"}  BY <2>6, Types DEF Inv, StopEngine, Goto
      <4> QED BY <4>1 DEF Inv, Sound, StopUnderWay
    <3>3. NoPoller' <=> NoPoller  BY <3>1 DEF NoPoller
    <3>4. NoEngine \/ NoPoller  BY DEF Inv, Sound, ExecutorIsKnown
    <3> QED BY <2>5, <3>1, <3>2, <3>3, <3>4
  <2>7. CASE StopPoller(c)
    <3>1. UNCHANGED <<lock, last, engine, faults>>  BY <2>7 DEF StopPoller
    <3>2. NoPoller'
      <4>1. caller'[c] \in {"join_poller", "end"}  BY <2>7, Types DEF Inv, StopPoller, Goto
      <4> QED BY <4>1 DEF Inv, Sound, StopUnderWay
    <3>3. NoEngine  BY <2>7 DEF StopPoller, Inv, Sound, StopUnderWay
    <3>4. NoEngine'  BY <3>1, <3>3 DEF NoEngine
    <3> QED BY <2>5, <3>1, <3>2, <3>3, <3>4
  <2>8. CASE Unsubscribe(c)
    <3>1. UNCHANGED <<lock, last, poller, faults>>  BY <2>8 DEF Unsubscribe
    <3>2. NoEngine  BY <2>8 DEF Unsubscribe, Inv, Sound, StopUnderWay
    <3>3. NoEngine'
      <4>1. caller'[c] = "poller"  BY <2>8, Types DEF Inv, Unsubscribe, Goto
      <4> QED BY <4>1 DEF Inv, Sound, StopUnderWay
    <3>4. NoPoller' <=> NoPoller  BY <3>1 DEF NoPoller
    <3> QED BY <2>5, <3>1, <3>2, <3>3, <3>4
  <2>9. CASE JoinWatcher(c) \/ StopFallback(c) \/ JoinPoller(c)
    <3>1. UNCHANGED <<lock, last, poller, engine, faults>>  BY <2>9 DEF JoinWatcher, StopFallback, JoinPoller
    <3>2. SameEngines  BY <3>1 DEF SameEngines
    <3> QED BY <3>1, <3>2, QuietNotSeen
  <2> QED BY <1>2, <2>3, <2>4, <2>6, <2>7, <2>8, <2>9 DEF Stopping
<1> QED BY <1>1, <1>2

\* An upgrade tells the polling thread in the section that starts the engine.
LEMMA UpgradeStep == ASSUME Inv, Inv', NEW w \in Watchers, Upgrade(w) PROVE Step
<1>1. lock = None /\ lock' = w /\ last' = last /\ PollerAlive /\ ref.engine = None  BY DEF Upgrade
<1>2. PICK e \in Engines : StartEngine(e) /\ ref' = [ref EXCEPT !.engine = e]  BY DEF Upgrade
<1>3. NoEngine  BY <1>1 DEF Inv, Sound, ExecutorIsKnown, NoEngine
<1>4. (~NoEngine' /\ faults' = faults) \/ (NoEngine' /\ faults' > faults)  BY <1>2, <1>3, StartedEngine
<1>5. ~NoPoller
  <2>1. ref.poller \in Pollers /\ poller[ref.poller] = "running"
    BY <1>1, PollerPolls, Types, RefWrites DEF Inv, PollerAlive
  <2> QED BY <2>1 DEF NoPoller
<1>6. NoPoller'  BY <1>1 DEF Inv, Sound, UpgradeUnderWay
<1>7. last = "start"  BY <1>5, Types DEF Inv, Sound, StopIsFinal, TypeOK
<1>8. Setting = "on" /\ Setting' = "on"  BY <1>1, <1>7 DEF Setting
<1>9. Executor = "polling"  BY <1>5, ExecutorsAre
<1>10. CASE ~NoEngine' /\ faults' = faults
  <2>1. Executor' = "websocket"  BY <1>10, ExecutorsAre
  <2>2. Switch!Upgrade  BY <1>8, <1>9, <1>10, <2>1 DEF Switch!Upgrade
  <2> QED BY <2>2 DEF Step, Switch!Next
<1>11. CASE NoEngine' /\ faults' > faults
  <2>1. Executor' = "none"  BY <1>6, <1>11, ExecutorsAre
  <2>2. Switch!Fail  BY <1>8, <1>9, <1>11, <2>1 DEF Switch!Fail
  <2> QED BY <2>2 DEF Step, Switch!Next
<1> QED BY <1>4, <1>10, <1>11

\* What else a watcher does is not seen: who ends an upgrade was no caller.
LEMMA WatcherNotSeen ==
    ASSUME Inv, Inv', NEW w \in Watchers, Wake(w) \/ NothingToUpgrade(w) \/ EndUpgrade(w)
    PROVE  Step
<1>1. UNCHANGED <<last, poller, engine, faults>>  BY DEF Wake, NothingToUpgrade, EndUpgrade
<1>2. (NoPoller' <=> NoPoller) /\ (NoEngine' <=> NoEngine)  BY <1>1 DEF NoPoller, NoEngine
<1>3. lock' = lock \/ (lock' = None /\ lock \notin Callers)
  <2>1. CASE EndUpgrade(w)
    <3>1. watcher[w] = "join_poller" /\ lock' = None  BY <2>1 DEF EndUpgrade
    <3>2. lock = w  BY <3>1 DEF Inv, Sound, LockIsHeld
    <3> QED BY <3>1, <3>2
  <2>2. CASE ~EndUpgrade(w)  BY <2>2 DEF Wake, NothingToUpgrade
  <2> QED BY <2>1, <2>2
<1>4. None \notin Callers  OBVIOUS
<1>5. Setting' = Setting  BY <1>1, <1>3, <1>4 DEF Setting
<1> QED BY <1>1, <1>2, <1>5, NotSeen

\* Every step is one of the switch or is not seen.
LEMMA NextStep == Inv /\ Inv' /\ [Next]_vars => Step
<1> SUFFICES ASSUME Inv, Inv', [Next]_vars PROVE Step  OBVIOUS
<1>1. ASSUME NEW m \in Monitors, MonitorThread(m) PROVE Step
  BY <1>1, MonitorKeeps, QuietNotSeen DEF Inv, Quiet
<1>2. ASSUME NEW l \in Loops, LoopEnds(l) PROVE Step  BY <1>2, LoopKeeps, QuietNotSeen DEF Inv, Quiet
<1>3. ASSUME NEW p \in Pollers, PollerEnds(p) PROVE Step
  <2>1. UNCHANGED <<lock, last, engine, faults>> /\ poller[p] = "told" /\ poller' = [poller EXCEPT ![p] = "dead"]
    BY <1>3 DEF PollerEnds
  <2>2. NoPoller' <=> NoPoller  BY <2>1, Types DEF Inv, NoPoller
  <2>3. NoEngine' <=> NoEngine  BY <2>1 DEF NoEngine
  <2>4. Setting' = Setting  BY <2>1 DEF Setting
  <2> QED BY <2>1, <2>2, <2>3, <2>4, NotSeen
<1>4. CASE Environment \/ UNCHANGED vars
  <2>1. UNCHANGED <<lock, last, poller, engine, faults>>  BY <1>4 DEF Environment, vars
  <2>2. SameEngines  BY <2>1 DEF SameEngines
  <2> QED BY <2>1, <2>2, QuietNotSeen
<1> QED BY <1>1, <1>2, <1>3, <1>4, StartStep, StopSteps, UpgradeStep, WatcherNotSeen DEF Next, Watching

\* Starts, stops and upgrades come to one executor that is switched on,
\* replaced and switched off (execution_thread.py), for any threads and
\* engines and however many joins time out.
THEOREM LifecycleImplementsSwitch == Spec => ImplementsSwitch
<1>1. Init => Switch!Init
  <2> SUFFICES ASSUME Init PROVE Switch!Init  OBVIOUS
  <2>1. Inv  BY InitInv
  <2>2. lock = None /\ last = "stop" /\ faults = 0  BY DEF Init
  <2>3. NoPoller /\ NoEngine /\ ExecutorIsKnown  BY <2>1, <2>2 DEF Inv, Sound, StopIsFinal
  <2>4. Executor = "none"  BY <2>3, ExecutorIs DEF ExecutorTold
  <2>5. Setting = "off"  BY <2>2 DEF Setting
  <2> QED BY <2>2, <2>4, <2>5 DEF Switch!Init
<1>2. Inv /\ Inv' /\ [Next]_vars => [Switch!Next]_<<Setting, Executor, faults>>
  BY NextStep DEF Step
<1>3. Inv /\ Inv' /\ [Next]_vars => [Switch!Next]_Switch!vars
  BY <1>2 DEF Switch!vars
<1> QED BY <1>1, <1>3, Invariance, PTL DEF Spec, ImplementsSwitch, Switch!Spec
================================================================================
