--------------------------- MODULE PendingIndexProofs ---------------------------
(***************************************************************************)
(* Proofs about PendingIndex for all orders, symbols and numbers of stops.  *)
(*                                                                         *)
(* The index misses no order because the engine counts as running before it *)
(* is built: an order committed after the rebuild is reported, and to the    *)
(* engine object that serves.  The counts cover the index because one        *)
(* thread takes orders out of it, which it found there.  The feed follows    *)
(* the counts because every change that opens a gap leaves a call behind      *)
(* that closes it.                                                          *)
(***************************************************************************)
EXTENDS PendingIndex, FiniteSetTheorems, TLAPS

USE SymbolAssumption, StopsAssumption, FiniteAssumption

-----------------------------------------------------------------------------
(* The invariant, by parts.                                                 *)

\* The engine counts as running from the start of start() to that of stop().
RunningMeansServing == running <=> control \in {"rebuild", "subscribe", "on", "blind"}

\* A stop under way is within the bound.
StopsAreCounted == control \in {"clear", "unsubscribe"} => generation < MaxStops

\* An order that is open and not indexed is about to be reported to the engine
\* object that serves.
ReportIsComing ==
    Serving => \A o \in Open :
        \/ o \in index
        \/ placer[o].pc \in {"check", "get"}
        \/ placer[o].pc = "notify" /\ placer[o].generation = generation

\* The tick thread holds orders of one symbol, and a symbol to unsubscribe
\* only between two of them.
TickIsTidy ==
    /\ tick.generation <= generation
    /\ tick.pc = "idle" => tick.todo = {} /\ tick.symbols = {}
    /\ tick.pc = "next" => tick.symbols = {}
    /\ \A o, p \in tick.todo : SymbolOf[o] = SymbolOf[p]
    /\ tick.pc = "completed" => \A o \in tick.todo : tick.symbols = {SymbolOf[o]}

\* Only the tick thread takes orders out of the index.
TickIsInTheIndex ==
    tick.pc # "idle" /\ tick.generation = generation
        => /\ control \notin {"off", "failed", "rebuild", "subscribe"}
           /\ control \in {"on", "blind"} => tick.todo \subseteq index

\* The symbols start and stop call for.
WantedIsUsed == control \notin {"subscribe", "unsubscribe"} => wanted = {}

\* A symbol that is counted but not streamed is about to be subscribed, one
\* that is streamed but not counted about to be unsubscribed.
SubscribePending(s) ==
    \/ control = "subscribe" /\ s \in wanted
    \/ \E o \in Orders : placer[o].pc = "subscribe" /\ SymbolOf[o] = s
UnsubscribePending(s) ==
    \/ control = "unsubscribe" /\ s \in wanted
    \/ tick.pc = "unsubscribe" /\ s \in tick.symbols
FeedIsOnItsWay ==
    \A s \in Symbols \ late :
        /\ count[s] > 0 /\ s \notin feed => SubscribePending(s)
        /\ count[s] = 0 /\ s \in feed => UnsubscribePending(s)

-----------------------------------------------------------------------------
(* Types                                                                   *)

PlacerType == [pc : {"place", "check", "get", "notify", "subscribe", "done"}, generation : 0 .. MaxStops]
TickType == [pc : {"idle", "next", "completed", "unsubscribe"}, todo : SUBSET Orders,
             generation : 0 .. MaxStops, symbols : SUBSET Symbols]

\* The orders of a symbol in a set of orders are finitely many.
LEMMA OrdersAreFinite ==
    ASSUME NEW S \in SUBSET Orders, NEW s
    PROVE  /\ OrdersOf(S, s) \subseteq S /\ IsFiniteSet(OrdersOf(S, s))
           /\ Cardinality(OrdersOf(S, s)) \in Nat
           /\ Cardinality(OrdersOf(S, s)) = 0 <=> OrdersOf(S, s) = {}
  <1>1. OrdersOf(S, s) \subseteq S /\ OrdersOf(S, s) \subseteq Orders
    BY DEF OrdersOf
  <1>2. IsFiniteSet(OrdersOf(S, s))
    BY <1>1, FS_Subset
  <1>. QED  BY <1>1, <1>2, FS_CardinalityType, FS_EmptySet

\* A placing thread moves to another step.
LEMMA PlacerMoves ==
    ASSUME TypeOK, NEW o \in Orders,
           NEW pc \in {"place", "check", "get", "notify", "subscribe", "done"}, At(o, pc)
    PROVE  /\ placer' \in [Orders -> PlacerType]
           /\ placer'[o] = [pc |-> pc, generation |-> placer[o].generation]
           /\ \A p \in Orders \ {o} : placer'[p] = placer[p]
  BY DEF TypeOK, At, PlacerType

\* The tick thread keeps well-typed data.
LEMMA LookTick ==
    ASSUME TypeOK, NEW o \in Orders, NEW executed \in BOOLEAN, Look(o, executed)
    PROVE  /\ tick' \in TickType
           /\ tick'.generation = tick.generation
           /\ tick'.todo \subseteq tick.todo
           /\ \/ tick'.pc \in {"idle", "next"} /\ tick'.symbols = tick.symbols
              \/ tick'.pc = "completed" /\ tick'.symbols = {SymbolOf[o]} /\ o \in tick.todo
           /\ tick'.pc = "idle" => tick'.todo = {}
  <1>1. /\ tick.pc \in {"idle", "next", "completed", "unsubscribe"} /\ tick.todo \in SUBSET Orders
        /\ tick.generation \in 0 .. MaxStops /\ tick.symbols \in SUBSET Symbols /\ o \in tick.todo
        /\ tick = [pc |-> tick.pc, todo |-> tick.todo, generation |-> tick.generation, symbols |-> tick.symbols]
    BY DEF TypeOK, Look
  <1>2. SymbolOf[o] \in Symbols
    OBVIOUS
  <1>3. CASE status[o] = "open" /\ ~executed
    <2>1. tick' = [pc |-> IF tick.todo = {o} THEN "idle" ELSE "next", todo |-> tick.todo \ {o},
                   generation |-> tick.generation, symbols |-> tick.symbols]
      BY <1>1, <1>3 DEF Look
    <2>2. CASE tick.todo = {o}
      <3>1. tick' = [pc |-> "idle", todo |-> {}, generation |-> tick.generation, symbols |-> tick.symbols]
        BY <2>1, <2>2
      <3>. QED  BY <1>1, <3>1 DEF TickType
    <2>3. CASE tick.todo # {o}
      <3>1. tick' = [pc |-> "next", todo |-> tick.todo \ {o},
                     generation |-> tick.generation, symbols |-> tick.symbols]
        BY <2>1, <2>3
      <3>. QED  BY <1>1, <3>1 DEF TickType
    <2>. QED  BY <2>2, <2>3
  <1>4. CASE ~(status[o] = "open" /\ ~executed)
    <2>1. tick' = [pc |-> "completed", todo |-> tick.todo,
                   generation |-> tick.generation, symbols |-> {SymbolOf[o]}]
      BY <1>1, <1>4 DEF Look
    <2>. QED  BY <1>1, <1>2, <2>1 DEF TickType
  <1>. QED  BY <1>3, <1>4

\* What a tick thread is left with after a report and after the call.
LEMMA ReportTick ==
    ASSUME TypeOK, NEW o, NotifyCompleted(o) \/ Unsubscribe
    PROVE  /\ tick' \in TickType
           /\ tick'.generation = tick.generation /\ tick'.todo \subseteq tick.todo
           /\ tick'.pc = "idle" => tick'.todo = {}
           /\ \/ tick'.pc \in {"idle", "next"} /\ tick'.symbols = {}
              \/ NotifyCompleted(o) /\ tick'.pc = "unsubscribe" /\ tick'.symbols = tick.symbols
  <1>1. /\ tick.pc \in {"idle", "next", "completed", "unsubscribe"} /\ tick.todo \in SUBSET Orders
        /\ tick.generation \in 0 .. MaxStops /\ tick.symbols \in SUBSET Symbols
        /\ tick = [pc |-> tick.pc, todo |-> tick.todo, generation |-> tick.generation, symbols |-> tick.symbols]
    BY DEF TypeOK
  <1>2. PICK rest \in {tick.todo, tick.todo \ {o}} :
          \/ tick' = [tick EXCEPT !.todo = rest, !.pc = IF rest = {} THEN "idle" ELSE "next", !.symbols = {}]
          \/ NotifyCompleted(o) /\ tick' = [tick EXCEPT !.todo = rest, !.pc = "unsubscribe"]
    <2>1. CASE NotifyCompleted(o)
      BY <2>1 DEF NotifyCompleted
    <2>2. CASE Unsubscribe
      <3>1. tick' = [tick EXCEPT !.pc = IF tick.todo = {} THEN "idle" ELSE "next", !.symbols = {}]
        BY <2>2 DEF Unsubscribe
      <3>2. [tick EXCEPT !.pc = IF tick.todo = {} THEN "idle" ELSE "next", !.symbols = {}]
            = [tick EXCEPT !.todo = tick.todo, !.pc = IF tick.todo = {} THEN "idle" ELSE "next", !.symbols = {}]
        BY <1>1
      <3>. QED  BY <3>1, <3>2
    <2>. QED  BY <2>1, <2>2
  <1>3. CASE NotifyCompleted(o) /\ tick' = [tick EXCEPT !.todo = rest, !.pc = "unsubscribe"]
    <2>1. tick' = [pc |-> "unsubscribe", todo |-> rest, generation |-> tick.generation, symbols |-> tick.symbols]
      BY <1>1, <1>3
    <2>. QED  BY <1>1, <1>3, <2>1 DEF TickType
  <1>4. CASE tick' = [tick EXCEPT !.todo = rest, !.pc = IF rest = {} THEN "idle" ELSE "next", !.symbols = {}]
    <2>1. CASE rest = {}
      <3>1. tick' = [pc |-> "idle", todo |-> rest, generation |-> tick.generation, symbols |-> {}]
        BY <1>1, <1>4, <2>1
      <3>. QED  BY <1>1, <2>1, <3>1 DEF TickType
    <2>2. CASE rest # {}
      <3>1. tick' = [pc |-> "next", todo |-> rest, generation |-> tick.generation, symbols |-> {}]
        BY <1>1, <1>4, <2>2
      <3>. QED  BY <1>1, <2>2, <3>1 DEF TickType
    <2>. QED  BY <2>1, <2>2
  <1>. QED  BY <1>2, <1>3, <1>4

\* All variables hold values of their kind.
LEMMA StepType == TypeOK /\ StopsAreCounted /\ [Next]_vars => TypeOK'
  <1>. SUFFICES ASSUME TypeOK, StopsAreCounted, [Next]_vars PROVE TypeOK'
    OBVIOUS
  <1>. USE DEF TypeOK
  <1>0. CASE UNCHANGED vars
    BY <1>0 DEF vars
  <1>1. ASSUME NEW o \in Orders, Placing(o) PROVE TypeOK'
    <2>1. placer' \in [Orders -> PlacerType]
      <3>1. CASE Get(o)
        BY <3>1 DEF Get, PlacerType
      <3>2. CASE \E pc \in {"place", "check", "get", "notify", "subscribe", "done"} : At(o, pc)
        BY <3>2, PlacerMoves
      <3>. QED  BY <1>1, <3>1, <3>2 DEF Placing, Place, Check, NotifyPlaced, Subscribe
    <2>2. count' \in [Symbols -> Nat] /\ index' \subseteq Orders
      BY <1>1 DEF Placing, Place, Check, Get, NotifyPlaced, Subscribe
    <2>3. feed' \subseteq Symbols /\ late' \subseteq Symbols
      BY <1>1 DEF Placing, Place, Check, Get, NotifyPlaced, Subscribe, Subscribed
    <2>4. status' \in [Orders -> {"none", "open", "closed"}] /\ UNCHANGED <<engine, tick>>
      BY <1>1 DEF Placing, Place, Check, Get, NotifyPlaced, Subscribe
    <2>. QED  BY <2>1, <2>2, <2>3, <2>4 DEF engine, PlacerType
  <1>2. ASSUME NEW o \in Orders, Close(o) PROVE TypeOK'
    BY <1>2 DEF Close, engine
  <1>3. ASSUME NEW s \in Symbols, Tick(s) PROVE TypeOK'
    <2>1. tick' \in TickType
      BY <1>3 DEF Tick, TickType, OrdersOf
    <2>. QED  BY <1>3, <2>1 DEF Tick, engine, TickType
  <1>4. ASSUME NEW o \in Orders, NEW x \in BOOLEAN, Look(o, x) PROVE TypeOK'
    <2>1. tick' \in TickType
      BY <1>4, LookTick
    <2>2. status' \in [Orders -> {"none", "open", "closed"}]
      BY <1>4 DEF Look
    <2>. QED  BY <1>4, <2>1, <2>2 DEF Look, engine, TickType
  <1>5. ASSUME NEW o \in Orders, NotifyCompleted(o) PROVE TypeOK'
    <2>1. tick' \in TickType
      BY <1>5, ReportTick
    <2>2. index' \subseteq Orders /\ UNCHANGED <<status, engine, feed, placer, late>>
      BY <1>5 DEF NotifyCompleted
    <2>3. count' = count \/ (count[SymbolOf[o]] > 0 /\ count' = [count EXCEPT ![SymbolOf[o]] = @ - 1])
      BY <1>5 DEF NotifyCompleted
    <2>4. count' \in [Symbols -> Nat]
      BY <2>3
    <2>. QED  BY <2>1, <2>2, <2>4 DEF engine, TickType
  <1>6. CASE Unsubscribe
    <2>1. tick' \in TickType
      BY <1>6, ReportTick
    <2>. QED  BY <1>6, <2>1 DEF Unsubscribe, Unsubscribed, engine, TickType
  <1>7. CASE Controlling
    <2>1. \A S \in SUBSET Orders : [s \in Symbols |-> Cardinality(OrdersOf(S, s))] \in [Symbols -> Nat]
      BY OrdersAreFinite
    <2>2. Open \subseteq Orders
      BY DEF Open
    <2>3. count' \in [Symbols -> Nat]
      BY <1>7, <2>1, <2>2
      DEF Controlling, Start, Rebuild, RebuildFails, SubscribeAll, Stop, ClearCounts, UnsubscribeAll, Drop, SubscribeCritical
    <2>4. index' \subseteq Orders /\ wanted' \subseteq Symbols /\ feed' \subseteq Symbols
      BY <1>7, <2>2
      DEF Controlling, Start, Rebuild, RebuildFails, SubscribeAll, Stop, ClearCounts, UnsubscribeAll, Drop, SubscribeCritical, Subscribed
    <2>5. generation' \in 0 .. MaxStops
      BY <1>7
      DEF StopsAreCounted, Controlling, Start, Rebuild, RebuildFails, SubscribeAll, Stop, ClearCounts, UnsubscribeAll, Drop, SubscribeCritical
    <2>6. /\ running' \in BOOLEAN /\ late' \subseteq Symbols /\ UNCHANGED <<status, placer, tick>>
          /\ control' \in {"off", "failed", "rebuild", "subscribe", "on", "blind", "clear", "unsubscribe"}
      BY <1>7
      DEF Controlling, Start, Rebuild, RebuildFails, SubscribeAll, Stop, ClearCounts, UnsubscribeAll, Drop, SubscribeCritical, Subscribed
    <2>. QED  BY <2>3, <2>4, <2>5, <2>6
  <1>. QED  BY <1>0, <1>1, <1>2, <1>3, <1>4, <1>5, <1>6, <1>7 DEF Next, Ticking

ControlInv == StopsAreCounted /\ RunningMeansServing /\ WantedIsUsed

\* Start and stop run one after the other.
LEMMA StepControl == TypeOK /\ ControlInv /\ [Next]_vars => ControlInv'
  <1>. SUFFICES ASSUME TypeOK, ControlInv, [Next]_vars PROVE ControlInv'
    OBVIOUS
  <1>. USE DEF ControlInv, StopsAreCounted, RunningMeansServing, WantedIsUsed
  <1>1. CASE UNCHANGED engine
    BY <1>1 DEF engine
  <1>2. CASE Controlling
    BY <1>2 DEF TypeOK, Controlling, Start, Rebuild, RebuildFails, SubscribeAll, Stop, ClearCounts, UnsubscribeAll, Drop, SubscribeCritical
  <1>. QED
    BY <1>1, <1>2
    DEF Next, vars, engine, Ticking, Placing, Place, Check, Get, NotifyPlaced, Subscribe, Close,
        Tick, Look, NotifyCompleted, Unsubscribe

\* The tick thread keeps its data tidy.
LEMMA StepTick == TypeOK /\ TickIsTidy /\ [Next]_vars => TickIsTidy'
  <1>. SUFFICES ASSUME TypeOK, TickIsTidy, [Next]_vars PROVE TickIsTidy'
    OBVIOUS
  <1>. USE DEF TickIsTidy
  <1>1. CASE UNCHANGED <<tick, generation>>
    BY <1>1
  <1>2. CASE UnsubscribeAll \/ Drop
    BY <1>2 DEF UnsubscribeAll, Drop, TypeOK
  <1>3. ASSUME NEW s \in Symbols, Tick(s) PROVE TickIsTidy'
    BY <1>3 DEF Tick, engine, OrdersOf, TypeOK
  <1>4. ASSUME NEW o \in Orders, NEW x \in BOOLEAN, Look(o, x) PROVE TickIsTidy'
    <2>1. generation' = generation
      BY <1>4 DEF Look, engine
    <2>. QED  BY <1>4, <2>1, LookTick DEF Look
  <1>5. ASSUME NEW o, NotifyCompleted(o) \/ Unsubscribe PROVE TickIsTidy'
    <2>1. generation' = generation
      BY <1>5 DEF NotifyCompleted, Unsubscribe, engine
    <2>. QED  BY <1>5, <2>1, ReportTick
  <1>. QED
    BY <1>1, <1>2, <1>3, <1>4, <1>5
    DEF Next, vars, engine, Ticking, Placing, Place, Check, Get, NotifyPlaced, Subscribe, Close,
        Controlling, Start, Rebuild, RebuildFails, SubscribeAll, Stop, ClearCounts

\* An order that the tick thread holds of the current engine is in its index.
LEMMA StepTickIndex ==
    TypeOK /\ ControlInv /\ TickIsTidy /\ TickIsInTheIndex /\ [Next]_vars => TickIsInTheIndex'
  <1>. SUFFICES ASSUME TypeOK, ControlInv, TickIsTidy, TickIsInTheIndex, [Next]_vars PROVE TickIsInTheIndex'
    OBVIOUS
  <1>. USE DEF TickIsInTheIndex
  <1>1. CASE UNCHANGED <<tick, generation, control, index>>
    BY <1>1
  <1>2. CASE Controlling
    BY <1>2 DEF TypeOK, TickIsTidy,
                Controlling, Start, Rebuild, RebuildFails, SubscribeAll, Stop, ClearCounts, UnsubscribeAll, Drop, SubscribeCritical
  <1>3. ASSUME NEW s \in Symbols, Tick(s) PROVE TickIsInTheIndex'
    BY <1>3 DEF Tick, engine, OrdersOf, TypeOK
  <1>4. ASSUME NEW o \in Orders, NEW x \in BOOLEAN, Look(o, x) PROVE TickIsInTheIndex'
    BY <1>4, LookTick DEF Look, engine
  <1>5. ASSUME NEW o \in Orders, NotifyCompleted(o) PROVE TickIsInTheIndex'
    <2>1. /\ tick'.generation = tick.generation /\ tick.pc # "idle" /\ UNCHANGED <<generation, control>>
          /\ tick'.todo = tick.todo \ {o}
          /\ tick.generation = generation => index' = index \ {o}
      BY <1>5 DEF NotifyCompleted, engine, TypeOK
    <2>. QED  BY <2>1
  <1>6. CASE Unsubscribe
    BY <1>6, ReportTick DEF Unsubscribe, engine
  <1>7. ASSUME NEW o \in Orders, NotifyPlaced(o) PROVE TickIsInTheIndex'
    BY <1>7 DEF NotifyPlaced, engine
  <1>. QED
    BY <1>1, <1>2, <1>3, <1>4, <1>5, <1>6, <1>7
    DEF Next, vars, engine, Ticking, Placing, Place, Check, Get, Subscribe, Close

-----------------------------------------------------------------------------
(* No open order is missed.                                                 *)

\* Whatever is committed, reported, looked at or closed, an open order is
\* indexed or its report is coming.
LEMMA StepReport == TypeOK /\ ControlInv /\ ReportIsComing /\ [Next]_vars => ReportIsComing'
  <1>. SUFFICES ASSUME TypeOK, ControlInv, ReportIsComing, [Next]_vars PROVE ReportIsComing'
    OBVIOUS
  <1>. USE DEF ReportIsComing, Serving, Open
  <1>0. CASE UNCHANGED vars
    BY <1>0 DEF vars
  <1>1. ASSUME NEW o \in Orders, Place(o) PROVE ReportIsComing'
    <2>1. At(o, "check") /\ placer'[o].pc = "check" /\ \A p \in Orders \ {o} : placer'[p] = placer[p]
      BY <1>1 DEF Place, At, TypeOK
    <2>2. \A p \in Orders \ {o} : status'[p] = status[p]
      BY <1>1 DEF Place, TypeOK
    <2>. QED  BY <1>1, <2>1, <2>2 DEF Place, engine
  <1>2. ASSUME NEW o \in Orders, Check(o) PROVE ReportIsComing'
    <2>1. status[o] = "open" /\ Serving => placer'[o].pc = "get"
      <3>. SUFFICES ASSUME status[o] = "open", Serving PROVE placer'[o].pc = "get"
        OBVIOUS
      <3>1. running
        BY DEF ControlInv, RunningMeansServing
      <3>2. At(o, "get")
        BY <1>2, <3>1 DEF Check
      <3>. QED  BY <3>2 DEF At, TypeOK
    <2>2. \A p \in Orders \ {o} : placer'[p] = placer[p]
      BY <1>2, PlacerMoves DEF Check
    <2>. QED  BY <1>2, <2>1, <2>2 DEF Check, engine
  <1>3. ASSUME NEW o \in Orders, Get(o) PROVE ReportIsComing'
    BY <1>3 DEF Get, engine, TypeOK
  <1>4. ASSUME NEW o \in Orders, NotifyPlaced(o) PROVE ReportIsComing'
    <2>1. \A p \in Orders \ {o} : placer'[p] = placer[p]
      BY <1>4, PlacerMoves DEF NotifyPlaced
    <2>2. index \subseteq index' /\ (placer[o].generation = generation => o \in index')
      BY <1>4 DEF NotifyPlaced
    <2>3. placer[o].pc = "notify" /\ UNCHANGED <<status, control, generation>>
      BY <1>4 DEF NotifyPlaced, engine
    <2>. QED  BY <2>1, <2>2, <2>3
  <1>5. ASSUME NEW o \in Orders, Subscribe(o) PROVE ReportIsComing'
    <2>1. \A p \in Orders \ {o} : placer'[p] = placer[p]
      BY <1>5, PlacerMoves DEF Subscribe
    <2>. QED  BY <1>5, <2>1 DEF Subscribe, engine
  <1>6. ASSUME NEW o \in Orders, Close(o) PROVE ReportIsComing'
    BY <1>6 DEF Close, engine, TypeOK
  <1>7. CASE Ticking
    <2>1. \A o \in Orders : status'[o] = "open" => status[o] = "open"
      BY <1>7 DEF Ticking, Tick, Look, NotifyCompleted, Unsubscribe, TypeOK
    <2>2. \A o \in Orders : o \in index /\ status[o] = "open" => o \in index'
      BY <1>7 DEF Ticking, Tick, Look, NotifyCompleted, Unsubscribe
    <2>3. UNCHANGED <<placer, control, generation>>
      BY <1>7 DEF Ticking, Tick, Look, NotifyCompleted, Unsubscribe, engine
    <2>. QED  BY <2>1, <2>2, <2>3
  <1>8. CASE Controlling
    BY <1>8 DEF Controlling, Start, Rebuild, RebuildFails, SubscribeAll, Stop, ClearCounts, UnsubscribeAll, Drop, SubscribeCritical
  <1>. QED
    BY <1>0, <1>1, <1>2, <1>3, <1>4, <1>5, <1>6, <1>7, <1>8 DEF Next, Placing

-----------------------------------------------------------------------------
(* The counts cover the index.                                              *)

Counting == Serving \/ control = "blind"

\* One order more, or one less, in a set of orders.
LEMMA OneOrder ==
    ASSUME NEW S \in SUBSET Orders, NEW o \in Orders, NEW s
    PROVE  /\ s # SymbolOf[o] => OrdersOf(S \cup {o}, s) = OrdersOf(S, s) /\ OrdersOf(S \ {o}, s) = OrdersOf(S, s)
           /\ Cardinality(OrdersOf(S \cup {o}, SymbolOf[o])) <= Cardinality(OrdersOf(S, SymbolOf[o])) + 1
           /\ o \in S => Cardinality(OrdersOf(S \ {o}, SymbolOf[o])) = Cardinality(OrdersOf(S, SymbolOf[o])) - 1
  <1>. DEFINE T == OrdersOf(S, SymbolOf[o])
  <1>1. /\ OrdersOf(S \cup {o}, SymbolOf[o]) = T \cup {o}
        /\ OrdersOf(S \ {o}, SymbolOf[o]) = T \ {o}
        /\ o \in S => o \in T
    BY DEF OrdersOf
  <1>2. IsFiniteSet(T) /\ Cardinality(T) \in Nat
    BY OrdersAreFinite
  <1>3. Cardinality(T \cup {o}) <= Cardinality(T) + 1
    <2>. HIDE DEF T
    <2>1. Cardinality(T \cup {o}) = IF o \in T THEN Cardinality(T) ELSE Cardinality(T) + 1
      BY <1>2, FS_AddElement
    <2>2. Cardinality(T \cup {o}) \in {Cardinality(T), Cardinality(T) + 1}
      BY <2>1
    <2>. QED  BY <1>2, <2>2
  <1>4. o \in T => Cardinality(T \ {o}) = Cardinality(T) - 1
    <2>. HIDE DEF T
    <2>. QED  BY <1>2, FS_RemoveElement
  <1>5. s # SymbolOf[o] => OrdersOf(S \cup {o}, s) = OrdersOf(S, s) /\ OrdersOf(S \ {o}, s) = OrdersOf(S, s)
    BY DEF OrdersOf
  <1>. QED  BY <1>1, <1>3, <1>4, <1>5

\* A report adds one to both sides; the tick thread takes one from both.
LEMMA StepCount ==
    TypeOK /\ TickIsInTheIndex /\ IndexedAreCounted /\ [Next]_vars => IndexedAreCounted'
  <1>. SUFFICES ASSUME TypeOK, TickIsInTheIndex, IndexedAreCounted, [Next]_vars PROVE IndexedAreCounted'
    OBVIOUS
  <1>. USE DEF IndexedAreCounted
  <1>1. CASE UNCHANGED <<index, count, control>>
    BY <1>1 DEF Serving
  <1>2. ASSUME NEW o \in Orders, NotifyPlaced(o), placer[o].generation = generation PROVE IndexedAreCounted'
    <2>1. index' = index \cup {o} /\ count' = [count EXCEPT ![SymbolOf[o]] = @ + 1] /\ control' = control
      BY <1>2 DEF NotifyPlaced, engine
    <2>2. index \in SUBSET Orders /\ count \in [Symbols -> Nat] /\ SymbolOf[o] \in Symbols
      BY DEF TypeOK
    <2>3. SUFFICES ASSUME Counting, NEW s \in Symbols PROVE Cardinality(OrdersOf(index', s)) <= count'[s]
      BY <2>1 DEF Serving, Counting
    <2>4. Cardinality(OrdersOf(index, s)) <= count[s] /\ Cardinality(OrdersOf(index, s)) \in Nat
      BY <2>2, <2>3, OrdersAreFinite DEF Counting
    <2>5. CASE s = SymbolOf[o]
      <3>1. /\ Cardinality(OrdersOf(index', s)) <= Cardinality(OrdersOf(index, s)) + 1
            /\ Cardinality(OrdersOf(index', s)) \in Nat
        BY <2>1, <2>2, <2>5, OneOrder, OrdersAreFinite
      <3>. QED  BY <2>1, <2>2, <2>4, <2>5, <3>1
    <2>6. CASE s # SymbolOf[o]
      BY <2>1, <2>2, <2>4, <2>6, OneOrder
    <2>. QED  BY <2>5, <2>6
  <1>3. ASSUME NEW o \in Orders, NotifyCompleted(o), tick.generation = generation PROVE IndexedAreCounted'
    <2>1. /\ index' = index \ {o} /\ control' = control /\ o \in tick.todo /\ tick.pc # "idle"
          /\ count[SymbolOf[o]] > 0 => count' = [count EXCEPT ![SymbolOf[o]] = @ - 1]
      BY <1>3 DEF NotifyCompleted, engine
    <2>2. index \in SUBSET Orders /\ count \in [Symbols -> Nat] /\ SymbolOf[o] \in Symbols
      BY DEF TypeOK
    <2>3. SUFFICES ASSUME Counting, NEW s \in Symbols PROVE Cardinality(OrdersOf(index', s)) <= count'[s]
      BY <2>1 DEF Serving, Counting
    <2>4. Cardinality(OrdersOf(index, s)) <= count[s] /\ Cardinality(OrdersOf(index, s)) \in Nat
      BY <2>2, <2>3, OrdersAreFinite DEF Counting
    <2>5. o \in index
      BY <1>3, <2>1, <2>3 DEF TickIsInTheIndex, Counting, Serving
    <2>6. /\ Cardinality(OrdersOf(index, SymbolOf[o])) <= count[SymbolOf[o]]
          /\ Cardinality(OrdersOf(index, SymbolOf[o])) \in Nat
          /\ Cardinality(OrdersOf(index', SymbolOf[o])) = Cardinality(OrdersOf(index, SymbolOf[o])) - 1
          /\ Cardinality(OrdersOf(index', SymbolOf[o])) \in Nat
      BY <2>1, <2>2, <2>3, <2>5, OneOrder, OrdersAreFinite DEF Counting
    <2>7. count' = [count EXCEPT ![SymbolOf[o]] = @ - 1]
      BY <2>1, <2>2, <2>6
    <2>8. CASE s = SymbolOf[o]
      BY <2>2, <2>6, <2>7, <2>8
    <2>9. CASE s # SymbolOf[o]
      BY <2>1, <2>2, <2>4, <2>7, <2>9, OneOrder
    <2>. QED  BY <2>8, <2>9
  <1>4. ASSUME NEW o \in Orders, NotifyCompleted(o), tick.generation # generation PROVE IndexedAreCounted'
    <2>1. index' = index /\ count' = count /\ control' = control
      BY <1>4 DEF NotifyCompleted, engine
    <2>. QED  BY <2>1 DEF Serving
  <1>5. CASE Rebuild
    <2>1. index' = Open /\ count' = [s \in Symbols |-> Cardinality(OrdersOf(Open, s))]
      BY <1>5 DEF Rebuild
    <2>2. \A s \in Symbols : Cardinality(OrdersOf(Open, s)) \in Nat
      BY OrdersAreFinite DEF Open
    <2>. HIDE DEF Open
    <2>. QED  BY <2>1, <2>2
  <1>6. CASE RebuildFails
    <2>1. \A s \in Symbols : Cardinality(OrdersOf({}, s)) = 0
      BY OrdersAreFinite
    <2>. QED  BY <1>6, <2>1 DEF RebuildFails
  <1>7. CASE Start \/ SubscribeAll \/ Stop \/ ClearCounts \/ UnsubscribeAll \/ Drop
    BY <1>7 DEF Start, SubscribeAll, Stop, ClearCounts, UnsubscribeAll, Drop, SubscribeCritical, Serving
  <1>8. ASSUME NEW o \in Orders, NotifyPlaced(o), placer[o].generation # generation PROVE IndexedAreCounted'
    <2>1. index' = index /\ count' = count /\ control' = control
      BY <1>8 DEF NotifyPlaced, engine
    <2>. QED  BY <2>1 DEF Serving
  <1>. QED
    BY <1>1, <1>2, <1>3, <1>4, <1>5, <1>6, <1>7, <1>8
    DEF Next, vars, engine, Ticking, Placing, Place, Check, Get, Subscribe, Close,
        Tick, Look, Unsubscribe, Controlling

-----------------------------------------------------------------------------
(* The feed follows the counts.                                             *)

FeedInv == ControlInv /\ TickIsTidy /\ FeedIsOnItsWay

\* A placing thread changes a count and leaves the call to make.
LEMMA PlacingFeed ==
    ASSUME TypeOK, FeedInv, NEW o \in Orders, Placing(o)
    PROVE  FeedIsOnItsWay'
  <1>. USE DEF FeedIsOnItsWay
  <1>0. /\ UNCHANGED <<control, wanted, tick>>
        /\ SymbolOf[o] \in Symbols /\ count \in [Symbols -> Nat]
    BY DEF Placing, Place, Check, Get, NotifyPlaced, Subscribe, engine, TypeOK
  <1>1. /\ \A p \in Orders \ {o} : placer'[p] = placer[p]
        /\ \A s \in Symbols : UnsubscribePending(s)' <=> UnsubscribePending(s)
    <2>1. \A p \in Orders \ {o} : placer'[p] = placer[p]
      BY DEF Placing, Place, Check, Get, NotifyPlaced, Subscribe, At, TypeOK
    <2>. QED  BY <2>1, <1>0 DEF UnsubscribePending
  <1>2. CASE UNCHANGED <<count, feed, late>> /\ (placer[o].pc = "subscribe" => placer'[o].pc = "subscribe")
    <2>1. \A s \in Symbols : SubscribePending(s) => SubscribePending(s)'
      BY <1>0, <1>1, <1>2 DEF SubscribePending
    <2>. QED  BY <1>1, <1>2, <2>1 DEF FeedInv
  <1>3. CASE NotifyPlaced(o) /\ placer[o].generation = generation
    <2>1. /\ count' = [count EXCEPT ![SymbolOf[o]] = @ + 1] /\ UNCHANGED <<feed, late>>
          /\ placer[o].pc = "notify" /\ (count[SymbolOf[o]] = 0 => placer'[o].pc = "subscribe")
      BY <1>3 DEF NotifyPlaced, At, TypeOK
    <2>2. \A s \in Symbols : SubscribePending(s) => SubscribePending(s)'
      BY <1>0, <1>1, <2>1 DEF SubscribePending
    <2>3. count[SymbolOf[o]] = 0 => SubscribePending(SymbolOf[o])'
      BY <2>1 DEF SubscribePending
    <2>4. count'[SymbolOf[o]] = count[SymbolOf[o]] + 1 /\ \A s \in Symbols \ {SymbolOf[o]} : count'[s] = count[s]
      BY <1>0, <2>1
    <2>. QED  BY <1>0, <1>1, <2>1, <2>2, <2>3, <2>4 DEF FeedInv
  <1>4. CASE Subscribe(o)
    <2>1. /\ UNCHANGED count /\ feed' = feed \cup {SymbolOf[o]} /\ late \subseteq late'
          /\ count[SymbolOf[o]] = 0 => SymbolOf[o] \in late'
      BY <1>4 DEF Subscribe, Subscribed
    <2>2. \A s \in Symbols \ {SymbolOf[o]} : SubscribePending(s) => SubscribePending(s)'
      BY <1>0, <1>1 DEF SubscribePending
    <2>. QED  BY <1>1, <2>1, <2>2 DEF FeedInv
  <1>5. CASE NotifyPlaced(o) /\ placer[o].generation # generation
    BY <1>2, <1>5 DEF NotifyPlaced
  <1>6. CASE Place(o) \/ Check(o) \/ Get(o)
    BY <1>2, <1>6 DEF Place, Check, Get
  <1>. QED  BY <1>3, <1>4, <1>5, <1>6 DEF Placing

\* So does the tick thread.
LEMMA TickingFeed ==
    ASSUME TypeOK, FeedInv, Ticking
    PROVE  FeedIsOnItsWay'
  <1>. USE DEF FeedIsOnItsWay
  <1>0. UNCHANGED <<control, wanted, placer>> /\ count \in [Symbols -> Nat]
    BY DEF Ticking, Tick, Look, NotifyCompleted, Unsubscribe, engine, TypeOK
  <1>1. \A s \in Symbols : SubscribePending(s)' <=> SubscribePending(s)
    BY <1>0 DEF SubscribePending
  <1>2. CASE UNCHANGED <<count, feed, late>> /\ tick.pc # "unsubscribe"
    <2>1. \A s \in Symbols : UnsubscribePending(s) => UnsubscribePending(s)'
      BY <1>0, <1>2 DEF UnsubscribePending
    <2>. QED  BY <1>1, <1>2, <2>1 DEF FeedInv
  <1>3. ASSUME NEW o \in Orders, NotifyCompleted(o) PROVE FeedIsOnItsWay'
    <2>. DEFINE x == SymbolOf[o]
    <2>1. /\ x \in Symbols /\ UNCHANGED <<feed, late>> /\ tick.pc = "completed"
          /\ tick.symbols = {x}
      BY <1>3 DEF NotifyCompleted, FeedInv, TickIsTidy
    <2>2. \A s \in Symbols : UnsubscribePending(s) => UnsubscribePending(s)'
      BY <1>0, <2>1 DEF UnsubscribePending
    <2>3. CASE count' = count
      BY <1>1, <2>1, <2>2, <2>3 DEF FeedInv
    <2>4. CASE count' # count
      <3>1. count[x] > 0 /\ count' = [count EXCEPT ![x] = @ - 1]
        BY <1>3, <2>4 DEF NotifyCompleted
      <3>2. /\ count'[x] = count[x] - 1 /\ count[x] > 0 /\ count'[x] \in Nat
            /\ \A s \in Symbols \ {x} : count'[s] = count[s]
        BY <1>0, <2>1, <3>1
      <3>3. ASSUME count'[x] = 0 PROVE UnsubscribePending(x)'
        <4>1. count[x] <= 1 /\ tick.generation = generation
          BY <1>0, <1>3, <2>1, <2>4, <3>2, <3>3 DEF NotifyCompleted
        <4>2. tick' = [tick EXCEPT !.todo = tick.todo \ {o}, !.pc = "unsubscribe"]
          BY <1>3, <2>1, <3>1, <4>1 DEF NotifyCompleted
        <4>3. tick'.pc = "unsubscribe" /\ x \in tick'.symbols
          BY <2>1, <4>2 DEF TypeOK
        <4>. QED  BY <4>3 DEF UnsubscribePending
      <3>. QED  BY <1>0, <1>1, <2>1, <2>2, <3>2, <3>3 DEF FeedInv
    <2>. QED  BY <2>3, <2>4
  <1>4. CASE Unsubscribe
    <2>1. /\ UNCHANGED count /\ feed' = feed \ tick.symbols
          /\ late' = late \cup {s \in tick.symbols : count[s] > 0}
      BY <1>4 DEF Unsubscribe, Unsubscribed
    <2>2. \A s \in Symbols \ tick.symbols : UnsubscribePending(s) => UnsubscribePending(s)'
      BY <1>0 DEF UnsubscribePending
    <2>. QED  BY <1>0, <1>1, <2>1, <2>2 DEF FeedInv
  <1>5. ASSUME NEW s \in Symbols, Tick(s) PROVE FeedIsOnItsWay'
    BY <1>2, <1>5 DEF Tick
  <1>6. ASSUME NEW o \in Orders, NEW x \in BOOLEAN, Look(o, x) PROVE FeedIsOnItsWay'
    BY <1>2, <1>6 DEF Look
  <1>. QED  BY <1>3, <1>4, <1>5, <1>6 DEF Ticking

\* So do start and stop.
LEMMA ControllingFeed ==
    ASSUME TypeOK, FeedInv, Controlling
    PROVE  FeedIsOnItsWay'
  <1>. USE DEF FeedIsOnItsWay
  <1>0. UNCHANGED <<placer, tick>> /\ count \in [Symbols -> Nat]
    BY DEF Controlling, Start, Rebuild, RebuildFails, SubscribeAll, Stop, ClearCounts, UnsubscribeAll, Drop, SubscribeCritical, TypeOK
  <1>1. CASE Start \/ Stop
    <2>1. /\ UNCHANGED <<count, feed, late, wanted>>
          /\ control \notin {"subscribe", "unsubscribe"} /\ control' \notin {"subscribe", "unsubscribe"}
      BY <1>1 DEF Start, Stop
    <2>. QED  BY <1>0, <2>1 DEF FeedInv, SubscribePending, UnsubscribePending
  <1>2. CASE Rebuild
    <2>1. /\ count' = [s \in Symbols |-> Cardinality(OrdersOf(Open, s))] /\ UNCHANGED feed
          /\ wanted' = {s \in Symbols : OrdersOf(Open, s) # {}}
          /\ control = "rebuild" /\ control' = "subscribe"
          /\ late' = late \cup {s \in Symbols : count[s] > 0 /\ OrdersOf(Open, s) = {}}
      BY <1>2 DEF Rebuild
    <2>2. \A s \in Symbols : /\ count'[s] \in Nat /\ (count'[s] = 0 <=> OrdersOf(Open, s) = {})
                             /\ (OrdersOf(Open, s) # {} => s \in wanted')
      BY <2>1, OrdersAreFinite DEF Open
    <2>3. \A s \in Symbols : /\ OrdersOf(Open, s) # {} => SubscribePending(s)'
                             /\ UnsubscribePending(s) => UnsubscribePending(s)'
      BY <1>0, <2>1, <2>2 DEF SubscribePending, UnsubscribePending
    <2>. HIDE DEF Open
    <2>. QED  BY <1>0, <2>1, <2>2, <2>3 DEF FeedInv
  <1>3. CASE RebuildFails
    <2>1. /\ count' = [s \in Symbols |-> 0] /\ UNCHANGED <<feed, wanted>>
          /\ control = "rebuild" /\ late' = late \cup {s \in Symbols : count[s] > 0}
      BY <1>3 DEF RebuildFails
    <2>2. \A s \in Symbols : UnsubscribePending(s) => UnsubscribePending(s)'
      BY <1>0, <2>1 DEF UnsubscribePending
    <2>. QED  BY <1>0, <2>1, <2>2 DEF FeedInv
  <1>4. CASE SubscribeAll
    <2>1. /\ UNCHANGED count /\ feed' = feed \cup wanted /\ control = "subscribe" /\ control' # "subscribe"
          /\ late' = late \cup {s \in wanted : count[s] = 0}
      BY <1>4 DEF SubscribeAll, Subscribed, SubscribeCritical
    <2>2. \A s \in Symbols : /\ UnsubscribePending(s) => UnsubscribePending(s)'
                             /\ s \notin wanted /\ SubscribePending(s) => SubscribePending(s)'
      BY <1>0, <2>1 DEF SubscribePending, UnsubscribePending
    <2>. QED  BY <1>0, <2>1, <2>2 DEF FeedInv
  <1>5. CASE ClearCounts
    <2>1. /\ count' = [s \in Symbols |-> 0] /\ UNCHANGED <<feed, late>>
          /\ wanted' = {s \in Symbols : count[s] > 0} /\ control = "clear" /\ control' = "unsubscribe"
      BY <1>5 DEF ClearCounts
    <2>2. \A s \in Symbols : UnsubscribePending(s) \/ count[s] > 0 => UnsubscribePending(s)'
      BY <1>0, <2>1 DEF UnsubscribePending
    <2>. QED  BY <1>0, <2>1, <2>2 DEF FeedInv
  <1>6. CASE UnsubscribeAll
    <2>1. /\ count' = [s \in Symbols |-> 0] /\ feed' = feed \ wanted
          /\ late' = late \cup {s \in Symbols : count[s] > 0}
      BY <1>6 DEF UnsubscribeAll
    <2>2. \A s \in Symbols \ wanted : UnsubscribePending(s) => UnsubscribePending(s)'
      BY <1>0 DEF UnsubscribePending
    <2>. QED  BY <1>0, <2>1, <2>2 DEF FeedInv
  <1>7. CASE Drop
    <2>1. /\ count' = [s \in Symbols |-> 0] /\ UNCHANGED <<feed, wanted>> /\ control = "failed"
          /\ late' = late \cup {s \in Symbols : count[s] > 0}
      BY <1>7 DEF Drop
    <2>2. \A s \in Symbols : UnsubscribePending(s) => UnsubscribePending(s)'
      BY <1>0, <2>1 DEF UnsubscribePending
    <2>. QED  BY <1>0, <2>1, <2>2 DEF FeedInv
  <1>. QED  BY <1>1, <1>2, <1>3, <1>4, <1>5, <1>6, <1>7 DEF Controlling

-----------------------------------------------------------------------------
(* Together.                                                               *)

IndexInv ==
    ControlInv /\ ReportIsComing /\ TickIsTidy /\ TickIsInTheIndex /\ IndexedAreCounted /\ FeedIsOnItsWay

\* The parts hold together from the start on.
LEMMA IndexAlways == Spec => [](TypeOK /\ IndexInv)
  <1>1. Init => TypeOK /\ IndexInv
    <2>. SUFFICES ASSUME Init PROVE TypeOK /\ IndexInv
      OBVIOUS
    <2>1. TypeOK
      <3>1. [pc |-> "place", generation |-> 0] \in PlacerType /\ NoTick \in TickType
        BY DEF PlacerType, TickType, NoTick
      <3>. QED  BY <3>1 DEF Init, TypeOK, PlacerType, TickType
    <2>2. ControlInv /\ ReportIsComing /\ TickIsTidy /\ TickIsInTheIndex /\ IndexedAreCounted
      BY DEF Init, NoTick, ControlInv, StopsAreCounted, RunningMeansServing, WantedIsUsed, ReportIsComing,
             TickIsTidy, TickIsInTheIndex, IndexedAreCounted, Serving
    <2>3. FeedIsOnItsWay
      BY DEF Init, FeedIsOnItsWay
    <2>. QED  BY <2>1, <2>2, <2>3 DEF IndexInv
  <1>2. TypeOK /\ IndexInv /\ [Next]_vars => (TypeOK /\ IndexInv)'
    <2>. SUFFICES ASSUME TypeOK, IndexInv, [Next]_vars PROVE (TypeOK /\ IndexInv)'
      OBVIOUS
    <2>1. TypeOK'
      BY StepType DEF IndexInv, ControlInv
    <2>2. ControlInv' /\ TickIsTidy'
      BY StepControl, StepTick DEF IndexInv
    <2>3. ReportIsComing' /\ TickIsInTheIndex' /\ IndexedAreCounted'
      BY StepReport, StepTickIndex, StepCount DEF IndexInv
    <2>4. FeedIsOnItsWay'
      <3>1. CASE UNCHANGED vars
        BY <3>1 DEF vars, IndexInv, FeedIsOnItsWay, SubscribePending, UnsubscribePending
      <3>2. ASSUME NEW o \in Orders, Close(o) PROVE FeedIsOnItsWay'
        BY <3>2 DEF Close, engine, IndexInv, FeedIsOnItsWay, SubscribePending, UnsubscribePending
      <3>. QED  BY <3>1, <3>2, PlacingFeed, TickingFeed, ControllingFeed DEF Next, IndexInv, FeedInv
    <2>. QED  BY <2>1, <2>2, <2>3, <2>4 DEF IndexInv
  <1>. QED  BY <1>1, <1>2, PTL DEF Spec

\* All variables hold values of their kind.
THEOREM IndexType == Spec => []TypeOK
  BY IndexAlways, PTL

\* No open order is missed by an engine that serves with an index it built.
THEOREM NoOrderIsMissed == Spec => []OpenOrdersAreIndexed
  <1>1. ReportIsComing => OpenOrdersAreIndexed
    BY DEF ReportIsComing, OpenOrdersAreIndexed
  <1>. QED  BY <1>1, IndexAlways, PTL DEF IndexInv

\* The count of a symbol is never below the number of its indexed orders.
THEOREM CountsCoverTheIndex == Spec => []IndexedAreCounted
  BY IndexAlways, PTL DEF IndexInv

\* With no call under way the proxy streams exactly the counted symbols, unless
\* a call was overtaken by a change of the count.
THEOREM FeedFollowsTheCount == Spec => []FeedFollowsCount
  <1>1. TypeOK /\ FeedIsOnItsWay => FeedFollowsCount
    <2>. SUFFICES ASSUME TypeOK, FeedIsOnItsWay, control \in {"on", "blind"},
                         NEW s \in Symbols \ late, ~CallPending(s)
                  PROVE  s \in feed <=> count[s] > 0
      BY DEF FeedFollowsCount
    <2>1. ~SubscribePending(s) /\ ~UnsubscribePending(s)
      BY DEF CallPending, SubscribePending, UnsubscribePending
    <2>. QED  BY <2>1 DEF FeedIsOnItsWay, TypeOK
  <1>. QED  BY <1>1, IndexAlways, PTL DEF IndexInv
=============================================================================
