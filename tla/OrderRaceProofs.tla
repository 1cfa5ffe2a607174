-------------------------- MODULE OrderRaceProofs --------------------------
(***************************************************************************)
(* Proofs about OrderRace for all orders, quantities and engines.          *)
(*                                                                         *)
(* With several executors the trade check still bounds how often an order  *)
(* trades: a thread that has passed it holds a permission to trade, and an *)
(* order that has traded hands out no more.  The position never holds more *)
(* than was traded: what threads have traded and not yet written, together *)
(* with any value of the position a thread has read, is within it.         *)
(* With a single executor nobody gets between the check and the trade, and *)
(* without cancellations an order that is queued or executed is open, so   *)
(* each step is one of OrderLifecycle or none.                             *)
(***************************************************************************)
EXTENDS OrderRace, FiniteSetTheorems, TLAPS

USE RaceAssumption

-----------------------------------------------------------------------------
(* Types                                                                   *)

\* A quantity is a natural number, in every row.
LEMMA QuantityIsNat ==
    ASSUME NEW row \in Row
    PROVE  row.quantity \in Nat
  <1>1. row.quantity \in Quantities \cup {0}
    BY DEF Row
  <1>2. \A q \in Quantities \cup {0} : q \in Nat
    OBVIOUS
  <1>. QED  BY <1>1, <1>2

Local == [at : Stages, order : Workers, row : Row, seen : Nat \cup {Absent}]

\* A placing thread handles the order it placed and no other.  Types depend
\* on it: a thread leaves idle by placing.
OwnOrder == \A o \in Orders : worker[o].order = o

\* What TypeOK says of a single thread, a single row and the snapshot.
LEMMA ThreadTypes ==
    ASSUME TypeOK
    PROVE  /\ \A w \in Workers : /\ worker[w] \in Local
                                 /\ worker[w].at # "idle" => worker[w].order \in Orders
           /\ \A o \in Orders : orders[o] \in Row
           /\ \A o \in Orders : snapshot.rows[o] \in Row
  BY DEF TypeOK, Local

\* Replacing the local state of one thread.
LEMMA WorkerType ==
    ASSUME TypeOK, NEW w \in Workers, NEW l \in Local,
           l.at # "idle" => l.order \in Orders,
           worker' = [worker EXCEPT ![w] = l]
    PROVE  /\ worker' \in [Workers -> Local]
           /\ \A v \in Workers : worker'[v].at # "idle" => worker'[v].order \in Orders
  BY DEF TypeOK, Local

\* Moving a thread to another stage leaves what it has read.
LEMMA StageType ==
    ASSUME TypeOK, NEW w \in Workers, NEW stage \in Stages,
           worker[w].order \in Orders,
           worker' = [worker EXCEPT ![w].at = stage]
    PROVE  /\ worker' \in [Workers -> Local]
           /\ \A v \in Workers : worker'[v].at # "idle" => worker'[v].order \in Orders
  BY DEF TypeOK, Local

\* A thread with nothing to do, and one that starts on an order.
LEMMA LocalTypes ==
    ASSUME NEW w \in Workers
    PROVE  /\ Free(w) \in Local /\ Free(w).at = "idle"
           /\ \A stage \in Stages, o \in Orders, row \in Row :
                 /\ Working(stage, o, row) \in Local
                 /\ Working(stage, o, row).order = o
                 /\ Working(stage, o, row).at = stage
  BY DEF Free, Working, Local, Row, NoRow, Absent, Stages, Workers

\* Changing the status of one row.
LEMMA StatusType ==
    ASSUME TypeOK, NEW o \in Orders,
           NEW status \in {"none", "open", "complete", "cancelled", "rejected"},
           orders' = [orders EXCEPT ![o].status = status]
    PROVE  orders' \in [Orders -> Row]
  BY DEF TypeOK, Row

Snapshot == [queue : SUBSET Orders, rows : [Orders -> Row], loaded : BOOLEAN]

\* The empty snapshot is one.
LEMMA NoSnapshotType == NoSnapshot \in Snapshot
  BY DEF NoSnapshot, NoRow, Row, Snapshot

\* A commit of the polling engine leaves a snapshot behind.
LEMMA SnapshotType ==
    ASSUME TypeOK, NEW w \in Workers, Expire(w)
    PROVE  snapshot' \in Snapshot
  <1>1. NoSnapshot.rows \in [Orders -> Row]
    BY NoSnapshotType DEF Snapshot
  <1>. QED  BY <1>1 DEF TypeOK, Expire, Snapshot

\* Rows and local copies hold values of their kind, initially ...
LEMMA InitType == Init => TypeOK
  <1>. SUFFICES ASSUME Init PROVE TypeOK
    OBVIOUS
  <1>1. \A q \in Quantities : [NoRow EXCEPT !.quantity = q] = [status |-> "none", quantity |-> q]
    BY DEF NoRow
  <1>2. orders \in [Orders -> Row]
    <2>. DEFINE Placeable == {[NoRow EXCEPT !.quantity = q] : q \in Quantities}
    <2>1. \A row \in Placeable : row \in Row
      BY <1>1 DEF Row
    <2>2. orders \in [Orders -> Placeable]
      BY DEF Init
    <2>. HIDE DEF Placeable
    <2>. QED  BY <2>1, <2>2
  <1>3. worker \in [Workers -> Local] /\ \A w \in Workers : worker[w].at = "idle"
    BY LocalTypes DEF Init
  <1>. QED  BY <1>2, <1>3, NoSnapshotType DEF Init, TypeOK, Local, Snapshot

\* ... and after a step of an executing thread ...
LEMMA ExecuteType ==
    ASSUME TypeOK, NEW w \in Workers, Execute(w)
    PROVE  TypeOK'
  <1>. DEFINE o == worker[w].order
  <1>0. /\ worker[w] \in Local
        /\ worker[w].at # "idle" => o \in Orders
        /\ \A p \in Orders : orders[p] \in Row
    BY ThreadTypes
  <1>a. /\ trades \in [Orders -> Nat] /\ traded \in Nat
        /\ position \in Nat \cup {Absent}
        /\ editor \in [Orders -> {"none", "cancel", "modify"}] /\ crashes \in 0..MaxCrashes
        /\ orders \in [Orders -> Row]
        /\ snapshot \in Snapshot
    BY DEF TypeOK, Snapshot
  <1>b. worker' \in [Workers -> [at    : Stages,
                               order : Workers,
                               row   : Row,
                               seen  : Nat \cup {Absent}]] <=> worker' \in [Workers -> Local]
    BY DEF Local
  <1>1. CASE w \in Orders /\ ExecuteImmediately(w)
    <2>1. PICK stage \in {"process", "execute"} :
             worker' = [worker EXCEPT ![w] = Working(stage, w, orders[w])]
      BY <1>1 DEF ExecuteImmediately
    <2>2. /\ Working(stage, w, orders[w]) \in Local
          /\ Working(stage, w, orders[w]).order \in Orders
      BY <1>0, <1>1, LocalTypes DEF Stages
    <2>3. /\ worker' \in [Workers -> Local]
          /\ \A v \in Workers : worker'[v].at # "idle" => worker'[v].order \in Orders
      BY <2>1, <2>2, WorkerType
    <2>. QED  BY <1>1, <1>a, <1>b, <2>3 DEF ExecuteImmediately, TypeOK, Snapshot
  <1>2. CASE SkipTraded(w)
    <2>1. o \in Orders
      BY <1>0, <1>2 DEF SkipTraded
    <2>2. /\ worker' \in [Workers -> Local]
          /\ \A v \in Workers : worker'[v].at # "idle" => worker'[v].order \in Orders
      <3>1. CASE worker' = [worker EXCEPT ![w].at = "stuck"]
        BY <2>1, <3>1, StageType DEF Stages
      <3>2. CASE worker' = [worker EXCEPT ![w] = Free(w)]
        BY <3>2, LocalTypes, WorkerType
      <3>. QED  BY <1>2, <3>1, <3>2 DEF SkipTraded
    <2>3. orders' \in [Orders -> Row]
      <3>1. CASE orders' = [orders EXCEPT ![o].status = "complete"]
        BY <2>1, <3>1, StatusType
      <3>2. CASE orders' = orders
        BY <1>a, <3>2
      <3>. QED  BY <1>2, <3>1, <3>2 DEF SkipTraded
    <2>4. snapshot' \in Snapshot
      <3>1. CASE Expire(w)
        BY <3>1, SnapshotType
      <3>2. CASE snapshot' = snapshot
        BY <1>a, <3>2
      <3>. QED  BY <1>2, <3>1, <3>2 DEF SkipTraded
    <2>. QED  BY <1>2, <1>a, <1>b, <2>2, <2>3, <2>4 DEF SkipTraded, TypeOK, Snapshot
  <1>3. CASE Decide(w)
    <2>1. o \in Orders
      BY <1>0, <1>3 DEF Decide
    <2>2. /\ worker' \in [Workers -> Local]
          /\ \A v \in Workers : worker'[v].at # "idle" => worker'[v].order \in Orders
      <3>1. CASE worker' = [worker EXCEPT ![w].at = "execute"]
        BY <2>1, <3>1, StageType DEF Stages
      <3>2. CASE worker' = [worker EXCEPT ![w] = Free(w)]
        BY <3>2, LocalTypes, WorkerType
      <3>. QED  BY <1>3, <3>1, <3>2 DEF Decide
    <2>. QED  BY <1>3, <1>a, <1>b, <2>2 DEF Decide, TypeOK, Snapshot
  <1>4. CASE CommitTrade(w)
    <2>1. o \in Orders
      BY <1>0, <1>4 DEF CommitTrade
    <2>2. /\ worker' \in [Workers -> Local]
          /\ \A v \in Workers : worker'[v].at # "idle" => worker'[v].order \in Orders
      BY <1>4, <2>1, StageType DEF CommitTrade, Stages
    <2>3. orders' \in [Orders -> Row]
      BY <1>4, <2>1, StatusType DEF CommitTrade
    <2>4. snapshot' \in Snapshot
      BY <1>4, SnapshotType DEF CommitTrade
    <2>5. trades' \in [Orders -> Nat]
      BY <1>4, <1>a, <2>1 DEF CommitTrade
    <2>6. worker[w].row.quantity \in Nat
      BY <1>0, QuantityIsNat DEF Local
    <2>7. traded' \in Nat
      BY <1>4, <1>a, <2>6 DEF CommitTrade
    <2>. QED  BY <1>4, <1>a, <1>b, <2>2, <2>3, <2>4, <2>5, <2>7 DEF CommitTrade, TypeOK, Snapshot
  <1>5. CASE ReadPosition(w)
    <2>. DEFINE l == [at |-> "write", order |-> o, row |-> orders[o], seen |-> position]
    <2>1. o \in Orders
      BY <1>0, <1>5 DEF ReadPosition
    <2>2. l \in Local /\ l.order \in Orders
      BY <1>0, <1>a, <2>1 DEF Local, Stages, Workers
    <2>3. worker' = [worker EXCEPT ![w] = l]
      BY <1>5 DEF ReadPosition
    <2>. HIDE DEF l
    <2>4. /\ worker' \in [Workers -> Local]
          /\ \A v \in Workers : worker'[v].at # "idle" => worker'[v].order \in Orders
      BY <2>2, <2>3, WorkerType
    <2>. QED  BY <1>5, <1>a, <1>b, <2>4 DEF ReadPosition, TypeOK, Snapshot
  <1>6. CASE WritePosition(w)
    <2>2. /\ worker' \in [Workers -> Local]
          /\ \A v \in Workers : worker'[v].at # "idle" => worker'[v].order \in Orders
      BY <1>6, LocalTypes, WorkerType DEF WritePosition
    <2>4. snapshot' \in Snapshot
      BY <1>6, SnapshotType DEF WritePosition
    <2>5. worker[w].row.quantity \in Nat /\ worker[w].seen \in Nat \cup {Absent}
      BY <1>0, QuantityIsNat DEF Local
    <2>6. position' \in Nat
      BY <1>6, <2>5 DEF WritePosition
    <2>. QED  BY <1>6, <1>a, <1>b, <2>2, <2>4, <2>6 DEF WritePosition, TypeOK, Snapshot
  <1>7. CASE FailExecution(w)
    <2>1. o \in Orders
      BY <1>0, <1>7 DEF FailExecution
    <2>2. /\ worker' \in [Workers -> Local]
          /\ \A v \in Workers : worker'[v].at # "idle" => worker'[v].order \in Orders
      BY <1>7, LocalTypes, WorkerType DEF FailExecution
    <2>3. orders' \in [Orders -> Row]
      <3>1. CASE orders' = [orders EXCEPT ![o].status = "rejected"]
        BY <2>1, <3>1, StatusType
      <3>2. CASE UNCHANGED orders
        BY <1>a, <3>2
      <3>. QED  BY <1>7, <3>1, <3>2 DEF FailExecution
    <2>4. snapshot' \in Snapshot
      BY <1>7, SnapshotType DEF FailExecution
    <2>. QED  BY <1>7, <1>a, <1>b, <2>2, <2>3, <2>4 DEF FailExecution, TypeOK, Snapshot
  <1>. QED  BY <1>1, <1>2, <1>3, <1>4, <1>5, <1>6, <1>7 DEF Execute

\* ... and after any other step, a crash included.
LEMMA StepType == TypeOK /\ OwnOrder /\ [Next]_vars => TypeOK'
  <1>. SUFFICES ASSUME TypeOK, OwnOrder, [Next]_vars PROVE TypeOK'
    OBVIOUS
  <1>a. /\ trades \in [Orders -> Nat] /\ traded \in Nat
        /\ position \in Nat \cup {Absent}
        /\ editor \in [Orders -> {"none", "cancel", "modify"}] /\ crashes \in 0..MaxCrashes
        /\ orders \in [Orders -> Row]
        /\ snapshot \in Snapshot
        /\ worker \in [Workers -> Local]
        /\ \A v \in Workers : worker[v].at # "idle" => worker[v].order \in Orders
        /\ \A v \in Orders : v \in Workers
    BY DEF TypeOK, Snapshot, Local, Workers
  <1>b. ASSUME orders' \in [Orders -> Row],
               worker' \in [Workers -> Local],
               \A v \in Workers : worker'[v].at # "idle" => worker'[v].order \in Orders,
               snapshot' \in Snapshot,
               editor' \in [Orders -> {"none", "cancel", "modify"}],
               crashes' \in 0..MaxCrashes,
               UNCHANGED <<trades, traded, position>>
        PROVE  TypeOK'
    BY <1>a, <1>b DEF TypeOK, Local, Snapshot
  <1>1. ASSUME NEW o \in Orders, Place(o) PROVE TypeOK'
    <2>1. orders' \in [Orders -> Row]
      BY <1>1, StatusType DEF Place
    <2>2. /\ worker' \in [Workers -> Local]
          /\ \A v \in Workers : worker'[v].at # "idle" => worker'[v].order \in Orders
      <3>1. CASE UNCHANGED worker
        BY <1>a, <3>1
      <3>2. CASE worker' = [worker EXCEPT ![o].at = "placed"]
        <4>1. /\ o \in Workers /\ "placed" \in Stages
              /\ worker[o].order \in Orders
          BY <1>a DEF Stages, OwnOrder
        <4>. QED  BY <3>2, <4>1, StageType
      <3>. QED  BY <1>1, <3>1, <3>2 DEF Place
    <2>. QED  BY <1>1, <1>a, <1>b, <2>1, <2>2 DEF Place
  <1>2. ASSUME PollSnapshot PROVE TypeOK'
    <2>. DEFINE open == {o \in Orders : orders[o].status = "open"}
    <2>1. NoRow \in Row
      BY DEF NoRow, Row
    <2>2. [o \in Orders |-> IF o \in open THEN orders[o] ELSE NoRow] \in [Orders -> Row]
      BY <1>a, <2>1
    <2>3. snapshot' \in Snapshot
      BY <1>2, <2>2 DEF PollSnapshot, Snapshot
    <2>. QED  BY <1>2, <1>a, <1>b, <2>3 DEF PollSnapshot
  <1>3. ASSUME NEW o \in Orders, NEW quoted \in BOOLEAN, PollNext(o, quoted)
        PROVE  TypeOK'
    <2>. DEFINE row == IF snapshot.loaded THEN snapshot.rows[o] ELSE orders[o]
    <2>1. snapshot' \in Snapshot
      <3>1. [snapshot EXCEPT !.queue = @ \ {o}] \in Snapshot
        BY <1>a DEF Snapshot
      <3>2. Dequeued(o) \in Snapshot
        BY <3>1, NoSnapshotType DEF Dequeued
      <3>. QED  BY <1>3, <3>2 DEF PollNext
    <2>2. row \in Row /\ "poll" \in Workers
      BY <1>3, <1>a DEF Snapshot, PollNext, Workers
    <2>3. Working("process", o, row) \in Local /\ Working("process", o, row).order \in Orders
      BY <2>2, LocalTypes DEF Stages
    <2>4. /\ worker' \in [Workers -> Local]
          /\ \A v \in Workers : worker'[v].at # "idle" => worker'[v].order \in Orders
      <3>1. CASE UNCHANGED worker
        BY <1>a, <3>1
      <3>2. CASE worker' = [worker EXCEPT !["poll"] = Working("process", o, row)]
        BY <2>2, <2>3, <3>2, WorkerType
      <3>. QED  BY <1>3, <3>1, <3>2 DEF PollNext
    <2>. QED  BY <1>3, <1>a, <1>b, <2>1, <2>4 DEF PollNext
  <1>4. ASSUME NEW o \in Orders, Tick(o) PROVE TypeOK'
    <2>1. "tick" \in Workers /\ orders[o] \in Row
      BY <1>4, <1>a DEF Tick, Workers
    <2>2. /\ Working("process", o, orders[o]) \in Local
          /\ Working("process", o, orders[o]).order \in Orders
      BY <2>1, LocalTypes DEF Stages
    <2>3. /\ worker' \in [Workers -> Local]
          /\ \A v \in Workers : worker'[v].at # "idle" => worker'[v].order \in Orders
      BY <1>4, <2>1, <2>2, WorkerType DEF Tick
    <2>. QED  BY <1>4, <1>a, <1>b, <2>3 DEF Tick
  <1>5. ASSUME NEW w \in Workers, Execute(w) PROVE TypeOK'
    BY <1>5, ExecuteType
  <1>6. ASSUME NEW o \in Orders, NEW edit \in Edits, BeginEdit(o, edit) PROVE TypeOK'
    BY <1>6, <1>a, <1>b DEF BeginEdit
  <1>7. ASSUME NEW o \in Orders, CommitCancel(o) PROVE TypeOK'
    <2>1. orders' \in [Orders -> Row]
      BY <1>7, StatusType DEF CommitCancel
    <2>. QED  BY <1>7, <1>a, <1>b, <2>1 DEF CommitCancel
  <1>8. ASSUME NEW o \in Orders, NEW q \in Quantities, CommitModify(o, q) PROVE TypeOK'
    <2>1. orders' \in [Orders -> Row]
      BY <1>8, <1>a DEF CommitModify, Row
    <2>. QED  BY <1>8, <1>a, <1>b, <2>1 DEF CommitModify
  <1>9. ASSUME Crash PROVE TypeOK'
    <2>1. /\ worker' \in [Workers -> Local]
          /\ \A v \in Workers : worker'[v].at # "idle" => worker'[v].order \in Orders
      BY <1>9, LocalTypes DEF Crash
    <2>. QED  BY <1>9, <1>a, <1>b, <2>1, NoSnapshotType DEF Crash
  <1>10. CASE UNCHANGED vars
    BY <1>10 DEF vars, TypeOK
  <1>. QED
    BY <1>1, <1>2, <1>3, <1>4, <1>5, <1>6, <1>7, <1>8, <1>9, <1>10 DEF Next

\* No step of any thread gives a placing thread another order.
LEMMA StepOwnOrder == TypeOK /\ OwnOrder /\ [Next]_vars => OwnOrder'
  <1>. SUFFICES ASSUME TypeOK, OwnOrder, [Next]_vars, NEW p \in Orders
                PROVE  worker'[p].order = p
    BY DEF OwnOrder
  <1>a. /\ worker \in [Workers -> Local]
        /\ \A v \in Orders : v \in Workers /\ worker[v].order = v /\ v \notin Engines
    BY DEF TypeOK, Local, Workers, OwnOrder
  <1>b. \A v \in Workers : Free(v).order = v
    BY DEF Free
  <1>1. ASSUME NEW o \in Orders, Place(o) PROVE worker'[p].order = p
    BY <1>1, <1>a DEF Place, Local
  <1>2. ASSUME NEW o \in Orders, NEW quoted \in BOOLEAN, PollNext(o, quoted)
        PROVE  worker'[p].order = p
    BY <1>2, <1>a DEF PollNext
  <1>3. ASSUME NEW o \in Orders, Tick(o) PROVE worker'[p].order = p
    BY <1>3, <1>a DEF Tick
  <1>4. ASSUME NEW w \in Workers, Execute(w) PROVE worker'[p].order = p
    <2>1. CASE w \in Orders /\ ExecuteImmediately(w)
      BY <2>1, <1>a DEF ExecuteImmediately, Working
    <2>2. CASE SkipTraded(w)
      <3>1. \/ worker' = [worker EXCEPT ![w] = Free(w)]
            \/ worker' = [worker EXCEPT ![w].at = "stuck"]
        BY <2>2 DEF SkipTraded
      <3>. QED  BY <3>1, <1>a, <1>b DEF Local
    <2>3. CASE Decide(w)
      BY <2>3, <1>a, <1>b DEF Decide, Local
    <2>4. CASE CommitTrade(w)
      BY <2>4, <1>a DEF CommitTrade, Local
    <2>5. CASE ReadPosition(w)
      BY <2>5, <1>a DEF ReadPosition
    <2>6. CASE WritePosition(w)
      BY <2>6, <1>a, <1>b DEF WritePosition
    <2>7. CASE FailExecution(w)
      BY <2>7, <1>a, <1>b DEF FailExecution
    <2>. QED  BY <1>4, <2>1, <2>2, <2>3, <2>4, <2>5, <2>6, <2>7 DEF Execute
  <1>5. ASSUME Crash PROVE worker'[p].order = p
    BY <1>5, <1>a, <1>b DEF Crash
  <1>6. CASE UNCHANGED worker
    BY <1>6, <1>a
  <1>. QED
    BY <1>1, <1>2, <1>3, <1>4, <1>5, <1>6
    DEF Next, PollSnapshot, BeginEdit, CommitCancel, CommitModify, vars

\* Types and the owner of each placing thread are inductive together.
LEMMA RaceTypes == Spec => [](TypeOK /\ OwnOrder)
  <1>1. Init => OwnOrder
    BY DEF Init, OwnOrder, Workers, Free
  <1>. QED  BY <1>1, InitType, StepType, StepOwnOrder, PTL DEF Spec

\* Rows and local copies always hold values of their kind.
THEOREM RaceType == Spec => []TypeOK
  BY RaceTypes, PTL

-----------------------------------------------------------------------------
(* Any number of executors                                                 *)

\* A row becomes complete with its trade, or because it has one.
LEMMA StepComplete == TypeOK /\ CompleteHasTraded /\ [Next]_vars => CompleteHasTraded'
  <1>. SUFFICES ASSUME TypeOK, CompleteHasTraded, [Next]_vars,
                       NEW p \in Orders, orders'[p].status = "complete"
                PROVE  trades'[p] > 0
    BY DEF CompleteHasTraded
  <1>a. /\ trades \in [Orders -> Nat]
        /\ orders \in [Orders -> Row]
        /\ orders[p].status = "complete" => trades[p] > 0
        /\ \A v \in Workers : worker[v].at # "idle" => worker[v].order \in Orders
    BY DEF TypeOK, CompleteHasTraded
  <1>1. ASSUME NEW o \in Orders, Place(o) PROVE trades'[p] > 0
    BY <1>1, <1>a DEF Place, Row
  <1>2. ASSUME NEW w \in Workers, Execute(w) PROVE trades'[p] > 0
    <2>1. CASE SkipTraded(w)
      BY <2>1, <1>a DEF SkipTraded, Row
    <2>2. CASE CommitTrade(w)
      <3>1. worker[w].order \in Orders
        BY <2>2, <1>a DEF CommitTrade
      <3>2. CASE p = worker[w].order
        <4>1. trades'[p] = trades[p] + 1
          BY <2>2, <3>1, <3>2, <1>a DEF CommitTrade
        <4>. QED  BY <4>1, <1>a
      <3>3. CASE p # worker[w].order
        BY <2>2, <3>1, <3>3, <1>a DEF CommitTrade, Row
      <3>. QED  BY <3>2, <3>3
    <2>3. CASE FailExecution(w)
      BY <2>3, <1>a DEF FailExecution, Row
    <2>4. CASE UNCHANGED <<orders, trades>>
      BY <2>4, <1>a
    <2>. QED
      BY <1>2, <2>1, <2>2, <2>3, <2>4
      DEF Execute, ExecuteImmediately, Decide, ReadPosition, WritePosition
  <1>3. ASSUME NEW o \in Orders, CommitCancel(o) PROVE trades'[p] > 0
    BY <1>3, <1>a DEF CommitCancel, Row
  <1>4. ASSUME NEW o \in Orders, NEW q \in Quantities, CommitModify(o, q)
        PROVE  trades'[p] > 0
    BY <1>4, <1>a DEF CommitModify, Row
  <1>5. CASE UNCHANGED <<orders, trades>>
    BY <1>5, <1>a
  <1>. QED
    BY <1>1, <1>2, <1>3, <1>4, <1>5
    DEF Next, PollSnapshot, PollNext, Tick, BeginEdit, Crash, vars

\* However many threads execute, fail or die, an order that says complete has
\* traded.
THEOREM CompleteOrdersHaveTraded == Spec => []CompleteHasTraded
  <1>1. Init => CompleteHasTraded
    BY DEF Init, CompleteHasTraded, NoRow
  <1>. QED  BY <1>1, StepComplete, RaceType, PTL DEF Spec

\* The threads that may ever execute o, and those of them that need no further
\* check before they trade it.
Executors(o) == Engines \cup (IF Immediate THEN {o} ELSE {})

Permits(o) == {w \in Executors(o) : /\ worker[w].order = o
                                    /\ worker[w].at \in {"placed", "execute"}}

\* Nobody else executes o, and an order that is not placed has no trade.
Known ==
    /\ \A o \in Orders : worker[o].at # "idle" => Immediate
    /\ \A o \in Orders : orders[o].status = "none" => trades[o] = 0

\* An order that has traded hands out no permit: the trades made and the
\* permits left are together no more than its executors.
PermitsBound ==
    \A o \in Orders : trades[o] > 0 =>
        trades[o] + Cardinality(Permits(o)) <= Cardinality(Executors(o))

PermitInv == Known /\ PermitsBound

\* There are at most two engines, and a placing thread is none of them.
LEMMA ExecutorsAreFinite ==
    ASSUME NEW o \in Orders
    PROVE  /\ IsFiniteSet(Executors(o))
           /\ Cardinality(Executors(o))
                 = Cardinality(Engines) + (IF Immediate THEN 1 ELSE 0)
  <1>1. IsFiniteSet(Engines)
    <2>1. IsFiniteSet({"poll"})
      BY FS_Singleton
    <2>2. IsFiniteSet({"poll"} \cup {"tick"})
      BY <2>1, FS_AddElement
    <2>3. Engines \subseteq {"poll"} \cup {"tick"}
      OBVIOUS
    <2>. QED  BY <2>2, <2>3, FS_Subset
  <1>2. o \notin Engines
    OBVIOUS
  <1>3. Cardinality(Engines) \in Nat
    BY <1>1, FS_CardinalityType
  <1>4. CASE Immediate
    BY <1>1, <1>2, <1>4, FS_AddElement DEF Executors
  <1>5. CASE ~Immediate
    <2>1. Executors(o) = Engines
      BY <1>5 DEF Executors
    <2>. QED  BY <1>1, <1>3, <1>5, <2>1
  <1>. QED  BY <1>4, <1>5

\* Nobody but a placing thread that trades, or an engine, is ever busy.
LEMMA BusyIsExecutor ==
    ASSUME TypeOK, OwnOrder, Known, NEW w \in Workers, worker[w].at # "idle"
    PROVE  worker[w].order \in Orders /\ w \in Executors(worker[w].order)
  BY DEF TypeOK, OwnOrder, Known, Executors, Workers

\* Known is kept by every step.
LEMMA StepKnown == TypeOK /\ OwnOrder /\ Known /\ [Next]_vars => Known'
  <1>. SUFFICES ASSUME TypeOK, OwnOrder, Known, [Next]_vars, NEW p \in Orders
                PROVE  /\ worker'[p].at # "idle" => Immediate
                       /\ orders'[p].status = "none" => trades'[p] = 0
    BY DEF Known
  <1>a. /\ worker \in [Workers -> Local]
        /\ \A v \in Orders : v \in Workers /\ worker[v].order = v /\ v \notin Engines
        /\ \A v \in Workers : worker[v].at # "idle" => worker[v].order \in Orders
        /\ trades \in [Orders -> Nat]
        /\ orders \in [Orders -> Row]
        /\ worker[p].at # "idle" => Immediate
        /\ orders[p].status = "none" => trades[p] = 0
    BY DEF TypeOK, Local, Workers, OwnOrder, Known
  <1>b. \A v \in Workers : Free(v).at = "idle"
    BY DEF Free
  <1>. DEFINE Goal == /\ worker'[p].at # "idle" => Immediate
                      /\ orders'[p].status = "none" => trades'[p] = 0
  <1>1. ASSUME NEW o \in Orders, Place(o) PROVE Goal
    BY <1>1, <1>a DEF Place, Local, Row
  <1>2. ASSUME NEW o \in Orders, NEW quoted \in BOOLEAN, PollNext(o, quoted) PROVE Goal
    BY <1>2, <1>a DEF PollNext
  <1>3. ASSUME NEW o \in Orders, Tick(o) PROVE Goal
    BY <1>3, <1>a DEF Tick
  <1>4. ASSUME NEW w \in Workers, Execute(w) PROVE Goal
    <2>1. CASE w \in Orders /\ ExecuteImmediately(w)
      BY <2>1, <1>a DEF ExecuteImmediately
    <2>2. CASE SkipTraded(w)
      BY <2>2, <1>a, <1>b DEF SkipTraded, Row
    <2>3. CASE Decide(w)
      BY <2>3, <1>a, <1>b DEF Decide, Local
    <2>4. CASE CommitTrade(w)
      BY <2>4, <1>a DEF CommitTrade, Local, Row
    <2>5. CASE ReadPosition(w)
      BY <2>5, <1>a DEF ReadPosition
    <2>6. CASE WritePosition(w)
      BY <2>6, <1>a, <1>b DEF WritePosition
    <2>7. CASE FailExecution(w)
      BY <2>7, <1>a, <1>b DEF FailExecution, Row
    <2>. QED  BY <1>4, <2>1, <2>2, <2>3, <2>4, <2>5, <2>6, <2>7 DEF Execute
  <1>5. ASSUME NEW o \in Orders, CommitCancel(o) PROVE Goal
    BY <1>5, <1>a DEF CommitCancel, Row
  <1>6. ASSUME NEW o \in Orders, NEW q \in Quantities, CommitModify(o, q) PROVE Goal
    BY <1>6, <1>a DEF CommitModify, Row
  <1>7. ASSUME Crash PROVE Goal
    BY <1>7, <1>a, <1>b DEF Crash
  <1>8. CASE UNCHANGED <<orders, trades, worker>>
    BY <1>8, <1>a
  <1>. QED
    BY <1>1, <1>2, <1>3, <1>4, <1>5, <1>6, <1>7, <1>8
    DEF Next, PollSnapshot, BeginEdit, vars

\* A step that writes no trade of p and lets nobody new trade it.
KeepsPermits(p) ==
    /\ trades'[p] = trades[p]
    /\ trades[p] > 0 => Permits(p)' \subseteq Permits(p)

\* A step that trades p and uses up the permit of the thread that does.
UsesPermit(p) ==
    \E w \in Permits(p) : /\ trades'[p] = trades[p] + 1
                          /\ Permits(p)' \subseteq Permits(p) \ {w}

\* The local state of a single thread decides what becomes of the permits.
LEMMA OneWorkerMoves ==
    ASSUME NEW w \in Workers, NEW p \in Orders,
           \A v \in Workers \ {w} : worker'[v] = worker[v],
           ~(worker'[w].order = p /\ worker'[w].at \in {"placed", "execute"})
    PROVE  Permits(p)' \subseteq Permits(p) \ {w}
  BY DEF Permits, Executors, Workers

\* Permits of an order that has traded only shrink, and one is used up by
\* each trade: what the check of _process_order is worth.
LEMMA StepPermits ==
    ASSUME TypeOK, OwnOrder, Known, [Next]_vars, NEW p \in Orders
    PROVE  KeepsPermits(p) \/ UsesPermit(p)
  <1>a. /\ worker \in [Workers -> Local]
        /\ trades \in [Orders -> Nat]
        /\ orders[p].status = "none" => trades[p] = 0
        /\ \A v \in Orders : v \in Workers /\ worker[v].order = v
    BY DEF TypeOK, Local, Workers, OwnOrder, Known
  <1>b. \A v \in Workers : Free(v).at = "idle"
    BY DEF Free
  <1>1. ASSUME NEW o \in Orders, Place(o) PROVE KeepsPermits(p)
    <2>1. trades'[p] = trades[p]
      BY <1>1 DEF Place
    <2>2. CASE o = p
      BY <1>1, <1>a, <2>1, <2>2 DEF Place, KeepsPermits
    <2>3. CASE o # p
      <3>1. \A v \in Workers \ {o} : worker'[v] = worker[v]
        BY <1>1, <1>a DEF Place
      <3>2. worker'[o].order = o
        BY <1>1, <1>a DEF Place, Local
      <3>. QED  BY <2>1, <2>3, <3>1, <3>2, <1>a, OneWorkerMoves DEF KeepsPermits
    <2>. QED  BY <2>2, <2>3
  <1>2. ASSUME NEW o \in Orders, NEW quoted \in BOOLEAN, PollNext(o, quoted)
        PROVE  KeepsPermits(p)
    <2>1. CASE UNCHANGED worker
      BY <1>2, <2>1 DEF PollNext, KeepsPermits, Permits
    <2>2. CASE ~UNCHANGED worker
      <3>1. PICK row : worker' = [worker EXCEPT !["poll"] = Working("process", o, row)]
        BY <1>2, <2>2 DEF PollNext
      <3>2. "poll" \in Workers
        BY <1>2 DEF PollNext, Workers
      <3>3. worker'["poll"].at = "process"
        BY <1>a, <3>1, <3>2 DEF Working
      <3>. QED  BY <1>2, <1>a, <3>1, <3>2, <3>3, OneWorkerMoves DEF PollNext, KeepsPermits
    <2>. QED  BY <2>1, <2>2
  <1>3. ASSUME NEW o \in Orders, Tick(o) PROVE KeepsPermits(p)
    <2>1. "tick" \in Workers
      BY <1>3 DEF Tick, Workers
    <2>2. worker'["tick"].at = "process"
      BY <1>3, <1>a, <2>1 DEF Tick, Working
    <2>. QED  BY <1>3, <1>a, <2>1, <2>2, OneWorkerMoves DEF Tick, KeepsPermits
  <1>4. ASSUME NEW w \in Workers, Execute(w) PROVE KeepsPermits(p) \/ UsesPermit(p)
    <2>1. CASE w \in Orders /\ ExecuteImmediately(w)
      <3>1. trades'[p] = trades[p] /\ worker[w].at = "placed"
        BY <2>1 DEF ExecuteImmediately
      <3>2. \A v \in Workers \ {w} : worker'[v] = worker[v]
        BY <2>1, <1>a DEF ExecuteImmediately
      <3>3. worker'[w].order = w
        BY <2>1, <1>a DEF ExecuteImmediately, Working
      <3>4. ASSUME NEW v \in Permits(p)' PROVE v \in Permits(p)
        <4>1. v \in Executors(p) /\ v \in Workers /\ worker'[v].order = p
          BY <1>a DEF Permits, Executors, Workers
        <4>2. CASE v = w
          BY <2>1, <1>a, <3>1, <3>3, <4>1, <4>2 DEF Permits
        <4>3. CASE v # w
          BY <3>2, <4>1, <4>3 DEF Permits
        <4>. QED  BY <4>2, <4>3
      <3>. QED  BY <3>1, <3>4 DEF KeepsPermits
    <2>2. CASE SkipTraded(w)
      <3>1. \/ worker' = [worker EXCEPT ![w] = Free(w)]
            \/ worker' = [worker EXCEPT ![w].at = "stuck"]
        BY <2>2 DEF SkipTraded
      <3>2. trades' = trades /\ \A v \in Workers \ {w} : worker'[v] = worker[v]
        BY <2>2, <3>1, <1>a DEF SkipTraded
      <3>3. worker'[w] = Free(w) \/ worker'[w] = [worker[w] EXCEPT !.at = "stuck"]
        BY <3>1, <1>a
      <3>. QED  BY <3>2, <3>3, <1>a, <1>b, OneWorkerMoves DEF KeepsPermits, Local
    <2>3. CASE Decide(w)
      <3>1. /\ trades'[p] = trades[p]
            /\ \A v \in Workers \ {w} : worker'[v] = worker[v]
        BY <2>3, <1>a DEF Decide
      <3>2. CASE worker[w].order = p
        BY <2>3, <3>1, <3>2 DEF Decide, KeepsPermits
      <3>3. CASE worker[w].order # p
        <4>1. worker'[w].order # p \/ worker'[w].at = "idle"
          BY <2>3, <3>3, <1>a, <1>b DEF Decide, Local
        <4>. QED  BY <3>1, <4>1, OneWorkerMoves DEF KeepsPermits
      <3>. QED  BY <3>2, <3>3
    <2>4. CASE CommitTrade(w)
      <3>1. Permits(p)' \subseteq Permits(p) \ {w}
        BY <2>4, <1>a, OneWorkerMoves DEF CommitTrade, Local
      <3>2. worker[w].order \in Orders /\ w \in Executors(worker[w].order)
        BY <2>4, BusyIsExecutor DEF CommitTrade
      <3>3. CASE worker[w].order = p
        <4>1. w \in Permits(p)
          BY <2>4, <3>2, <3>3 DEF CommitTrade, Permits
        <4>2. trades'[p] = trades[p] + 1
          BY <2>4, <3>3, <1>a DEF CommitTrade
        <4>. QED  BY <3>1, <4>1, <4>2 DEF UsesPermit
      <3>4. CASE worker[w].order # p
        BY <2>4, <3>1, <3>2, <3>4, <1>a DEF CommitTrade, KeepsPermits
      <3>. QED  BY <3>3, <3>4
    <2>5. CASE ReadPosition(w)
      BY <2>5, <1>a, OneWorkerMoves DEF ReadPosition, KeepsPermits
    <2>6. CASE WritePosition(w)
      BY <2>6, <1>a, <1>b, OneWorkerMoves DEF WritePosition, KeepsPermits
    <2>7. CASE FailExecution(w)
      BY <2>7, <1>a, <1>b, OneWorkerMoves DEF FailExecution, KeepsPermits
    <2>. QED  BY <1>4, <2>1, <2>2, <2>3, <2>4, <2>5, <2>6, <2>7 DEF Execute
  <1>5. ASSUME Crash PROVE KeepsPermits(p)
    BY <1>5, <1>b DEF Crash, KeepsPermits, Permits, Executors, Workers
  <1>6. CASE UNCHANGED <<trades, worker>>
    BY <1>6 DEF KeepsPermits, Permits
  <1>. QED
    BY <1>1, <1>2, <1>3, <1>4, <1>5, <1>6
    DEF Next, PollSnapshot, BeginEdit, CommitCancel, CommitModify, vars

\* The bound on trades and permits is kept by every step.
LEMMA StepPermitsBound ==
    TypeOK /\ OwnOrder /\ PermitInv /\ [Next]_vars => PermitsBound'
  <1>. SUFFICES ASSUME TypeOK, OwnOrder, Known, PermitsBound, [Next]_vars,
                       NEW p \in Orders, trades'[p] > 0
                PROVE  trades'[p] + Cardinality(Permits(p)') <= Cardinality(Executors(p))
    BY DEF PermitInv, PermitsBound, Executors
  <1>1. Permits(p) \in SUBSET Executors(p) /\ trades[p] \in Nat
    BY DEF Permits, TypeOK
  <1>2. /\ IsFiniteSet(Executors(p)) /\ IsFiniteSet(Permits(p))
        /\ Cardinality(Permits(p)) <= Cardinality(Executors(p))
        /\ Cardinality(Permits(p)) \in Nat /\ Cardinality(Executors(p)) \in Nat
    BY <1>1, ExecutorsAreFinite, FS_Subset, FS_CardinalityType
  <1>3. CASE KeepsPermits(p)
    <2>1. Permits(p)' \in SUBSET Permits(p) /\ trades'[p] = trades[p] /\ trades[p] > 0
      BY <1>3 DEF KeepsPermits
    <2>2. Cardinality(Permits(p)') <= Cardinality(Permits(p))
          /\ Cardinality(Permits(p)') \in Nat
      BY <1>2, <2>1, FS_Subset, FS_CardinalityType
    <2>3. trades[p] + Cardinality(Permits(p)) <= Cardinality(Executors(p))
      BY <2>1 DEF PermitsBound
    <2>. QED  BY <1>1, <1>2, <2>1, <2>2, <2>3
  <1>4. CASE UsesPermit(p)
    <2>1. PICK w \in Permits(p) : /\ trades'[p] = trades[p] + 1
                                 /\ Permits(p)' \subseteq Permits(p) \ {w}
      BY <1>4 DEF UsesPermit
    <2>2. /\ IsFiniteSet(Permits(p) \ {w})
          /\ Cardinality(Permits(p) \ {w}) = Cardinality(Permits(p)) - 1
      BY <1>2, <2>1, FS_RemoveElement
    <2>3. /\ Cardinality(Permits(p)') <= Cardinality(Permits(p)) - 1
          /\ Cardinality(Permits(p)') \in Nat
      BY <2>1, <2>2, FS_Subset, FS_CardinalityType
    <2>4. trades[p] + Cardinality(Permits(p)) <= Cardinality(Executors(p))
      BY <1>1, <1>2 DEF PermitsBound
    <2>. QED  BY <1>1, <1>2, <2>1, <2>3, <2>4
  <1>. QED  BY <1>3, <1>4, StepPermits

\* The bound holds in every state.
LEMMA PermitsBounded == Spec => []PermitInv
  <1>1. Init => PermitInv
    BY DEF Init, PermitInv, Known, PermitsBound, Workers, Free
  <1>2. TypeOK /\ OwnOrder /\ PermitInv /\ [Next]_vars => PermitInv'
    BY StepKnown, StepPermitsBound DEF PermitInv
  <1>. QED  BY <1>1, <1>2, RaceTypes, PTL DEF Spec

\* An order trades at most once per thread that may execute it, for any
\* number of orders, crashes, failures and polling cycles.
THEOREM OrdersTradeOncePerThread == Spec => []OneTradePerThread
  <1>1. TypeOK /\ PermitInv => OneTradePerThread
    <2>. SUFFICES ASSUME TypeOK, PermitInv, NEW o \in Orders
                  PROVE  trades[o] <= Cardinality(Engines) + (IF Immediate THEN 1 ELSE 0)
      BY DEF OneTradePerThread
    <2>1. /\ IsFiniteSet(Executors(o)) /\ Permits(o) \in SUBSET Executors(o)
          /\ Cardinality(Executors(o)) = Cardinality(Engines) + (IF Immediate THEN 1 ELSE 0)
      BY ExecutorsAreFinite DEF Permits
    <2>2. /\ Cardinality(Permits(o)) \in Nat /\ Cardinality(Executors(o)) \in Nat
          /\ trades[o] \in Nat
      BY <2>1, FS_Subset, FS_CardinalityType DEF TypeOK
    <2>3. trades[o] > 0 =>
             trades[o] + Cardinality(Permits(o)) <= Cardinality(Executors(o))
      BY DEF PermitInv, PermitsBound
    <2>. QED  BY <2>1, <2>2, <2>3
  <1>. QED  BY <1>1, PermitsBounded, RaceType, PTL

\* With one engine and placing threads that leave the trade to it, no order
\* trades twice.
THEOREM OneExecutorTradesOnce ==
    ASSUME ~Immediate, \E e : Engines = {e}
    PROVE  Spec => []AtMostOneTrade
  <1>1. Cardinality(Engines) = 1
    BY FS_Singleton
  <1>2. OneTradePerThread => AtMostOneTrade
    BY <1>1 DEF OneTradePerThread, AtMostOneTrade
  <1>. QED  BY <1>2, OrdersTradeOncePerThread, PTL

-----------------------------------------------------------------------------
(* No shares from nothing                                                  *)

\* As nobody modifies an order, every copy of its row has its quantity.
OwnQuantity ==
    /\ \A o \in Orders : editor[o] # "modify"
    /\ \A w \in Workers : worker[w].at \in {"process", "execute", "read", "write"} =>
          worker[w].row.quantity = orders[worker[w].order].quantity
    /\ snapshot.loaded => \A o \in snapshot.queue : snapshot.rows[o].quantity = orders[o].quantity

\* The shares of trades the position does not have yet, one element for each
\* share, so that they can be counted without a sum.
Unbooked(f) == {x \in Workers \X Nat : /\ f[x[1]].at \in Committed
                                       /\ x[2] \in 1 .. f[x[1]].row.quantity}

\* Position and trades under way are covered by what was traded, and would
\* be if a thread took the position back to what it has read.
Covered ==
    /\ IsFiniteSet(Unbooked(worker))
    /\ SharesIn(position) + Cardinality(Unbooked(worker)) <= traded
    /\ \A w \in Workers : worker[w].at = "write" =>
          SharesIn(worker[w].seen) + Cardinality(Unbooked(worker)) <= traded

\* What one thread has not booked is apart from what the others have not.
LEMMA UnbookedParts ==
    ASSUME NEW f \in [Workers -> Local], NEW w \in Workers,
           NEW others, others = {x \in Unbooked(f) : x[1] # w}, IsFiniteSet(others)
    PROVE  /\ IsFiniteSet(Unbooked(f))
           /\ Cardinality(Unbooked(f)) = Cardinality(others) + Mine(f[w])
           /\ Mine(f[w]) \in Nat /\ Cardinality(others) \in Nat
  <1>. DEFINE q == Mine(f[w])
              mine == {w} \X (1 .. q)
  <1>1. q \in Nat
    BY QuantityIsNat DEF Mine, Local
  <1>2. IsFiniteSet(1 .. q) /\ Cardinality(1 .. q) = q
    <2>. HIDE DEF q
    <2>. QED  BY <1>1, FS_Interval
  <1>3. IsFiniteSet(mine) /\ Cardinality(mine) = q
    <2>1. IsFiniteSet({w}) /\ Cardinality({w}) = 1
      BY FS_Singleton
    <2>. HIDE DEF q
    <2>2. IsFiniteSet(mine) /\ Cardinality(mine) = 1 * q
      BY <1>2, <2>1, FS_Product
    <2>. QED  BY <1>1, <2>2
  <1>4. Unbooked(f) = others \cup mine
    <2>1. CASE f[w].at \in Committed
      BY <2>1 DEF Unbooked, Mine
    <2>2. CASE f[w].at \notin Committed
      BY <2>2 DEF Unbooked, Mine
    <2>. QED  BY <2>1, <2>2
  <1>5. others \cap mine = {}
    OBVIOUS
  <1>6. Cardinality(others) \in Nat
    BY FS_CardinalityType
  <1>. HIDE DEF q, mine
  <1>7. /\ IsFiniteSet(others \cup mine)
        /\ Cardinality(others \cup mine)
              = Cardinality(others) + Cardinality(mine) - Cardinality(others \cap mine)
    BY <1>3, FS_Union
  <1>8. Cardinality(others \cap mine) = 0
    BY <1>5, FS_EmptySet
  <1>9. Cardinality(others \cup mine) = Cardinality(others) + q
    BY <1>1, <1>3, <1>6, <1>7, <1>8
  <1>. QED  BY <1>1, <1>4, <1>6, <1>7, <1>9 DEF q

\* When one thread moves, the count changes by what is its own.
LEMMA UnbookedChange ==
    ASSUME NEW f \in [Workers -> Local], NEW g \in [Workers -> Local], NEW w \in Workers,
           \A v \in Workers \ {w} : g[v] = f[v], IsFiniteSet(Unbooked(f))
    PROVE  /\ IsFiniteSet(Unbooked(g))
           /\ Cardinality(Unbooked(f)) \in Nat /\ Cardinality(Unbooked(g)) \in Nat
           /\ Mine(f[w]) \in Nat /\ Mine(g[w]) \in Nat
           /\ Cardinality(Unbooked(g)) = Cardinality(Unbooked(f)) - Mine(f[w]) + Mine(g[w])
  <1>. DEFINE others == {x \in Unbooked(f) : x[1] # w}
  <1>1. others = {x \in Unbooked(g) : x[1] # w}
    BY DEF Unbooked
  <1>2. IsFiniteSet(others)
    BY FS_Subset
  <1>3. /\ Cardinality(Unbooked(f)) = Cardinality(others) + Mine(f[w])
        /\ Mine(f[w]) \in Nat /\ Cardinality(others) \in Nat
    BY <1>2, UnbookedParts
  <1>. HIDE DEF others
  <1>4. /\ IsFiniteSet(Unbooked(g))
        /\ Cardinality(Unbooked(g)) = Cardinality(others) + Mine(g[w])
        /\ Mine(g[w]) \in Nat
    BY <1>1, <1>2, UnbookedParts
  <1>. QED  BY <1>3, <1>4

\* A step after which a thread has no more to book than before, and has read
\* the position if it is to write it.
LEMMA NothingAdded ==
    ASSUME TypeOK, TypeOK', Covered, UNCHANGED <<traded, position>>, NEW w \in Workers,
           \A v \in Workers \ {w} : worker'[v] = worker[v],
           Mine(worker'[w]) <= Mine(worker[w]),
           worker'[w].at = "write" => worker'[w].seen = position
    PROVE  Covered'
  <1>. DEFINE n == Cardinality(Unbooked(worker))
  <1>1. worker \in [Workers -> Local] /\ worker' \in [Workers -> Local] /\ traded \in Nat
        /\ position \in Nat \cup {Absent}
    BY DEF TypeOK, Local
  <1>2. /\ IsFiniteSet(Unbooked(worker')) /\ n \in Nat /\ n' \in Nat
        /\ Mine(worker[w]) \in Nat /\ Mine(worker'[w]) \in Nat
        /\ n' = n - Mine(worker[w]) + Mine(worker'[w])
    BY <1>1, UnbookedChange DEF Covered
  <1>3. n' <= n
    BY <1>2
  <1>4. ASSUME NEW s \in Nat \cup {Absent}, SharesIn(s) + n <= traded
        PROVE  SharesIn(s) + n' <= traded'
    <2>1. SharesIn(s) \in Nat
      BY DEF SharesIn, Absent
    <2>. HIDE DEF n
    <2>. QED  BY <1>1, <1>2, <1>3, <1>4, <2>1
  <1>5. SharesIn(position') + n' <= traded'
    BY <1>1, <1>4 DEF Covered
  <1>6. ASSUME NEW v \in Workers, worker'[v].at = "write" PROVE SharesIn(worker'[v].seen) + n' <= traded'
    <2>1. CASE v = w
      BY <1>5, <1>6, <2>1
    <2>2. CASE v # w
      BY <1>1, <1>4, <1>6, <2>2 DEF Covered, Local
    <2>. QED  BY <2>1, <2>2
  <1>. QED  BY <1>2, <1>5, <1>6 DEF Covered

\* A trade adds its shares to what was traded and to what is to be booked.
LEMMA TradeCovers ==
    ASSUME TypeOK, TypeOK', Covered, NEW w \in Workers, CommitTrade(w)
    PROVE  Covered'
  <1>. DEFINE n == Cardinality(Unbooked(worker))
              q == worker[w].row.quantity
  <1>1. /\ worker \in [Workers -> Local] /\ worker' \in [Workers -> Local] /\ traded \in Nat
        /\ position \in Nat \cup {Absent} /\ q \in Nat
    BY QuantityIsNat DEF TypeOK, Local
  <1>2. /\ worker[w].at = "execute" /\ worker'[w].at = "read" /\ worker'[w].row = worker[w].row
        /\ \A v \in Workers \ {w} : worker'[v] = worker[v]
        /\ traded' = traded + q /\ position' = position
    BY <1>1 DEF CommitTrade, Local
  <1>3. Mine(worker[w]) = 0 /\ Mine(worker'[w]) = q
    BY <1>2 DEF Mine, Committed
  <1>4. IsFiniteSet(Unbooked(worker')) /\ n \in Nat /\ n' \in Nat /\ n' = n + q
    <2>1. n' = n - 0 + q /\ IsFiniteSet(Unbooked(worker')) /\ n \in Nat /\ n' \in Nat
      BY <1>1, <1>2, <1>3, UnbookedChange DEF Covered
    <2>. HIDE DEF n, q
    <2>. QED  BY <1>1, <2>1
  <1>5. ASSUME NEW s \in Nat \cup {Absent}, SharesIn(s) + n <= traded
        PROVE  SharesIn(s) + n' <= traded'
    <2>1. SharesIn(s) \in Nat
      BY DEF SharesIn, Absent
    <2>2. traded' = traded + q
      BY <1>2
    <2>. HIDE DEF n, q
    <2>. QED  BY <1>1, <1>4, <1>5, <2>1, <2>2
  <1>6. SharesIn(position') + n' <= traded'
    BY <1>1, <1>2, <1>5 DEF Covered
  <1>7. ASSUME NEW v \in Workers, worker'[v].at = "write" PROVE SharesIn(worker'[v].seen) + n' <= traded'
    BY <1>1, <1>2, <1>5, <1>7 DEF Covered, Local
  <1>. QED  BY <1>4, <1>6, <1>7 DEF Covered

\* Writing the position takes the shares of the thread from one side to the
\* other: what it has read was covered together with them.
LEMMA WritingCovers ==
    ASSUME TypeOK, TypeOK', Covered, NEW w \in Workers, WritePosition(w)
    PROVE  Covered'
  <1>. DEFINE n == Cardinality(Unbooked(worker))
              q == worker[w].row.quantity
              seen == worker[w].seen
  <1>1. /\ worker \in [Workers -> Local] /\ worker' \in [Workers -> Local] /\ traded \in Nat
        /\ q \in Nat /\ seen \in Nat \cup {Absent}
    BY QuantityIsNat DEF TypeOK, Local
  <1>2. /\ worker[w].at = "write" /\ worker'[w].at = "idle"
        /\ \A v \in Workers \ {w} : worker'[v] = worker[v]
        /\ traded' = traded /\ position' = q + SharesIn(seen)
    BY <1>1 DEF WritePosition, Free, SharesIn
  <1>3. Mine(worker[w]) = q /\ Mine(worker'[w]) = 0
    BY <1>2 DEF Mine, Committed
  <1>4. IsFiniteSet(Unbooked(worker')) /\ n \in Nat /\ n' \in Nat /\ n = n' + q
    <2>1. n' = n - q + 0 /\ IsFiniteSet(Unbooked(worker')) /\ n \in Nat /\ n' \in Nat
      BY <1>1, <1>2, <1>3, UnbookedChange DEF Covered
    <2>. HIDE DEF n, q
    <2>. QED  BY <1>1, <2>1
  <1>5. SharesIn(seen) \in Nat
    BY <1>1 DEF SharesIn, Absent
  <1>6. SharesIn(seen) + n <= traded
    BY <1>2 DEF Covered
  <1>7. SharesIn(position') + n' <= traded'
    <2>1. position' = q + SharesIn(seen) /\ traded' = traded
      BY <1>2
    <2>. HIDE DEF n, q, seen
    <2>2. position' \in Nat
      BY <1>1, <1>5, <2>1
    <2>3. SharesIn(position') = position'
      BY <2>2 DEF SharesIn, Absent
    <2>. QED  BY <1>1, <1>4, <1>5, <1>6, <2>1, <2>3
  <1>8. ASSUME NEW v \in Workers, worker'[v].at = "write" PROVE SharesIn(worker'[v].seen) + n' <= traded'
    <2>. DEFINE s == SharesIn(worker[v].seen)
    <2>1. v # w /\ worker'[v] = worker[v] /\ traded' = traded
      BY <1>2, <1>8
    <2>2. s + n <= traded /\ s \in Nat
      BY <1>1, <1>8, <2>1 DEF Covered, Local, SharesIn, Absent
    <2>3. s + n' <= traded
      <3>1. n \in Nat /\ n' \in Nat /\ n = n' + q /\ q \in Nat /\ traded \in Nat
        BY <1>1, <1>4
      <3>2. \A x, y, z, t, u \in Nat : y = z + t /\ x + y <= u => x + z <= u
        OBVIOUS
      <3>. QED  BY <3>1, <3>2, <2>2
    <2>. QED  BY <2>1, <2>3
  <1>. QED  BY <1>4, <1>7, <1>8 DEF Covered

\* Every step keeps the cover.
LEMMA StepCovered ==
    ASSUME TypeOK, TypeOK', OwnQuantity, Covered, [Next]_vars
    PROVE  Covered'
  <1>a. worker \in [Workers -> Local] /\ \A v \in Orders : v \in Workers
    BY DEF TypeOK, Local, Workers
  <1>b. \A v \in Workers : Mine(worker[v]) \in Nat
    BY <1>a, QuantityIsNat DEF Mine, Local
  <1>c. ASSUME UNCHANGED <<traded, position>>, NEW w \in Workers,
               \A v \in Workers \ {w} : worker'[v] = worker[v],
               worker'[w].at \notin Committed
        PROVE  Covered'
    <2>1. Mine(worker'[w]) = 0
      BY <1>c DEF Mine
    <2>2. Mine(worker'[w]) <= Mine(worker[w])
      BY <1>b, <2>1
    <2>. QED  BY <1>c, <2>2, NothingAdded DEF Committed
  <1>1. ASSUME NEW w \in Workers, Execute(w) PROVE Covered'
    <2>1. CASE w \in Orders /\ ExecuteImmediately(w)
      BY <1>a, <1>c, <2>1 DEF ExecuteImmediately, Working, Committed
    <2>2. CASE SkipTraded(w)
      <3>1. UNCHANGED <<traded, position>> /\ \A v \in Workers \ {w} : worker'[v] = worker[v]
        BY <1>a, <2>2 DEF SkipTraded
      <3>2. worker'[w] = Free(w) \/ worker'[w] = [worker[w] EXCEPT !.at = "stuck"]
        BY <1>a, <2>2 DEF SkipTraded
      <3>3. worker'[w].at \notin Committed
        BY <1>a, <3>2 DEF Free, Committed, Local
      <3>. QED  BY <1>c, <3>1, <3>3
    <2>3. CASE Decide(w)
      BY <1>a, <1>c, <2>3 DEF Decide, Free, Committed, Local
    <2>4. CASE CommitTrade(w)
      BY <2>4, TradeCovers
    <2>5. CASE ReadPosition(w)
      <3>1. /\ worker[w].at = "read" /\ UNCHANGED <<traded, position>>
            /\ \A v \in Workers \ {w} : worker'[v] = worker[v]
            /\ worker'[w] = [at |-> "write", order |-> worker[w].order,
                             row |-> orders[worker[w].order], seen |-> position]
        BY <1>a, <2>5 DEF ReadPosition
      <3>2. worker[w].row.quantity = orders[worker[w].order].quantity
        BY <3>1 DEF OwnQuantity
      <3>3. Mine(worker'[w]) = Mine(worker[w])
        BY <3>1, <3>2 DEF Mine, Committed
      <3>4. Mine(worker'[w]) <= Mine(worker[w])
        BY <1>b, <3>3
      <3>. QED  BY <3>1, <3>4, NothingAdded
    <2>6. CASE WritePosition(w)
      BY <2>6, WritingCovers
    <2>7. CASE FailExecution(w)
      BY <1>a, <1>c, <2>7 DEF FailExecution, Free, Committed
    <2>. QED  BY <1>1, <2>1, <2>2, <2>3, <2>4, <2>5, <2>6, <2>7 DEF Execute
  <1>2. CASE UNCHANGED <<worker, traded, position>>
    BY <1>2 DEF Covered
  <1>3. ASSUME NEW o \in Orders, Place(o) PROVE Covered'
    <2>1. CASE UNCHANGED worker
      BY <1>2, <1>3, <2>1 DEF Place
    <2>2. CASE worker' = [worker EXCEPT ![o].at = "placed"]
      BY <1>a, <1>c, <1>3, <2>2 DEF Place, Local, Committed
    <2>. QED  BY <1>3, <2>1, <2>2 DEF Place
  <1>4. ASSUME NEW o \in Orders, NEW quoted \in BOOLEAN, PollNext(o, quoted) PROVE Covered'
    <2>1. CASE UNCHANGED worker
      BY <1>2, <1>4, <2>1 DEF PollNext
    <2>2. CASE ~UNCHANGED worker
      <3>1. PICK row : worker' = [worker EXCEPT !["poll"] = Working("process", o, row)]
        BY <1>4, <2>2 DEF PollNext
      <3>2. "poll" \in Workers
        BY <1>4 DEF PollNext, Workers
      <3>. QED  BY <1>a, <1>c, <1>4, <3>1, <3>2 DEF PollNext, Working, Committed
    <2>. QED  BY <2>1, <2>2
  <1>5. ASSUME NEW o \in Orders, Tick(o) PROVE Covered'
    <2>1. "tick" \in Workers
      BY <1>5 DEF Tick, Workers
    <2>. QED  BY <1>a, <1>c, <1>5, <2>1 DEF Tick, Working, Committed
  <1>6. ASSUME Crash PROVE Covered'
    <2>. DEFINE n == Cardinality(Unbooked(worker))
    <2>1. Unbooked(worker') = {} /\ \A v \in Workers : worker'[v].at = "idle"
      BY <1>6 DEF Crash, Free, Unbooked, Committed
    <2>2. IsFiniteSet(Unbooked(worker')) /\ n' = 0
      BY <2>1, FS_EmptySet
    <2>3. /\ n \in Nat /\ traded \in Nat /\ SharesIn(position) \in Nat
          /\ SharesIn(position) + n <= traded
      BY FS_CardinalityType DEF Covered, TypeOK, SharesIn, Absent
    <2>4. SharesIn(position) + 0 <= traded
      <3>. HIDE DEF n
      <3>. QED  BY <2>3
    <2>. QED  BY <1>6, <2>1, <2>2, <2>4 DEF Crash, Covered
  <1>. QED
    BY <1>1, <1>2, <1>3, <1>4, <1>5, <1>6
    DEF Next, PollSnapshot, BeginEdit, CommitCancel, CommitModify, vars

\* Without modifications no step changes a quantity, and every copy is one.
LEMMA StepOwnQuantity ==
    ASSUME "modify" \notin Edits, TypeOK, TypeOK', OwnQuantity, [Next]_vars
    PROVE  OwnQuantity'
  <1>a. /\ worker \in [Workers -> Local] /\ orders \in [Orders -> Row] /\ snapshot \in Snapshot
        /\ editor \in [Orders -> {"none", "cancel", "modify"}]
        /\ \A v \in Orders : v \in Workers
        /\ \A v \in Workers : worker[v].at # "idle" => worker[v].order \in Orders
    BY DEF TypeOK, Local, Snapshot, Workers
  <1>1. \A o \in Orders : editor'[o] # "modify"
    BY <1>a DEF OwnQuantity, Next, Place, PollSnapshot, PollNext, Tick, Execute, ExecuteImmediately,
       SkipTraded, Decide, CommitTrade, ReadPosition, WritePosition, FailExecution, BeginEdit,
       CommitCancel, CommitModify, Crash, vars
  <1>2. ASSUME NEW o \in Orders PROVE orders'[o].quantity = orders[o].quantity
    <2>. DEFINE Kept == orders'[o].quantity = orders[o].quantity
    <2>1. CASE UNCHANGED orders
      BY <2>1
    <2>2. ASSUME NEW p, NEW status, orders' = [orders EXCEPT ![p].status = status] PROVE Kept
      BY <1>a, <2>2 DEF Row
    <2>3. ASSUME NEW p \in Orders, Place(p) PROVE Kept
      BY <2>2, <2>3 DEF Place
    <2>4. ASSUME NEW w \in Workers, Execute(w) PROVE Kept
      <3>1. CASE w \in Orders /\ ExecuteImmediately(w)
        BY <2>1, <3>1 DEF ExecuteImmediately
      <3>2. CASE SkipTraded(w)
        BY <2>1, <2>2, <3>2 DEF SkipTraded
      <3>3. CASE Decide(w)
        BY <2>1, <2>2, <3>3 DEF Decide
      <3>4. CASE CommitTrade(w)
        BY <2>2, <3>4 DEF CommitTrade
      <3>5. CASE ReadPosition(w) \/ WritePosition(w)
        BY <2>1, <3>5 DEF ReadPosition, WritePosition
      <3>6. CASE FailExecution(w)
        BY <2>1, <2>2, <3>6 DEF FailExecution
      <3>. QED  BY <2>4, <3>1, <3>2, <3>3, <3>4, <3>5, <3>6 DEF Execute
    <2>5. ASSUME NEW p \in Orders, CommitCancel(p) PROVE Kept
      BY <2>2, <2>5 DEF CommitCancel
    <2>6. ASSUME NEW p \in Orders, NEW q \in Quantities, CommitModify(p, q) PROVE Kept
      BY <2>6 DEF CommitModify, OwnQuantity
    <2>. QED
      BY <2>1, <2>3, <2>4, <2>5, <2>6
      DEF Next, PollSnapshot, PollNext, Tick, BeginEdit, Crash, vars
  <1>3. snapshot'.loaded => \A o \in snapshot'.queue : snapshot'.rows[o].quantity = orders'[o].quantity
    <2>. SUFFICES ASSUME snapshot'.loaded, NEW o \in snapshot'.queue
                  PROVE  snapshot'.rows[o].quantity = orders[o].quantity
      BY <1>2 DEF TypeOK
    <2>1. CASE PollSnapshot
      BY <1>a, <2>1 DEF PollSnapshot
    <2>2. CASE Crash
      BY <2>2 DEF Crash, NoSnapshot
    <2>3. CASE UNCHANGED snapshot
      BY <2>3 DEF OwnQuantity
    <2>4. ASSUME NEW w \in Workers, Expire(w)
          PROVE  snapshot'.rows[o].quantity = orders[o].quantity
      BY <1>a, <2>4 DEF Expire, OwnQuantity, Snapshot
    <2>5. ASSUME NEW p \in Orders, snapshot' = Dequeued(p)
          PROVE  snapshot'.rows[o].quantity = orders[o].quantity
      BY <1>a, <2>5 DEF Dequeued, NoSnapshot, OwnQuantity, Snapshot
    <2>. QED
      BY <2>1, <2>2, <2>3, <2>4, <2>5
      DEF Next, Place, PollNext, Tick, Execute, ExecuteImmediately,
          SkipTraded, Decide, CommitTrade, ReadPosition, WritePosition, FailExecution, BeginEdit,
          CommitCancel, CommitModify, vars
  <1>4. ASSUME NEW w \in Workers, worker'[w].at \in {"process", "execute", "read", "write"}
        PROVE  worker'[w].row.quantity = orders[worker'[w].order].quantity
    <2>0. worker[w] \in Local
      BY <1>a
    <2>. DEFINE Goal == worker'[w].row.quantity = orders[worker'[w].order].quantity
    <2>1. CASE worker'[w] = worker[w]
      BY <1>4, <2>1 DEF OwnQuantity
    <2>2. ASSUME NEW o \in Orders, Place(o) PROVE Goal
      BY <1>a, <1>4, <2>1, <2>2 DEF Place, Local
    <2>3. ASSUME NEW o \in Orders, NEW quoted \in BOOLEAN, PollNext(o, quoted) PROVE Goal
      <3>. DEFINE row == IF snapshot.loaded THEN snapshot.rows[o] ELSE orders[o]
      <3>1. row.quantity = orders[o].quantity
        BY <2>3 DEF PollNext, OwnQuantity
      <3>. HIDE DEF row
      <3>2. worker' = worker \/ worker' = [worker EXCEPT !["poll"] = Working("process", o, row)]
        BY <2>3 DEF PollNext, row
      <3>3. Working("process", o, row).row = row /\ Working("process", o, row).order = o
        BY DEF Working
      <3>. QED  BY <1>a, <2>1, <3>1, <3>2, <3>3
    <2>4. ASSUME NEW o \in Orders, Tick(o) PROVE Goal
      BY <1>a, <2>1, <2>4 DEF Tick, Working
    <2>5. ASSUME NEW v \in Workers, Execute(v) PROVE Goal
      <3>1. CASE v # w
        <4>1. worker'[w] = worker[w]
          BY <1>a, <2>5, <3>1 DEF Execute, ExecuteImmediately, SkipTraded, Decide, CommitTrade,
             ReadPosition, WritePosition, FailExecution
        <4>. QED  BY <2>1, <4>1
      <3>2. CASE v = w /\ w \in Orders /\ ExecuteImmediately(w)
        BY <1>a, <3>2 DEF ExecuteImmediately, Working
      <3>3. CASE worker' = [worker EXCEPT ![w] = Free(w)]
        BY <1>a, <1>4, <3>3 DEF Free
      <3>4. CASE Decide(w) \/ CommitTrade(w)
        <4>1. /\ worker[w].at \in {"process", "execute"}
              /\ worker'[w].at = "idle" \/ (worker'[w].row = worker[w].row /\ worker'[w].order = worker[w].order)
          BY <1>a, <3>4 DEF Decide, CommitTrade, Free, Local
        <4>. QED  BY <1>4, <4>1 DEF OwnQuantity
      <3>5. CASE ReadPosition(w)
        BY <1>a, <3>5 DEF ReadPosition
      <3>6. CASE worker' = [worker EXCEPT ![w].at = "stuck"]
        <4>1. worker'[w].at = "stuck"
          BY <1>a, <3>6 DEF Local
        <4>. QED  BY <1>4, <4>1
      <3>. QED
        BY <2>5, <3>1, <3>2, <3>3, <3>4, <3>5, <3>6
        DEF Execute, SkipTraded, WritePosition, FailExecution
    <2>6. CASE Crash
      BY <1>4, <2>6 DEF Crash, Free
    <2>. QED
      BY <2>1, <2>2, <2>3, <2>4, <2>5, <2>6
      DEF Next, PollSnapshot, BeginEdit, CommitCancel, CommitModify, vars
  <1>5. \A w \in Workers : worker'[w].at \in {"process", "execute", "read", "write"} =>
            worker'[w].row.quantity = orders'[worker'[w].order].quantity
    BY <1>2, <1>4 DEF TypeOK
  <1>. QED  BY <1>1, <1>3, <1>5 DEF OwnQuantity

\* As long as nobody modifies an order, no interleaving, failure or crash
\* leaves more shares in the position than were traded.
THEOREM NoSharesFromNothing ==
    ASSUME "modify" \notin Edits
    PROVE  Spec => []NoPhantomShares
  <1>1. Init => OwnQuantity /\ Covered
    <2>. SUFFICES ASSUME Init PROVE OwnQuantity /\ Covered
      OBVIOUS
    <2>1. \A w \in Workers : worker[w].at = "idle"
      BY DEF Init, Free
    <2>2. OwnQuantity
      BY <2>1 DEF Init, OwnQuantity, NoSnapshot
    <2>3. Unbooked(worker) = {}
      BY <2>1 DEF Unbooked, Committed
    <2>4. IsFiniteSet(Unbooked(worker)) /\ Cardinality(Unbooked(worker)) = 0
      BY <2>3, FS_EmptySet
    <2>5. Covered
      BY <2>1, <2>4 DEF Init, Covered, SharesIn, Absent
    <2>. QED  BY <2>2, <2>5
  <1>2. TypeOK /\ TypeOK' /\ OwnQuantity /\ Covered /\ [Next]_vars => (OwnQuantity /\ Covered)'
    BY StepOwnQuantity, StepCovered
  <1>3. TypeOK /\ Covered => NoPhantomShares
    <2>. SUFFICES ASSUME TypeOK, Covered PROVE position <= traded
      BY DEF NoPhantomShares
    <2>. DEFINE n == Cardinality(Unbooked(worker))
    <2>1. n \in Nat /\ SharesIn(position) + n <= traded
      BY FS_CardinalityType DEF Covered
    <2>2. traded \in Nat /\ position \in Nat \cup {Absent}
      BY DEF TypeOK
    <2>. HIDE DEF n
    <2>. QED  BY <2>1, <2>2 DEF SharesIn, Absent
  <1>. QED  BY <1>1, <1>2, <1>3, RaceType, PTL DEF Spec

-----------------------------------------------------------------------------
(* No fill overwrites another                                              *)

\* One engine at most, which nobody helps; users may edit as they like.
AloneAtWork == ~Immediate /\ \A v, w \in Engines : v = w

\* Only an engine works, and the position is still what it has read.
Undisputed ==
    \A w \in Workers :
        /\ w \notin Engines => worker[w].at = "idle"
        /\ worker[w].at = "write" => worker[w].seen = position

\* The threads that place orders stay out of it.
LEMMA StepIdle ==
    ASSUME AloneAtWork, TypeOK, Undisputed, [Next]_vars,
           NEW o \in Workers \ Engines
    PROVE  worker'[o].at = "idle"
  <1>1. worker \in [Workers -> Local] /\ worker[o].at = "idle"
    BY DEF TypeOK, Local, Undisputed
  <1>2. ASSUME NEW w \in Workers, Execute(w) PROVE worker'[o].at = "idle"
    <2>1. worker[w].at # "idle"
      BY <1>2 DEF Execute, ExecuteImmediately, SkipTraded, Decide, CommitTrade, ReadPosition,
         WritePosition, FailExecution
    <2>2. worker'[o] = worker[o]
      BY <1>1, <1>2, <2>1 DEF Execute, ExecuteImmediately, SkipTraded, Decide, CommitTrade,
         ReadPosition, WritePosition, FailExecution
    <2>. QED  BY <1>1, <2>2
  <1>3. CASE Crash
    BY <1>3 DEF Crash, Free
  <1>4. ASSUME NEW p \in Orders, NEW quoted \in BOOLEAN, PollNext(p, quoted)
        PROVE  worker'[o].at = "idle"
    BY <1>1, <1>4 DEF PollNext, Working
  <1>5. ASSUME NEW p \in Orders, Tick(p) PROVE worker'[o].at = "idle"
    BY <1>1, <1>5 DEF Tick, Working
  <1>6. ASSUME NEW p \in Orders, Place(p) PROVE worker'[o].at = "idle"
    BY <1>1, <1>6 DEF Place, AloneAtWork
  <1>. QED
    BY <1>1, <1>2, <1>3, <1>4, <1>5, <1>6
    DEF Next, PollSnapshot, BeginEdit, CommitCancel, CommitModify, vars

\* What a step of the engine e does to its local state and to the books.
LEMMA AloneStep ==
    ASSUME AloneAtWork, TypeOK, Undisputed, [Next]_vars, NEW e \in Engines
    PROVE  \/ \* it goes on to something that is no booking
              /\ worker[e].at \notin Committed /\ worker'[e].at \notin Committed
              /\ UNCHANGED <<traded, position>>
           \/ \* nothing of this happens
              UNCHANGED <<worker[e], traded, position>>
           \/ \* the trade
              /\ worker[e].at = "execute" /\ worker'[e] = [worker[e] EXCEPT !.at = "read"]
              /\ traded' = traded + worker[e].row.quantity /\ UNCHANGED position
           \/ \* reading the position
              /\ worker[e].at = "read" /\ worker'[e].at = "write" /\ worker'[e].seen = position
              /\ worker'[e].row = orders[worker[e].order]
              /\ UNCHANGED <<traded, position>>
           \/ \* writing it
              /\ worker[e].at = "write" /\ worker'[e].at = "idle"
              /\ position' = worker[e].row.quantity + SharesIn(position) /\ UNCHANGED traded
           \/ \* giving up
              /\ worker'[e].at = "idle" /\ UNCHANGED <<traded, position>>
  <1>1. worker \in [Workers -> Local] /\ e \in Workers
    BY DEF TypeOK, Local, Workers
  <1>2. ASSUME NEW w \in Workers, Execute(w) PROVE w = e
    BY <1>2 DEF Execute, ExecuteImmediately, SkipTraded, Decide, CommitTrade, ReadPosition,
       WritePosition, FailExecution, Undisputed, AloneAtWork
  <1>3. CASE Execute(e)
    <2>1. CASE e \in Orders /\ ExecuteImmediately(e)
      BY <2>1, RaceAssumption
    <2>2. CASE SkipTraded(e) \/ Decide(e)
      BY <1>1, <2>2 DEF SkipTraded, Decide, Free, Committed, Local
    <2>3. CASE CommitTrade(e)
      BY <1>1, <2>3 DEF CommitTrade
    <2>4. CASE ReadPosition(e)
      BY <1>1, <2>4 DEF ReadPosition
    <2>5. CASE WritePosition(e)
      <3>1. worker[e].seen = position
        BY <1>1, <2>5 DEF WritePosition, Undisputed
      <3>. QED  BY <1>1, <2>5, <3>1 DEF WritePosition, Free, SharesIn
    <2>6. CASE FailExecution(e)
      BY <1>1, <2>6 DEF FailExecution, Free
    <2>. QED  BY <1>3, <2>1, <2>2, <2>3, <2>4, <2>5, <2>6 DEF Execute
  <1>4. CASE Crash
    BY <1>1, <1>4 DEF Crash, Free
  <1>5. ASSUME NEW o \in Orders, NEW quoted \in BOOLEAN, PollNext(o, quoted)
        PROVE  \/ UNCHANGED <<worker[e], traded, position>>
               \/ /\ worker[e].at = "idle" /\ worker'[e].at = "process"
                  /\ UNCHANGED <<traded, position>>
    BY <1>1, <1>5 DEF PollNext, Working
  <1>6. ASSUME NEW o \in Orders, Tick(o)
        PROVE  \/ UNCHANGED <<worker[e], traded, position>>
               \/ /\ worker[e].at = "idle" /\ worker'[e].at = "process"
                  /\ UNCHANGED <<traded, position>>
    BY <1>1, <1>6 DEF Tick, Working
  <1>7. ASSUME NEW o \in Orders, Place(o) PROVE UNCHANGED <<worker[e], traded, position>>
    BY <1>1, <1>7 DEF Place, AloneAtWork
  <1>. QED
    BY <1>2, <1>3, <1>4, <1>5, <1>6, <1>7
    DEF Next, PollSnapshot, BeginEdit, CommitCancel, CommitModify, vars, Committed

LEMMA StepUndisputed ==
    ASSUME AloneAtWork, TypeOK, Undisputed, [Next]_vars
    PROVE  Undisputed'
  <1>1. ASSUME NEW w \in Workers, w \notin Engines PROVE worker'[w].at = "idle"
    BY <1>1, StepIdle
  <1>2. ASSUME NEW w \in Workers, w \in Engines, worker'[w].at = "write"
        PROVE  worker'[w].seen = position'
    <2>1. worker[w].at = "write" => worker[w].seen = position
      BY DEF Undisputed
    <2>2. worker \in [Workers -> Local]
      BY DEF TypeOK, Local
    <2>. QED  BY <1>2, <2>1, <2>2, AloneStep DEF Committed, Local
  <1>. QED  BY <1>1, <1>2 DEF Undisputed

\* With one executor nothing but a modification that overtakes a trade and an
\* execution that is cut short parts the position from the trade book.
THEOREM BooksStayTogether ==
    ASSUME AloneAtWork
    PROVE  Spec => BooksPartForAReason
  <1>. DEFINE Kept == \A w \in Engines : Missing(w)' # Missing(w) => Overtaken(w) \/ CutShort(w)
  <1>1. Init => Undisputed
    BY DEF Init, Undisputed, Free
  <1>2. TypeOK /\ Undisputed /\ [Next]_vars => Undisputed'
    BY StepUndisputed
  <1>3. ASSUME TypeOK, TypeOK', Undisputed, [Next]_vars PROVE Kept
    <2>. SUFFICES ASSUME NEW w \in Engines, Missing(w)' # Missing(w)
                  PROVE  Overtaken(w) \/ CutShort(w)
      OBVIOUS
    <2>. DEFINE q == worker[w].row.quantity
                s == SharesIn(position)
    <2>1. /\ worker[w] \in Local /\ worker'[w] \in Local /\ traded \in Nat
          /\ q \in Nat /\ s \in Nat
      <3>1. worker[w] \in Local /\ worker'[w] \in Local /\ traded \in Nat /\ s \in Nat
        BY <1>3 DEF TypeOK, Local, Workers, SharesIn, Absent
      <3>. QED  BY <3>1, QuantityIsNat DEF Local
    <2>2. CASE worker[w].at \notin Committed /\ worker'[w].at \notin Committed
               /\ UNCHANGED <<traded, position>>
      BY <2>2 DEF Missing, Mine
    <2>3. CASE UNCHANGED <<worker[w], traded, position>>
      BY <2>3 DEF Missing
    <2>4. CASE /\ worker[w].at = "execute" /\ worker'[w] = [worker[w] EXCEPT !.at = "read"]
               /\ traded' = traded + q /\ UNCHANGED position
      <3>1. Mine(worker[w]) = 0 /\ Mine(worker'[w]) = q
        BY <2>1, <2>4 DEF Mine, Committed, Local
      <3>2. Missing(w) = traded - s - 0 /\ Missing(w)' = (traded + q) - s - q
        BY <2>4, <3>1 DEF Missing
      <3>. HIDE DEF q, s
      <3>. QED  BY <2>1, <3>2
    <2>5. CASE /\ worker[w].at = "read" /\ worker'[w].at = "write"
               /\ worker'[w].row = orders[worker[w].order]
               /\ UNCHANGED <<traded, position>>
      BY <2>5 DEF Missing, Mine, Overtaken, Committed
    <2>6. CASE /\ worker[w].at = "write" /\ worker'[w].at = "idle"
               /\ position' = q + s /\ UNCHANGED traded
      <3>1. Mine(worker[w]) = q /\ Mine(worker'[w]) = 0
        BY <2>6 DEF Mine, Committed
      <3>2. SharesIn(position') = q + s
        <4>1. q + s \in Nat
          <5>. HIDE DEF q, s
          <5>. QED  BY <2>1
        <4>. QED  BY <2>6, <4>1 DEF SharesIn, Absent
      <3>3. Missing(w) = traded - s - q /\ Missing(w)' = traded - (q + s) - 0
        BY <2>6, <3>1, <3>2 DEF Missing
      <3>. HIDE DEF q, s
      <3>. QED  BY <2>1, <3>3
    <2>7. CASE worker'[w].at = "idle" /\ UNCHANGED <<traded, position>>
      BY <2>7 DEF Missing, Mine, CutShort, Committed
    <2>. QED  BY <1>3, <2>2, <2>3, <2>4, <2>5, <2>6, <2>7, AloneStep
  <1>. QED  BY <1>1, <1>2, <1>3, RaceType, PTL DEF Spec, BooksPartForAReason

-----------------------------------------------------------------------------
(* A single executor                                                       *)

\* A single executor and no cancellations: the setting
\* in which the order book keeps its promise.
SingleExecutor == AloneAtWork /\ "cancel" \notin Edits

\* Nothing is cancelled, and what has traded is not open.
Settled ==
    \A o \in Orders :
        /\ worker[o].at = "idle"
        /\ editor[o] # "cancel"
        /\ trades[o] > 0 => orders[o].status \in {"complete", "rejected"}

\* What waits in the snapshot of the polling engine is open.
QueuedIsOpen ==
    \A o \in snapshot.queue : orders[o].status = "open" /\ "poll" \in Engines

\* What is about to be executed is open and waits no more; what is about to
\* reach the position has traded.
ExecutedIsOpen ==
    \A w \in Engines :
        /\ worker[w].at \in {"process", "execute"} =>
              /\ orders[worker[w].order].status = "open"
              /\ worker[w].order \notin snapshot.queue
        /\ worker[w].at \in {"read", "write"} => trades[worker[w].order] > 0

SingleInv == Settled /\ QueuedIsOpen /\ ExecutedIsOpen

\* The facts of the invariants every case below starts from.
LEMMA SingleFacts ==
    ASSUME SingleExecutor, TypeOK, SingleInv
    PROVE  /\ worker \in [Workers -> Local]
           /\ trades \in [Orders -> Nat]
           /\ orders \in [Orders -> Row]
           /\ snapshot \in Snapshot
           /\ \A o \in Orders :
                 /\ worker[o].at = "idle"
                 /\ editor[o] # "cancel"
                 /\ trades[o] > 0 => orders[o].status \in {"complete", "rejected"}
                 /\ o \in snapshot.queue => orders[o].status = "open" /\ "poll" \in Engines
           /\ \A w \in Workers : worker[w].at # "idle" =>
                 /\ w \in Engines
                 /\ worker[w].order \in Orders
                 /\ \A v \in Workers \ {w} : worker[v].at = "idle"
                 /\ worker[w].at \in {"process", "execute"} =>
                       /\ orders[worker[w].order].status = "open"
                       /\ worker[w].order \notin snapshot.queue
                 /\ worker[w].at \in {"read", "write"} => trades[worker[w].order] > 0
  BY DEF SingleExecutor, AloneAtWork, TypeOK, SingleInv, Settled, QueuedIsOpen, ExecutedIsOpen,
         Local, Snapshot, Workers

\* Dequeuing takes an order out of the snapshot, a commit adds none.
LEMMA QueueShrinks ==
    ASSUME TypeOK, NEW o \in Orders
    PROVE  /\ o \in snapshot.queue => Dequeued(o).queue = snapshot.queue \ {o}
           /\ \A w \in Workers : Expire(w) => snapshot'.queue = snapshot.queue
  <1>. USE DEF TypeOK
  <1>1. o \in snapshot.queue => Dequeued(o).queue = snapshot.queue \ {o}
    BY DEF Dequeued, NoSnapshot
  <1>2. ASSUME NEW w \in Workers, Expire(w) PROVE snapshot'.queue = snapshot.queue
    BY <1>2 DEF Expire
  <1>. QED  BY <1>1, <1>2

\* A step of the single executor keeps the invariant.
LEMMA ExecuteSingle ==
    ASSUME SingleExecutor, TypeOK, SingleInv, NEW w \in Workers, Execute(w)
    PROVE  SingleInv'
  <1>. DEFINE o == worker[w].order
  <1>a. /\ worker \in [Workers -> Local]
        /\ trades \in [Orders -> Nat]
        /\ orders \in [Orders -> Row]
        /\ \A p \in Orders :
              /\ p \in Workers
              /\ worker[p].at = "idle"
              /\ editor[p] # "cancel"
              /\ trades[p] > 0 => orders[p].status \in {"complete", "rejected"}
              /\ p \in snapshot.queue => orders[p].status = "open" /\ "poll" \in Engines
        /\ snapshot.queue \subseteq Orders
    BY SingleFacts DEF Snapshot, Workers
  <1>b. worker[w].at # "idle"
    BY <1>a DEF Execute, ExecuteImmediately, SkipTraded, Decide, CommitTrade, ReadPosition,
                WritePosition, FailExecution
  <1>c. /\ w \in Engines
        /\ o \in Orders
        /\ \A v \in Workers \ {w} : worker[v].at = "idle"
        /\ worker[w].at \in {"process", "execute"} =>
              orders[o].status = "open" /\ o \notin snapshot.queue
        /\ worker[w].at \in {"read", "write"} => trades[o] > 0
    BY <1>b, SingleFacts
  <1>d. Free(w).at = "idle" /\ (Expire(w) => snapshot'.queue = snapshot.queue)
    BY <1>c, QueueShrinks DEF Free
  <1>e. w \notin Orders /\ \A v \in Engines : v = w
    BY <1>c DEF SingleExecutor, AloneAtWork
  <1>2. CASE SkipTraded(w)
    BY <1>2, <1>a, <1>c DEF SkipTraded
  <1>3. CASE Decide(w)
    <2>1. \/ worker'[w].at = "execute" /\ worker'[w].order = o /\ worker[w].at = "process"
          \/ worker'[w].at = "idle"
      BY <1>3, <1>a, <1>d DEF Decide, Local
    <2>2. \A p \in Orders : worker'[p] = worker[p]
      BY <1>3, <1>a, <1>e DEF Decide
    <2>. QED
      BY <1>3, <1>a, <1>c, <1>e, <2>1, <2>2
      DEF Decide, SingleInv, Settled, QueuedIsOpen, ExecutedIsOpen
  <1>4. CASE CommitTrade(w)
    <2>1. worker'[w].at = "read" /\ worker'[w].order = o
      BY <1>4, <1>a DEF CommitTrade, Local
    <2>2. \A p \in Orders : worker'[p] = worker[p]
      BY <1>4, <1>a, <1>e DEF CommitTrade
    <2>3. trades'[o] > 0 /\ orders'[o].status = "complete" /\ o \notin snapshot.queue
      BY <1>4, <1>a, <1>c DEF CommitTrade, Row
    <2>4. \A p \in Orders \ {o} : trades'[p] = trades[p] /\ orders'[p] = orders[p]
      BY <1>4, <1>a, <1>c DEF CommitTrade
    <2>5. snapshot'.queue = snapshot.queue /\ editor' = editor
      BY <1>4, <1>d DEF CommitTrade
    <2>6. Settled'
      BY <1>a, <1>c, <2>2, <2>3, <2>4, <2>5 DEF Settled
    <2>7. QueuedIsOpen'
      BY <1>a, <2>3, <2>4, <2>5 DEF QueuedIsOpen
    <2>8. ExecutedIsOpen'
      BY <1>c, <1>e, <2>1, <2>3 DEF ExecutedIsOpen
    <2>. QED  BY <2>6, <2>7, <2>8 DEF SingleInv
  <1>5. CASE ReadPosition(w)
    <2>1. worker'[w].at = "write" /\ worker'[w].order = o /\ trades[o] > 0
      BY <1>5, <1>a, <1>c DEF ReadPosition
    <2>2. \A p \in Orders : worker'[p] = worker[p]
      BY <1>5, <1>a, <1>e DEF ReadPosition
    <2>. QED
      BY <1>5, <1>a, <1>e, <2>1, <2>2
      DEF ReadPosition, SingleInv, Settled, QueuedIsOpen, ExecutedIsOpen
  <1>6. CASE WritePosition(w)
    <2>1. worker'[w].at = "idle"
      BY <1>6, <1>a, <1>d DEF WritePosition
    <2>2. \A p \in Orders : worker'[p] = worker[p]
      BY <1>6, <1>a, <1>e DEF WritePosition
    <2>. QED
      BY <1>6, <1>a, <1>d, <1>e, <2>1, <2>2
      DEF WritePosition, SingleInv, Settled, QueuedIsOpen, ExecutedIsOpen
  <1>7. CASE FailExecution(w)
    <2>1. worker'[w].at = "idle"
      BY <1>7, <1>a, <1>d DEF FailExecution
    <2>2. \A p \in Orders : worker'[p] = worker[p]
      BY <1>7, <1>a, <1>e DEF FailExecution
    <2>3. o \notin snapshot.queue
      BY <1>7, <1>a, <1>c DEF FailExecution
    <2>4. \A p \in Orders : orders'[p] = orders[p] \/ (p = o /\ orders'[p].status = "rejected")
      BY <1>7, <1>a, <1>c DEF FailExecution, Row
    <2>. QED
      BY <1>7, <1>a, <1>d, <1>e, <2>1, <2>2, <2>3, <2>4
      DEF FailExecution, SingleInv, Settled, QueuedIsOpen, ExecutedIsOpen
  <1>8. CASE w \in Orders /\ ExecuteImmediately(w)
    BY <1>8, <1>e
  <1>. QED  BY <1>2, <1>3, <1>4, <1>5, <1>6, <1>7, <1>8 DEF Execute

\* So does every other step.
LEMMA StepSingle ==
    ASSUME SingleExecutor
    PROVE  TypeOK /\ SingleInv /\ [Next]_vars => SingleInv'
  <1>. SUFFICES ASSUME TypeOK, SingleInv, [Next]_vars PROVE SingleInv'
    OBVIOUS
  <1>a. /\ worker \in [Workers -> Local]
        /\ trades \in [Orders -> Nat]
        /\ orders \in [Orders -> Row]
        /\ editor \in [Orders -> {"none", "cancel", "modify"}]
        /\ \A p \in Orders :
              /\ p \in Workers
              /\ worker[p].at = "idle"
              /\ editor[p] # "cancel"
              /\ trades[p] > 0 => orders[p].status \in {"complete", "rejected"}
              /\ p \in snapshot.queue => orders[p].status = "open" /\ "poll" \in Engines
        /\ snapshot.queue \subseteq Orders
        /\ \A w \in Engines :
              /\ w \in Workers /\ w \notin Orders
              /\ \A v \in Engines : v = w
              /\ worker[w].at # "idle" => worker[w].order \in Orders
              /\ worker[w].at \in {"process", "execute"} =>
                    /\ orders[worker[w].order].status = "open"
                    /\ worker[w].order \notin snapshot.queue
              /\ worker[w].at \in {"read", "write"} => trades[worker[w].order] > 0
    BY SingleFacts DEF Snapshot, Workers, SingleExecutor, AloneAtWork, TypeOK
  <1>b. \A v \in Workers : Free(v).at = "idle"
    BY DEF Free
  <1>1. ASSUME NEW o \in Orders, Place(o) PROVE SingleInv'
    <2>1. /\ UNCHANGED <<trades, worker, snapshot, editor>>
          /\ \A p \in Orders \ {o} : orders'[p] = orders[p]
          /\ orders[o].status = "none" /\ orders'[o].status = "open"
      BY <1>1, <1>a DEF Place, SingleExecutor, AloneAtWork, Row
    <2>. QED  BY <1>a, <2>1 DEF SingleInv, Settled, QueuedIsOpen, ExecutedIsOpen
  <1>2. ASSUME PollSnapshot PROVE SingleInv'
    <2>1. /\ "poll" \in Engines /\ worker["poll"].at = "idle"
          /\ UNCHANGED <<orders, trades, worker, editor>>
          /\ \A p \in snapshot'.queue : p \in Orders /\ orders[p].status = "open"
      BY <1>2 DEF PollSnapshot
    <2>. QED  BY <1>a, <2>1 DEF SingleInv, Settled, QueuedIsOpen, ExecutedIsOpen
  <1>3. ASSUME NEW o \in Orders, NEW quoted \in BOOLEAN, PollNext(o, quoted)
        PROVE  SingleInv'
    <2>1. /\ "poll" \in Engines /\ worker["poll"].at = "idle"
          /\ UNCHANGED <<orders, trades, editor>>
          /\ snapshot'.queue = snapshot.queue \ {o} /\ o \in snapshot.queue
      BY <1>3, QueueShrinks DEF PollNext
    <2>2. CASE UNCHANGED worker
      BY <1>a, <2>1, <2>2 DEF SingleInv, Settled, QueuedIsOpen, ExecutedIsOpen
    <2>3. CASE ~UNCHANGED worker
      <3>1. PICK row : worker' = [worker EXCEPT !["poll"] = Working("process", o, row)]
        BY <1>3, <2>3 DEF PollNext
      <3>2. /\ worker'["poll"].at = "process" /\ worker'["poll"].order = o
            /\ \A p \in Orders : worker'[p] = worker[p]
        BY <1>a, <2>1, <3>1 DEF Working
      <3>. QED  BY <1>a, <2>1, <3>2 DEF SingleInv, Settled, QueuedIsOpen, ExecutedIsOpen
    <2>. QED  BY <2>2, <2>3
  <1>4. ASSUME NEW o \in Orders, Tick(o) PROVE SingleInv'
    <2>1. /\ "tick" \in Engines /\ orders[o].status = "open"
          /\ UNCHANGED <<orders, trades, snapshot, editor>>
          /\ worker'["tick"].at = "process" /\ worker'["tick"].order = o
          /\ \A p \in Orders : worker'[p] = worker[p]
      BY <1>4, <1>a DEF Tick, Working
    <2>2. snapshot.queue = {}
      BY <1>a, <2>1
    <2>. QED  BY <1>a, <2>1, <2>2 DEF SingleInv, Settled, QueuedIsOpen, ExecutedIsOpen
  <1>5. ASSUME NEW w \in Workers, Execute(w) PROVE SingleInv'
    BY <1>5, ExecuteSingle
  <1>6. ASSUME NEW o \in Orders, NEW edit \in Edits, BeginEdit(o, edit) PROVE SingleInv'
    BY <1>6, <1>a DEF BeginEdit, SingleExecutor, AloneAtWork, SingleInv, Settled, QueuedIsOpen, ExecutedIsOpen
  <1>7. ASSUME NEW o \in Orders, CommitCancel(o) PROVE SingleInv'
    BY <1>7, <1>a DEF CommitCancel
  <1>8. ASSUME NEW o \in Orders, NEW q \in Quantities, CommitModify(o, q) PROVE SingleInv'
    <2>1. /\ UNCHANGED <<trades, worker, snapshot>>
          /\ \A p \in Orders : orders'[p].status = orders[p].status /\ editor'[p] # "cancel"
      BY <1>8, <1>a DEF CommitModify, Row
    <2>. QED  BY <1>a, <2>1 DEF SingleInv, Settled, QueuedIsOpen, ExecutedIsOpen
  <1>9. ASSUME Crash PROVE SingleInv'
    <2>1. /\ UNCHANGED <<orders, trades>>
          /\ \A w \in Workers : worker'[w].at = "idle"
          /\ snapshot'.queue = {}
          /\ \A p \in Orders : editor'[p] = "none"
      BY <1>9, <1>b DEF Crash, NoSnapshot
    <2>. QED  BY <1>a, <2>1 DEF SingleInv, Settled, QueuedIsOpen, ExecutedIsOpen
  <1>10. CASE UNCHANGED vars
    BY <1>10 DEF vars, SingleInv, Settled, QueuedIsOpen, ExecutedIsOpen
  <1>. QED
    BY <1>1, <1>2, <1>3, <1>4, <1>5, <1>6, <1>7, <1>8, <1>9, <1>10 DEF Next

\* What is queued or executed is open, in every state of a single executor.
LEMMA SingleAlways ==
    ASSUME SingleExecutor
    PROVE  Spec => []SingleInv
  <1>1. Init => SingleInv
    BY DEF Init, SingleInv, Settled, QueuedIsOpen, ExecutedIsOpen, NoSnapshot, Free, Workers
  <1>. QED  BY <1>1, StepSingle, RaceType, PTL DEF Spec

-----------------------------------------------------------------------------
(* Refinement of OrderLifecycle                                            *)

\* A step that changes what an observer sees of one order is a step of
\* OrderLifecycle, if it goes from open to filled or dropped, or from none to
\* open; one that changes nothing is none.
LEMMA ObservedStep ==
    ASSUME NEW a \in Orders,
           \A p \in Orders \ {a} : Lifecycle(p)' = Lifecycle(p),
           \/ Lifecycle(a)' = Lifecycle(a)
           \/ Lifecycle(a) = "none" /\ Lifecycle(a)' = "open"
           \/ Lifecycle(a) = "open" /\ Lifecycle(a)' \in {"filled", "dropped"}
    PROVE  [Abstract!Next]_([o \in Orders |-> Lifecycle(o)])
  <1>. DEFINE seen == [p \in Orders |-> Lifecycle(p)]
  <1>1. CASE Lifecycle(a)' = Lifecycle(a)
    <2>1. \A p \in Orders : Lifecycle(p)' = Lifecycle(p)
      BY <1>1
    <2>2. seen' = seen
      BY <2>1
    <2>. QED  BY <2>2
  <1>2. CASE Lifecycle(a) = "none" /\ Lifecycle(a)' = "open"
    <2>1. seen[a] = "none" /\ seen' = [seen EXCEPT ![a] = "open"]
      BY <1>2
    <2>. QED  BY <2>1 DEF Abstract!Next, Abstract!Place
  <1>3. CASE Lifecycle(a) = "open" /\ Lifecycle(a)' = "filled"
    <2>1. seen[a] = "open" /\ seen' = [seen EXCEPT ![a] = "filled"]
      BY <1>3
    <2>. QED  BY <2>1 DEF Abstract!Next, Abstract!Fill
  <1>4. CASE Lifecycle(a) = "open" /\ Lifecycle(a)' = "dropped"
    <2>1. seen[a] = "open" /\ seen' = [seen EXCEPT ![a] = "dropped"]
      BY <1>4
    <2>. QED  BY <2>1 DEF Abstract!Next, Abstract!Drop
  <1>. QED  BY <1>1, <1>2, <1>3, <1>4

\* Nobody sees a step that changes neither a status nor a number of trades.
LEMMA UnseenStep ==
    ASSUME \A p \in Orders : trades'[p] = trades[p] /\ orders'[p].status = orders[p].status
    PROVE  [Abstract!Next]_([o \in Orders |-> Lifecycle(o)])
  <1>1. \A p \in Orders : Lifecycle(p)' = Lifecycle(p)
    BY DEF Lifecycle
  <1>2. [p \in Orders |-> Lifecycle(p)]' = [p \in Orders |-> Lifecycle(p)]
    BY <1>1
  <1>. QED  BY <1>2

\* Each step of a single executor is a step of OrderLifecycle, or unseen.
LEMMA StepImplements ==
    ASSUME SingleExecutor
    PROVE  TypeOK /\ SingleInv /\ [Next]_vars
              => [Abstract!Next]_([o \in Orders |-> Lifecycle(o)])
  <1>. DEFINE Seen == [Abstract!Next]_([o \in Orders |-> Lifecycle(o)])
  <1>. SUFFICES ASSUME TypeOK, SingleInv, [Next]_vars PROVE Seen
    OBVIOUS
  <1>a. /\ trades \in [Orders -> Nat]
        /\ orders \in [Orders -> Row]
        /\ \A p \in Orders :
              /\ worker[p].at = "idle"
              /\ editor[p] # "cancel"
              /\ trades[p] > 0 => orders[p].status \in {"complete", "rejected"}
    BY SingleFacts
  <1>b. \A w \in Workers : worker[w].at # "idle" =>
           /\ worker[w].order \in Orders
           /\ worker[w].at \in {"process", "execute"} =>
                 orders[worker[w].order].status = "open"
           /\ worker[w].at \in {"read", "write"} => trades[worker[w].order] > 0
    BY SingleFacts
  <1>. HIDE DEF Seen
  <1>c. ASSUME \A p \in Orders : /\ trades'[p] = trades[p]
                                 /\ orders'[p].status = orders[p].status
        PROVE  Seen
    BY <1>c, UnseenStep DEF Seen
  <1>1. ASSUME NEW o \in Orders, Place(o) PROVE Seen
    <2>1. \A p \in Orders \ {o} : Lifecycle(p)' = Lifecycle(p)
      BY <1>1, <1>a DEF Place, Lifecycle
    <2>2. /\ orders[o].status = "none" /\ orders'[o].status = "open"
          /\ trades[o] = 0 /\ trades'[o] = 0
      BY <1>1, <1>a DEF Place, Row
    <2>3. Lifecycle(o) = "none" /\ Lifecycle(o)' = "open"
      BY <2>2 DEF Lifecycle
    <2>. QED  BY <2>1, <2>3, ObservedStep DEF Seen
  <1>2. ASSUME NEW w \in Workers, Execute(w) PROVE Seen
    <2>1. CASE CommitTrade(w)
      <3>0. PICK o : o = worker[w].order
        OBVIOUS
      <3>1. o \in Orders /\ orders[o].status = "open" /\ trades[o] = 0
        BY <2>1, <3>0, <1>a, <1>b DEF CommitTrade
      <3>2. \A p \in Orders \ {o} : Lifecycle(p)' = Lifecycle(p)
        BY <2>1, <3>0, <3>1, <1>a DEF CommitTrade, Lifecycle
      <3>3. trades'[o] = 1
        BY <2>1, <3>0, <3>1, <1>a DEF CommitTrade
      <3>4. Lifecycle(o) = "open" /\ Lifecycle(o)' = "filled"
        BY <3>1, <3>3 DEF Lifecycle
      <3>. QED  BY <3>1, <3>2, <3>4, ObservedStep DEF Seen
    <2>2. CASE FailExecution(w)
      <3>0. PICK o : o = worker[w].order
        OBVIOUS
      <3>1. /\ o \in Orders /\ trades' = trades
            /\ worker[w].at = "execute" \/ trades[o] > 0
            /\ worker[w].at = "execute" => orders[o].status = "open"
        BY <2>2, <3>0, <1>b DEF FailExecution
      <3>2. CASE UNCHANGED orders
        BY <3>1, <3>2, <1>c
      <3>3. CASE orders' = [orders EXCEPT ![o].status = "rejected"]
        <4>1. \A p \in Orders \ {o} : Lifecycle(p)' = Lifecycle(p)
          BY <3>1, <3>3, <1>a DEF Lifecycle
        <4>2. orders'[o].status = "rejected"
          BY <3>1, <3>3, <1>a DEF Row
        <4>3. \/ Lifecycle(o)' = Lifecycle(o)
              \/ Lifecycle(o) = "open" /\ Lifecycle(o)' = "dropped"
          BY <3>1, <4>2, <1>a DEF Lifecycle
        <4>. QED  BY <3>1, <4>1, <4>3, ObservedStep DEF Seen
      <3>. QED  BY <2>2, <3>0, <3>2, <3>3 DEF FailExecution
    <2>3. CASE SkipTraded(w)
      BY <2>3, <1>a, <1>b DEF SkipTraded
    <2>4. CASE UNCHANGED <<orders, trades>>
      BY <2>4, <1>c
    <2>. QED
      BY <1>2, <2>1, <2>2, <2>3, <2>4
      DEF Execute, ExecuteImmediately, Decide, ReadPosition, WritePosition
  <1>3. ASSUME NEW o \in Orders, CommitCancel(o) PROVE Seen
    BY <1>3, <1>a DEF CommitCancel
  <1>4. ASSUME NEW o \in Orders, NEW q \in Quantities, CommitModify(o, q) PROVE Seen
    <2>1. \A p \in Orders : trades'[p] = trades[p] /\ orders'[p].status = orders[p].status
      BY <1>4, <1>a DEF CommitModify, Row
    <2>. QED  BY <2>1, <1>c
  <1>5. CASE UNCHANGED <<orders, trades>>
    BY <1>5, <1>c
  <1>. QED
    BY <1>1, <1>2, <1>3, <1>4, <1>5
    DEF Next, PollSnapshot, PollNext, Tick, BeginEdit, Crash, vars

\* With one engine, no other executor and no cancellations, the sandbox keeps
\* the order book's promise through failed commits, crashes and modifications:
\* an order is filled or dropped, once and for all.
THEOREM SingleExecutorImplementsLifecycle ==
    ASSUME SingleExecutor
    PROVE  Spec => Abstract!Spec
  <1>1. Init => Abstract!Init
    <2>. SUFFICES ASSUME Init PROVE Abstract!Init
      OBVIOUS
    <2>1. \A p \in Orders : orders[p].status = "none" /\ trades[p] = 0
      BY DEF Init, NoRow
    <2>2. \A p \in Orders : Lifecycle(p) = "none"
      BY <2>1 DEF Lifecycle
    <2>. QED  BY <2>2 DEF Abstract!Init
  <1>2. TypeOK /\ SingleInv /\ [Next]_vars => [Abstract!Next]_([o \in Orders |-> Lifecycle(o)])
    BY StepImplements
  <1>3. Spec => [](TypeOK /\ SingleInv)
    BY SingleAlways, RaceType, PTL
  <1>. QED  BY <1>1, <1>2, <1>3, PTL DEF Spec, Abstract!Spec

=============================================================================
