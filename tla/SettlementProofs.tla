---------------------------- MODULE SettlementProofs ----------------------------
(***************************************************************************)
(* Proofs about Settlement for all symbols, settlement threads and bounds.  *)
(*                                                                         *)
(* As long as settlements have not overlapped, one thread is active, the     *)
(* holding it has read is the holding in the database, and its rows are      *)
(* still there.  Then a transfer moves exactly what the position held, and   *)
(* the rows that are settled but not yet deleted are the one before the      *)
(* current position and rows of quantity zero: that bounds what a crash or a *)
(* failed commit can cost.                                                  *)
(***************************************************************************)
EXTENDS Settlement, FiniteSetTheorems, TLAPS

USE BoundsAssumption, SymbolsAssumption

-----------------------------------------------------------------------------
(* Types                                                                   *)

LocalType == [pc : {"idle", "take", "transfer", "mark"}, todo : SUBSET Symbols,
              held : SUBSET Symbols, row : [Symbols -> PositionType], cur : Symbols,
              quantity : Int, old : Int, dels : SUBSET Symbols]

\* The initial local state and the empty row are of their types.
LEMMA IdleType == AnySymbol \in Symbols /\ NoPosition \in PositionType /\ Idle \in LocalType
  <1>1. AnySymbol \in Symbols
    BY DEF AnySymbol
  <1>2. NoPosition \in PositionType
    BY DEF NoPosition, PositionType
  <1>. QED  BY <1>1, <1>2 DEF Idle, LocalType

\* A local state is the record of its fields.
LEMMA LocalFields ==
    ASSUME NEW l \in LocalType
    PROVE  /\ l = [pc |-> l.pc, todo |-> l.todo, held |-> l.held, row |-> l.row, cur |-> l.cur,
                   quantity |-> l.quantity, old |-> l.old, dels |-> l.dels]
           /\ l.pc \in {"idle", "take", "transfer", "mark"} /\ l.todo \in SUBSET Symbols
           /\ l.held \in SUBSET Symbols /\ l.row \in [Symbols -> PositionType] /\ l.cur \in Symbols
           /\ l.quantity \in Int /\ l.old \in Int /\ l.dels \in SUBSET Symbols
  BY DEF LocalType

\* What each step leaves in the thread that takes it.
Started(t) ==
    LET due == {s \in Symbols : position[s].old} IN
    [pc |-> "take", todo |-> due, held |-> due,
     row |-> [s \in Symbols |-> IF s \in due THEN position[s] ELSE NoPosition],
     cur |-> AnySymbol, quantity |-> 0, old |-> 0, dels |-> {}]
Dropping(l, s) ==
    [pc |-> "take", todo |-> l.todo \ {s}, held |-> l.held, row |-> l.row, cur |-> l.cur,
     quantity |-> l.quantity, old |-> l.old, dels |-> l.dels \cup {s}]
Moving(l, s, n, m) ==
    [pc |-> "transfer", todo |-> l.todo \ {s}, held |-> l.held, row |-> l.row, cur |-> s,
     quantity |-> n, old |-> m, dels |-> l.dels]
AfterTransfer(l) ==
    [pc |-> "mark", todo |-> l.todo, held |-> {}, row |-> l.row, cur |-> l.cur,
     quantity |-> l.quantity, old |-> l.old, dels |-> {}]
Marked(l) ==
    [pc |-> "take", todo |-> l.todo, held |-> l.held, row |-> l.row, cur |-> AnySymbol,
     quantity |-> 0, old |-> 0, dels |-> l.dels \cup {l.cur}]

\* A thread that has passed a row, one that has read a position and its
\* holding, one whose transfer has ended, one that is done with a position.
LEMMA DroppingUpdate ==
    ASSUME NEW l \in LocalType, NEW s, NEW k, l.pc = "take",
           k = [l EXCEPT !.todo = l.todo \ {s}, !.dels = l.dels \cup {s}]
    PROVE  k = Dropping(l, s)
  BY DEF LocalType, Dropping
LEMMA MovingUpdate ==
    ASSUME NEW l \in LocalType, NEW s, NEW n, NEW m, NEW k,
           k = [l EXCEPT !.pc = "transfer", !.todo = l.todo \ {s}, !.cur = s, !.quantity = n, !.old = m]
    PROVE  k = Moving(l, s, n, m)
  BY DEF LocalType, Moving
LEMMA TransferUpdate ==
    ASSUME NEW l \in LocalType, NEW k, k = [l EXCEPT !.pc = "mark", !.held = {}, !.dels = {}]
    PROVE  k = AfterTransfer(l)
  BY DEF LocalType, AfterTransfer
LEMMA MarkedUpdate ==
    ASSUME NEW l \in LocalType, NEW k,
           k = [l EXCEPT !.pc = "take", !.dels = l.dels \cup {l.cur}, !.cur = AnySymbol, !.quantity = 0, !.old = 0]
    PROVE  k = Marked(l)
  BY DEF LocalType, Marked

\* Rows that differ in some fields.
LEMMA RowUpdates ==
    ASSUME NEW p \in PositionType
    PROVE  /\ \A q \in Int : [p EXCEPT !.quantity = q] \in PositionType
           /\ \A b \in BOOLEAN : [p EXCEPT !.old = b] \in PositionType
  BY DEF PositionType

\* One thread moves to a new local state.
Becomes(t, l) == settler' \in [Settlers -> LocalType] /\ settler'[t] = l /\ \A u \in Settlers \ {t} : settler'[u] = settler[u]

\* Giving one thread a new local state does that.
LEMMA OneMoves ==
    ASSUME TypeOK, NEW t \in Settlers, NEW l \in LocalType, settler' = [settler EXCEPT ![t] = l]
    PROVE  Becomes(t, l)
  <1>1. settler \in [Settlers -> LocalType]
    BY DEF TypeOK, LocalType
  <1>. QED  BY <1>1 DEF Becomes

\* The next local state of a settlement thread.
LEMMA LocalSteps ==
    ASSUME TypeOK, NEW t \in Settlers
    PROVE  /\ Start(t) => Becomes(t, Started(t))
           /\ \A s \in Symbols : Take(t, s) =>
                 \/ Gone(t, s) /\ Becomes(t, Idle)
                 \/ Quantity(t, s) = 0 /\ ~Gone(t, s) /\ Becomes(t, Dropping(settler[t], s))
                 \/ /\ Quantity(t, s) # 0 /\ ~Gone(t, s)
                    /\ Becomes(t, Moving(settler[t], s, Quantity(t, s), holding[s]))
           /\ Transfer(t) \/ TransferFails(t) => Becomes(t, AfterTransfer(settler[t]))
           /\ Mark(t) => \/ Gone(t, settler[t].cur) /\ Becomes(t, Idle)
                         \/ ~Gone(t, settler[t].cur) /\ Becomes(t, Marked(settler[t]))
           /\ Finish(t) => Becomes(t, Idle)
  <1>. PICK l : l = settler[t]
    OBVIOUS
  <1>0. l \in LocalType /\ settler \in [Settlers -> LocalType]
    BY DEF TypeOK, LocalType
  <1>1. /\ l.pc \in {"idle", "take", "transfer", "mark"} /\ l.todo \in SUBSET Symbols
        /\ l.held \in SUBSET Symbols /\ l.row \in [Symbols -> PositionType] /\ l.cur \in Symbols
        /\ l.quantity \in Int /\ l.old \in Int /\ l.dels \in SUBSET Symbols
        /\ holding \in [Symbols -> Int] /\ position \in [Symbols -> PositionType]
    BY <1>0, LocalFields DEF TypeOK
  <1>2. ASSUME Start(t) PROVE Becomes(t, Started(t))
    <2>1. PICK k : k = [Idle EXCEPT !.pc = "take", !.todo = {s \in Symbols : position[s].old},
                                  !.held = {s \in Symbols : position[s].old},
                                  !.row = [s \in Symbols |-> IF s \in {r \in Symbols : position[r].old}
                                                            THEN position[s] ELSE NoPosition]]
      OBVIOUS
    <2>2. settler' = [settler EXCEPT ![t] = k]
      BY <1>2, <2>1 DEF Start
    <2>3. k = Started(t)
      BY <2>1 DEF Idle, Started
    <2>4. Started(t) \in LocalType
      BY <1>1, IdleType DEF Started, LocalType
    <2>. QED  BY <2>2, <2>3, <2>4, OneMoves
  <1>3. ASSUME NEW s \in Symbols, Take(t, s)
        PROVE  \/ Gone(t, s) /\ Becomes(t, Idle)
               \/ Quantity(t, s) = 0 /\ ~Gone(t, s) /\ Becomes(t, Dropping(l, s))
               \/ /\ Quantity(t, s) # 0 /\ ~Gone(t, s)
                  /\ Becomes(t, Moving(l, s, Quantity(t, s), holding[s]))
    <2>. PICK n, m : n = Quantity(t, s) /\ m = holding[s]
      OBVIOUS
    <2>1. n \in Int /\ m \in Int
      BY <1>1 DEF Quantity, PositionType
    <2>2. PICK k1, k2 :
            /\ k1 = [l EXCEPT !.todo = l.todo \ {s}, !.dels = l.dels \cup {s}]
            /\ k2 = [l EXCEPT !.pc = "transfer", !.todo = l.todo \ {s}, !.cur = s, !.quantity = n, !.old = m]
      OBVIOUS
    <2>3. settler' = [settler EXCEPT ![t] = IF Gone(t, s) THEN Idle ELSE IF n = 0 THEN k1 ELSE k2]
      BY <1>3, <2>2 DEF Take
    <2>4. l.pc = "take"
      BY <1>3 DEF Take
    <2>5. k1 = Dropping(l, s) /\ k2 = Moving(l, s, n, m)
      <3>1. k1 = Dropping(l, s)
        BY <1>0, <2>2, <2>4, DroppingUpdate
      <3>2. k2 = Moving(l, s, n, m)
        BY <1>0, <2>2, MovingUpdate
      <3>. QED  BY <3>1, <3>2
    <2>6. Dropping(l, s) \in LocalType /\ Moving(l, s, n, m) \in LocalType
      BY <1>1, <2>1 DEF Dropping, Moving, LocalType
    <2>7. CASE Gone(t, s)
      BY <2>3, <2>7, IdleType, OneMoves
    <2>8. CASE ~Gone(t, s) /\ n = 0
      BY <2>3, <2>5, <2>6, <2>8, OneMoves
    <2>9. CASE ~Gone(t, s) /\ n # 0
      BY <2>3, <2>5, <2>6, <2>9, OneMoves
    <2>. QED  BY <2>7, <2>8, <2>9
  <1>4. ASSUME Transfer(t) \/ TransferFails(t) PROVE Becomes(t, AfterTransfer(l))
    <2>1. PICK k : k = [l EXCEPT !.pc = "mark", !.held = {}, !.dels = {}]
      OBVIOUS
    <2>2. settler' = [settler EXCEPT ![t] = k]
      BY <1>4, <2>1 DEF Transfer, TransferFails, Expire
    <2>3. k = AfterTransfer(l)
      BY <1>0, <2>1, TransferUpdate
    <2>4. AfterTransfer(l) \in LocalType
      BY <1>1 DEF AfterTransfer, LocalType
    <2>. QED  BY <2>2, <2>3, <2>4, OneMoves
  <1>5. ASSUME Mark(t)
        PROVE  \/ Gone(t, l.cur) /\ Becomes(t, Idle)
               \/ ~Gone(t, l.cur) /\ Becomes(t, Marked(l))
    <2>1. PICK k : k = [l EXCEPT !.pc = "take", !.dels = l.dels \cup {l.cur}, !.cur = AnySymbol, !.quantity = 0, !.old = 0]
      OBVIOUS
    <2>2. settler' = [settler EXCEPT ![t] = IF Gone(t, l.cur) THEN Idle ELSE k]
      BY <1>5, <2>1 DEF Mark
    <2>3. k = Marked(l)
      BY <1>0, <2>1, MarkedUpdate
    <2>4. Marked(l) \in LocalType
      BY <1>1, IdleType DEF Marked, LocalType
    <2>5. CASE Gone(t, l.cur)
      BY <2>2, <2>5, IdleType, OneMoves
    <2>6. CASE ~Gone(t, l.cur)
      BY <2>2, <2>3, <2>4, <2>6, OneMoves
    <2>. QED  BY <2>5, <2>6
  <1>6. ASSUME Finish(t) PROVE Becomes(t, Idle)
    BY <1>6, IdleType, OneMoves DEF Finish
  <1>. QED  BY <1>2, <1>3, <1>4, <1>5, <1>6

\* All variables hold values of their kind.
LEMMA StepType == TypeOK /\ [Next]_vars => TypeOK'
  <1>. SUFFICES ASSUME TypeOK, [Next]_vars PROVE TypeOK'
    OBVIOUS
  <1>. USE DEF TypeOK
  <1>0. CASE UNCHANGED vars
    BY <1>0 DEF vars
  <1>1. ASSUME NEW s \in Symbols, NEW n \in {-1, 1}, Fill(s, n) PROVE TypeOK'
    <2>1. position[s] \in PositionType /\ fills + 1 \in 0 .. MaxFills
      BY <1>1 DEF Fill
    <2>2. position' \in [Symbols -> PositionType]
      <3>1. CASE position[s].id = 0
        <4>1. [id |-> fills + 1, quantity |-> n, old |-> FALSE] \in PositionType
          BY <2>1 DEF PositionType
        <4>. QED  BY <1>1, <3>1, <4>1 DEF Fill
      <3>2. CASE position[s].id # 0
        <4>1. [position[s] EXCEPT !.quantity = position[s].quantity + n] \in PositionType
          <5>1. position[s].quantity + n \in Int
            BY <2>1 DEF PositionType
          <5>. QED  BY <2>1, <5>1, RowUpdates
        <4>. QED  BY <1>1, <3>2, <4>1 DEF Fill
      <3>. QED  BY <3>1, <3>2
    <2>3. traded' \in [Symbols -> Int] /\ damage' \in Nat /\ fills' \in 0 .. MaxFills
      BY <1>1, <2>1 DEF Fill
    <2>. QED  BY <1>1, <2>2, <2>3 DEF Fill
  <1>2. CASE Midnight
    <2>1. ASSUME NEW s \in Symbols
          PROVE  [position[s] EXCEPT !.old = position[s].old \/ position[s].id # 0] \in PositionType
      BY RowUpdates DEF PositionType
    <2>2. position' \in [Symbols -> PositionType]
      BY <1>2, <2>1 DEF Midnight
    <2>. QED  BY <1>2, <2>2 DEF Midnight
  <1>3. CASE Crash
    <2>1. settler' \in [Settlers -> LocalType]
      BY <1>3, IdleType DEF Crash
    <2>. QED  BY <1>3, <2>1 DEF Crash, Fault, LocalType
  <1>4. ASSUME NEW t \in Settlers, Start(t) \/ Settling(t) PROVE TypeOK'
    <2>1. settler' \in [Settlers -> LocalType]
      BY <1>4, LocalSteps DEF Settling, Becomes
    <2>2. settler[t] \in LocalType /\ settler[t].cur \in Symbols
          /\ settler[t].quantity \in Int /\ settler[t].old \in Int
      BY LocalFields DEF LocalType
    <2>3. Deleted(t) \in [Symbols -> PositionType]
      BY IdleType DEF Deleted
    <2>4. Moved(t) \in Int
      BY <2>2 DEF Moved
    <2>5. position' \in [Symbols -> PositionType] /\ holding' \in [Symbols -> Int] /\ paid' \in [Symbols -> Int]
      <3>1. CASE Transfer(t)
        BY <2>2, <2>3, <2>4, <3>1 DEF Transfer
      <3>2. CASE Finish(t)
        BY <2>3, <3>2 DEF Finish
      <3>3. CASE UNCHANGED <<position, holding, paid>>
        BY <3>3
      <3>. QED  BY <1>4, <3>1, <3>2, <3>3 DEF Start, Settling, Take, TransferFails, Mark
    <2>6. faults' \in 0 .. MaxFaults /\ damage' \in Nat
      <3>1. CASE UNCHANGED <<faults, damage>>
        BY <3>1
      <3>2. CASE Fault(1) \/ Fault(2)
        BY <3>2 DEF Fault
      <3>. QED  BY <1>4, <3>1, <3>2 DEF Start, Settling, Take, Transfer, TransferFails, Mark, Finish
    <2>7. overlapped' \in BOOLEAN /\ UNCHANGED <<fills, traded>>
      BY <1>4 DEF Start, Settling, Take, Transfer, TransferFails, Mark, Finish
    <2>. QED  BY <2>1, <2>5, <2>6, <2>7 DEF LocalType
  <1>. QED  BY <1>0, <1>1, <1>2, <1>3, <1>4 DEF Next

-----------------------------------------------------------------------------
(* One settlement at a time.                                                *)

\* A symbol without a row has nothing to settle.
NoRows == \A s \in Symbols : position[s].id = 0 => position[s].quantity = 0 /\ ~position[s].old

\* A row that a settlement is going to read or to delete.
InWork(l, s) == s \in l.todo \cup l.dels \/ (s = l.cur /\ l.pc \in {"transfer", "mark"})

\* A settlement that nobody disturbs: its rows are there, and the holding it
\* has read is the holding.
Undisturbed(l) ==
    /\ l.pc = "idle" => l = Idle
    /\ l.pc = "transfer" => l.old = holding[l.cur]
    /\ l.todo \cap l.dels = {}
    /\ l.pc \in {"transfer", "mark"} => l.cur \notin l.todo \cup l.dels
    /\ l.pc = "mark" => l.dels = {}
    /\ \A s \in Symbols : InWork(l, s) => position[s].id = l.row[s].id /\ l.row[s].id # 0 /\ position[s].old

Orderly ==
    /\ \A t, u \in Active : t = u
    /\ \A t \in Settlers : Undisturbed(settler[t])
    /\ \A s \in Symbols : holding[s] <= paid[s]

\* Next to an active settlement the others rest.
LEMMA Alone ==
    ASSUME Orderly, NEW t \in Settlers, settler[t].pc # "idle"
    PROVE  \A u \in Settlers \ {t} : settler[u] = Idle
  BY DEF Orderly, Active, Undisturbed

\* A resting thread disturbs nothing.
LEMMA IdleIsUndisturbed == Undisturbed(Idle)
  BY DEF Undisturbed, Idle, InWork

\* A row is there or it is empty.
LEMMA StepNoRows == TypeOK /\ NoRows /\ [Next]_vars => NoRows'
  <1>. SUFFICES ASSUME TypeOK, NoRows, [Next]_vars PROVE NoRows'
    OBVIOUS
  <1>. USE DEF NoRows
  <1>0. position \in [Symbols -> PositionType] /\ fills \in Nat
    BY DEF TypeOK
  <1>1. ASSUME NEW s \in Symbols, NEW n \in {-1, 1}, Fill(s, n) PROVE NoRows'
    <2>1. \A r \in Symbols \ {s} : position'[r] = position[r]
      BY <1>0, <1>1 DEF Fill
    <2>2. position'[s].id # 0
      <3>1. CASE position[s].id = 0
        <4>1. position'[s] = [id |-> fills + 1, quantity |-> n, old |-> FALSE]
          BY <1>0, <1>1, <3>1 DEF Fill
        <4>. QED  BY <1>0, <4>1
      <3>2. CASE position[s].id # 0
        <4>1. position'[s] = [position[s] EXCEPT !.quantity = position[s].quantity + n]
          BY <1>0, <1>1, <3>2 DEF Fill
        <4>. QED  BY <1>0, <3>2, <4>1 DEF PositionType
      <3>. QED  BY <3>1, <3>2
    <2>. QED  BY <2>1, <2>2
  <1>2. CASE Midnight
    <2>1. ASSUME NEW s \in Symbols
          PROVE  /\ position'[s].id = position[s].id /\ position'[s].quantity = position[s].quantity
                 /\ position'[s].old = (position[s].old \/ position[s].id # 0)
      <3>1. position'[s] = [position[s] EXCEPT !.old = position[s].old \/ position[s].id # 0]
        BY <1>2 DEF Midnight
      <3>. QED  BY <1>0, <3>1 DEF PositionType
    <2>. QED  BY <2>1
  <1>3. ASSUME NEW t \in Settlers, position' = Deleted(t) PROVE NoRows'
    BY <1>3 DEF Deleted, NoPosition
  <1>4. CASE UNCHANGED position
    BY <1>4
  <1>. QED
    BY <1>1, <1>2, <1>3, <1>4
    DEF Next, vars, Crash, Start, Settling, Take, Transfer, TransferFails, Mark, Finish

\* What a fill does to the rows.
LEMMA FillRows ==
    ASSUME TypeOK, NoRows, NEW s \in Symbols, NEW n \in {-1, 1}, Fill(s, n)
    PROVE  /\ \A r \in Symbols \ {s} : position'[r] = position[r] /\ traded'[r] = traded[r]
           /\ position'[s].quantity = position[s].quantity + n /\ traded'[s] = traded[s] + n
           /\ position'[s].old = position[s].old
           /\ position[s].id # 0 => position'[s].id = position[s].id
  <1>0. position \in [Symbols -> PositionType] /\ traded \in [Symbols -> Int]
    BY DEF TypeOK
  <1>1. CASE position[s].id = 0
    <2>1. position'[s] = [id |-> fills + 1, quantity |-> n, old |-> FALSE]
          /\ position[s].quantity = 0
      BY <1>0, <1>1 DEF Fill, NoRows
    <2>2. position[s].old = FALSE
      BY <1>0, <1>1 DEF NoRows, PositionType
    <2>3. position'[s].old = FALSE
      BY <2>1
    <2>4. position'[s].old = position[s].old
      BY <2>2, <2>3
    <2>5. /\ \A r \in Symbols \ {s} : position'[r] = position[r] /\ traded'[r] = traded[r]
          /\ position'[s].quantity = position[s].quantity + n /\ traded'[s] = traded[s] + n
      BY <1>0, <1>1, <2>1 DEF Fill
    <2>. QED  BY <1>1, <2>4, <2>5
  <1>2. CASE position[s].id # 0
    <2>1. position'[s] = [position[s] EXCEPT !.quantity = position[s].quantity + n]
      BY <1>0, <1>2 DEF Fill
    <2>. QED  BY <1>0, <1>2, <2>1 DEF Fill, PositionType
  <1>. QED  BY <1>1, <1>2

\* What midnight does to the rows.
LEMMA MidnightRows ==
    ASSUME TypeOK, Midnight, NEW s \in Symbols
    PROVE  /\ position'[s].id = position[s].id /\ position'[s].quantity = position[s].quantity
           /\ position'[s].old = (position[s].old \/ position[s].id # 0)
  <1>1. position'[s] = [position[s] EXCEPT !.old = position[s].old \/ position[s].id # 0]
    BY DEF Midnight
  <1>. QED  BY <1>1 DEF PositionType, TypeOK

\* The new state of the thread that moved decides whether all is in order.
LEMMA OneDecides ==
    ASSUME NEW t \in Settlers, NEW l, Becomes(t, l), Undisturbed(l)',
           \A u \in Settlers \ {t} : settler[u] = Idle,
           \A s \in Symbols : holding'[s] <= paid'[s]
    PROVE  Orderly'
  <1>1. \A u \in Settlers \ {t} : settler'[u] = Idle
    BY DEF Becomes
  <1>2. Undisturbed(Idle)'
    BY DEF Undisturbed, Idle, InWork
  <1>3. settler'[t] = l /\ Idle.pc = "idle"
    BY DEF Becomes, Idle
  <1>4. ASSUME NEW u \in Settlers PROVE Undisturbed(settler[u])'
    <2>1. CASE u = t
      BY <1>3, <2>1 DEF Undisturbed, InWork
    <2>2. CASE u # t
      <3>1. settler'[u] = Idle
        BY <1>1, <2>2
      <3>. QED  BY <1>2, <3>1 DEF Undisturbed, InWork
    <2>. QED  BY <2>1, <2>2
  <1>5. \A u, v \in Active' : u = v
    BY <1>1, <1>3 DEF Active
  <1>. QED  BY <1>4, <1>5 DEF Orderly

\* A settlement that starts alone stays alone, and its rows stay where they are.
LEMMA StepOrderly ==
    ASSUME TypeOK, NoRows, Orderly, [Next]_vars, ~overlapped'
    PROVE  Orderly'
  <1>0. /\ settler \in [Settlers -> LocalType] /\ position \in [Symbols -> PositionType]
        /\ holding \in [Symbols -> Int] /\ paid \in [Symbols -> Int]
        /\ \A s \in Symbols : holding[s] <= paid[s]
    BY DEF TypeOK, LocalType, Orderly
  <1>1. CASE /\ UNCHANGED <<settler, holding, paid>>
             /\ \A s \in Symbols : position[s].id # 0 =>
                   position'[s].id = position[s].id /\ (position[s].old => position'[s].old)
    <2>1. ASSUME NEW u \in Settlers PROVE Undisturbed(settler[u])'
      <3>1. Undisturbed(settler[u])
        BY DEF Orderly
      <3>. QED  BY <1>1, <3>1 DEF Undisturbed, InWork
    <2>. QED  BY <1>1, <2>1 DEF Orderly, Active
  <1>2. ASSUME NEW s \in Symbols, NEW n \in {-1, 1}, Fill(s, n) PROVE Orderly'
    BY <1>1, <1>2, FillRows DEF Fill
  <1>3. CASE Midnight
    BY <1>1, <1>3, MidnightRows DEF Midnight
  <1>4. CASE Crash
    <2>1. UNCHANGED <<position, holding, paid>> /\ \A u \in Settlers : settler'[u] = Idle
      BY <1>4 DEF Crash
    <2>2. Undisturbed(Idle)'
      BY DEF Undisturbed, Idle, InWork
    <2>3. ASSUME NEW u \in Settlers PROVE Undisturbed(settler[u])'
      BY <2>1, <2>2 DEF Undisturbed, InWork
    <2>. QED  BY <1>0, <2>1, <2>3 DEF Orderly, Active, Idle
  <1>5. ASSUME NEW t \in Settlers, Start(t) PROVE Orderly'
    <2>1. Becomes(t, Started(t)) /\ UNCHANGED <<position, holding, paid>>
      BY <1>5, LocalSteps DEF Start
    <2>2. \A u \in Settlers \ {t} : settler[u] = Idle
      BY <1>5 DEF Start, Active, Orderly, Undisturbed
    <2>3. PICK l : l = Started(t)
      OBVIOUS
    <2>4. Undisturbed(l)'
      <3>1. /\ l.pc = "take" /\ l.dels = {}
            /\ \A s \in Symbols : s \in l.todo => l.row[s] = position[s] /\ position[s].id # 0 /\ position[s].old
        BY <2>3 DEF Started, NoRows
      <3>. QED  BY <2>1, <3>1 DEF Undisturbed, InWork
    <2>. QED  BY <1>0, <2>1, <2>2, <2>3, <2>4, OneDecides
  <1>6. ASSUME NEW t \in Settlers, Settling(t) PROVE Orderly'
    <2>. PICK l : l = settler[t]
      OBVIOUS
    <2>1. l \in LocalType /\ l.pc # "idle" /\ Undisturbed(l)
      <3>1. l.pc # "idle"
        BY <1>6 DEF Settling, Take, Transfer, TransferFails, Mark, Finish
      <3>2. Undisturbed(settler[t])
        BY DEF Orderly
      <3>. QED  BY <1>0, <3>1, <3>2
    <2>2. \A u \in Settlers \ {t} : settler[u] = Idle
      BY <2>1, Alone
    <2>3. l.todo \in SUBSET Symbols /\ l.dels \in SUBSET Symbols /\ l.cur \in Symbols
      BY <2>1, LocalFields
    <2>4. ASSUME NEW s \in Symbols, Take(t, s) PROVE Orderly'
      <3>0. UNCHANGED <<position, holding, paid>> /\ l.pc = "take" /\ s \in l.todo
        BY <2>4 DEF Take
      <3>1. CASE Becomes(t, Idle)
        <4>1. Undisturbed(Idle)'
          BY DEF Undisturbed, Idle, InWork
        <4>. QED  BY <1>0, <2>2, <3>0, <3>1, <4>1, OneDecides
      <3>2. CASE Becomes(t, Dropping(l, s))
        <4>1. PICK k : k = Dropping(l, s)
          OBVIOUS
        <4>2. Undisturbed(k)'
          BY <2>1, <3>0, <4>1 DEF Dropping, Undisturbed, InWork
        <4>. QED  BY <1>0, <2>2, <3>0, <3>2, <4>1, <4>2, OneDecides
      <3>3. CASE Becomes(t, Moving(l, s, Quantity(t, s), holding[s]))
        <4>1. PICK k, q : k = Moving(l, s, q, holding[s]) /\ q = Quantity(t, s)
          OBVIOUS
        <4>2. Undisturbed(k)'
          BY <2>1, <3>0, <4>1 DEF Moving, Undisturbed, InWork
        <4>. QED  BY <1>0, <2>2, <3>0, <3>3, <4>1, <4>2, OneDecides
      <3>. QED  BY <2>4, <3>1, <3>2, <3>3, LocalSteps
    <2>5. PICK k : k = AfterTransfer(l)
      OBVIOUS
    <2>6. /\ k.pc = "mark" /\ k.todo = l.todo /\ k.dels = {} /\ k.cur = l.cur /\ k.row = l.row
      BY <2>5 DEF AfterTransfer
    <2>7. CASE Transfer(t)
      <3>1. /\ Becomes(t, k) /\ l.pc = "transfer" /\ position' = Deleted(t)
            /\ holding' = [holding EXCEPT ![l.cur] = l.old + l.quantity]
            /\ paid' = [paid EXCEPT ![l.cur] = @ + Moved(t)]
        BY <2>5, <2>7, LocalSteps DEF Transfer
      <3>2. \A s \in l.todo \cup {l.cur} : position'[s] = position[s]
        BY <2>1, <2>3, <3>1 DEF Deleted, Undisturbed
      <3>3. Undisturbed(k)'
        BY <2>1, <2>3, <2>6, <3>1, <3>2 DEF Undisturbed, InWork
      <3>4. \A s \in Symbols : holding'[s] <= paid'[s]
        <4>1. l.old = holding[l.cur] /\ l.quantity \in Int /\ l.old \in Int
          BY <2>1, <3>1, LocalFields DEF Undisturbed
        <4>2. Moved(t) \in Int /\ Moved(t) >= l.quantity
          BY <4>1 DEF Moved
        <4>3. holding'[l.cur] <= paid'[l.cur]
          BY <1>0, <2>3, <3>1, <4>1, <4>2
        <4>. QED  BY <1>0, <3>1, <4>3
      <3>. QED  BY <2>2, <3>1, <3>3, <3>4, OneDecides
    <2>8. CASE TransferFails(t)
      <3>1. Becomes(t, k) /\ l.pc = "transfer" /\ UNCHANGED <<position, holding, paid>>
        BY <2>5, <2>8, LocalSteps DEF TransferFails
      <3>2. Undisturbed(k)'
        BY <2>1, <2>3, <2>6, <3>1 DEF Undisturbed, InWork
      <3>. QED  BY <1>0, <2>2, <3>1, <3>2, OneDecides
    <2>9. CASE Mark(t)
      <3>0. UNCHANGED <<position, holding, paid>> /\ l.pc = "mark"
        BY <2>9 DEF Mark
      <3>1. CASE Becomes(t, Idle)
        <4>1. Undisturbed(Idle)'
          BY DEF Undisturbed, Idle, InWork
        <4>. QED  BY <1>0, <2>2, <3>0, <3>1, <4>1, OneDecides
      <3>2. CASE Becomes(t, Marked(l))
        <4>1. PICK m : m = Marked(l)
          OBVIOUS
        <4>2. Undisturbed(m)'
          BY <2>1, <3>0, <4>1 DEF Marked, Undisturbed, InWork
        <4>. QED  BY <1>0, <2>2, <3>0, <3>2, <4>1, <4>2, OneDecides
      <3>. QED  BY <2>9, <3>1, <3>2, LocalSteps
    <2>10. CASE Finish(t)
      <3>1. Becomes(t, Idle) /\ UNCHANGED <<holding, paid>>
        BY <2>10, LocalSteps DEF Finish
      <3>2. Undisturbed(Idle)'
        BY DEF Undisturbed, Idle, InWork
      <3>. QED  BY <1>0, <2>2, <3>1, <3>2, OneDecides
    <2>. QED  BY <1>6, <2>4, <2>7, <2>8, <2>9, <2>10 DEF Settling
  <1>7. CASE UNCHANGED vars
    BY <1>1, <1>7 DEF vars
  <1>. QED  BY <1>2, <1>3, <1>4, <1>5, <1>6, <1>7 DEF Next

-----------------------------------------------------------------------------
(* What a fault costs.                                                      *)

Balanced(s) == position[s].quantity + holding[s] = traded[s]

\* What a settlement knows of a symbol whose books are in order: x is the one
\* row with a quantity among those to be deleted.
Correct(l, x, s) ==
    /\ Pending(l, s) => holding[s] = traded[s]
    /\ s \in l.dels /\ s # x => position[s].quantity = 0
    /\ s \in l.held => l.row[s].quantity = position[s].quantity
    /\ l.pc = "transfer" /\ s = l.cur => l.quantity = position[s].quantity

\* Outside a set of symbols that faults have damaged the books are in order.
BooksBut(bad, x) ==
    \A s \in Symbols \ bad :
        /\ \A t \in Settlers : Correct(settler[t], x, s)
        /\ (\A t \in Settlers : ~Pending(settler[t], s)) => Balanced(s)
Covers(bad) == bad \in SUBSET Symbols /\ IsFiniteSet(bad) /\ Cardinality(bad) <= damage
DamageIsBounded == \E bad, x : Covers(bad) /\ BooksBut(bad, x)

\* One damaged symbol more.
LEMMA OneMore ==
    ASSUME NEW bad, IsFiniteSet(bad), NEW s
    PROVE  IsFiniteSet(bad \cup {s}) /\ Cardinality(bad) \in Nat /\ Cardinality(bad \cup {s}) \in Nat
           /\ Cardinality(bad \cup {s}) <= Cardinality(bad) + 1
  <1>1. /\ IsFiniteSet(bad \cup {s}) /\ Cardinality(bad) \in Nat /\ Cardinality(bad \cup {s}) \in Nat
        /\ Cardinality(bad \cup {s}) = IF s \in bad THEN Cardinality(bad) ELSE Cardinality(bad) + 1
    BY FS_AddElement, FS_CardinalityType
  <1>2. Cardinality(bad \cup {s}) \in {Cardinality(bad), Cardinality(bad) + 1}
    BY <1>1
  <1>. QED  BY <1>1, <1>2

\* A resting thread knows nothing.
LEMMA IdleIsCorrect ==
    ASSUME NEW x, NEW s
    PROVE  Correct(Idle, x, s) /\ ~Pending(Idle, s)
  BY DEF Correct, Pending, Idle

\* The new state of the thread that moved decides whether the books are in order.
LEMMA OneAccounts ==
    ASSUME NEW t \in Settlers, NEW l, NEW x, NEW bad, Becomes(t, l),
           \A u \in Settlers \ {t} : settler[u] = Idle,
           \A s \in Symbols \ bad : Correct(l, x, s)' /\ (~Pending(l, s) => Balanced(s)')
    PROVE  BooksBut(bad, x)'
  <1>1. settler'[t] = l /\ \A u \in Settlers \ {t} : settler'[u] = Idle
    BY DEF Becomes
  <1>. SUFFICES ASSUME NEW s \in Symbols \ bad
                PROVE  /\ \A u \in Settlers : Correct(settler[u], x, s)'
                       /\ (\A u \in Settlers : ~Pending(settler[u], s)') => Balanced(s)'
    BY DEF BooksBut
  <1>2. ASSUME NEW u \in Settlers PROVE Correct(settler[u], x, s)'
    <2>1. CASE u = t
      BY <1>1, <2>1 DEF Correct, Pending
    <2>2. CASE u # t
      <3>1. settler'[u] = Idle
        BY <1>1, <2>2
      <3>. QED  BY <3>1 DEF Correct, Pending, Idle
    <2>. QED  BY <2>1, <2>2
  <1>3. ASSUME \A u \in Settlers : ~Pending(settler[u], s)' PROVE Balanced(s)'
    <2>1. ~Pending(l, s)
      BY <1>1, <1>3 DEF Pending
    <2>. QED  BY <2>1
  <1>. QED  BY <1>2, <1>3

\* Every step adds to the damage what it may cost.
LEMMA StepDamage ==
    ASSUME TypeOK, NoRows, Orderly, DamageIsBounded, [Next]_vars, ~overlapped'
    PROVE  DamageIsBounded'
  <1>0. /\ settler \in [Settlers -> LocalType] /\ position \in [Symbols -> PositionType]
        /\ holding \in [Symbols -> Int] /\ traded \in [Symbols -> Int] /\ damage \in Nat
        /\ \A s \in Symbols : position[s].quantity \in Int
    BY DEF TypeOK, LocalType, PositionType
  <1>. PICK bad, x : Covers(bad) /\ BooksBut(bad, x)
    BY DEF DamageIsBounded
  <1>. USE DEF Covers
  <1>a. Cardinality(bad) \in Nat
    BY FS_CardinalityType
  <1>1. ASSUME NEW s \in Symbols
        PROVE  /\ bad \cup {s} \in SUBSET Symbols /\ IsFiniteSet(bad \cup {s})
               /\ Cardinality(bad \cup {s}) <= damage + 1
    <2>1. /\ IsFiniteSet(bad \cup {s}) /\ Cardinality(bad \cup {s}) \in Nat
          /\ Cardinality(bad \cup {s}) <= Cardinality(bad) + 1
      BY OneMore
    <2>. QED  BY <1>0, <1>a, <2>1
  <1>2. CASE UNCHANGED <<settler, holding, traded, damage>>
             /\ \A s \in Symbols : position'[s].quantity = position[s].quantity
    <2>1. BooksBut(bad, x)'
      BY <1>2 DEF BooksBut, Correct, Pending, Balanced
    <2>. QED  BY <1>2, <2>1 DEF DamageIsBounded
  <1>3. CASE Midnight
    BY <1>2, <1>3, MidnightRows DEF Midnight
  <1>4. ASSUME NEW s \in Symbols, NEW n \in {-1, 1}, Fill(s, n) PROVE DamageIsBounded'
    <2>1. /\ \A r \in Symbols \ {s} : position'[r] = position[r] /\ traded'[r] = traded[r]
          /\ position'[s].quantity = position[s].quantity + n /\ traded'[s] = traded[s] + n
          /\ UNCHANGED <<settler, holding>>
      BY <1>4, FillRows DEF Fill
    <2>2. CASE InHand(s)
      <3>1. damage' = damage + 1
        BY <1>4, <2>2 DEF Fill
      <3>2. BooksBut(bad \cup {s}, x)'
        BY <2>1 DEF BooksBut, Correct, Pending, Balanced
      <3>3. Covers(bad \cup {s})'
        BY <1>1, <3>1
      <3>. QED  BY <3>2, <3>3 DEF DamageIsBounded
    <2>3. CASE ~InHand(s)
      <3>1. damage' = damage
        BY <1>4, <2>3 DEF Fill
      <3>2. \A t \in Settlers : /\ s \notin settler[t].held /\ s \notin settler[t].dels
                                /\ ~(s = settler[t].cur /\ settler[t].pc \in {"transfer", "mark"})
        <4>1. \A t \in Settlers \ Active : settler[t] = Idle
          BY DEF Orderly, Undisturbed, Active
        <4>. QED  BY <2>3, <4>1 DEF InHand, Idle
      <3>3. BooksBut(bad, x)'
        <4>. SUFFICES ASSUME NEW r \in Symbols \ bad
                      PROVE  /\ \A t \in Settlers : Correct(settler[t], x, r)'
                             /\ (\A t \in Settlers : ~Pending(settler[t], r)') => Balanced(r)'
          BY DEF BooksBut
        <4>1. CASE r = s
          <5>1. \A t \in Settlers : Correct(settler[t], x, r)' /\ ~Pending(settler[t], r)
            BY <2>1, <3>2, <4>1 DEF Correct, Pending
          <5>2. Balanced(r)
            BY <5>1 DEF BooksBut
          <5>3. Balanced(r)'
            BY <1>0, <2>1, <4>1, <5>2 DEF Balanced
          <5>. QED  BY <5>1, <5>3
        <4>2. CASE r # s
          BY <2>1, <4>2 DEF BooksBut, Correct, Pending, Balanced
        <4>. QED  BY <4>1, <4>2
      <3>. QED  BY <3>1, <3>3 DEF DamageIsBounded
    <2>. QED  BY <2>2, <2>3
  <1>5. CASE Crash
    <2>1. /\ UNCHANGED <<position, holding, traded>> /\ damage' = damage + 1
          /\ \A u \in Settlers : settler'[u] = Idle
      BY <1>5 DEF Crash, Fault
    <2>2. PICK t \in Settlers : settler[t].pc # "idle"
      BY <1>5 DEF Crash, Active
    <2>. PICK l, c : l = settler[t] /\ c = IF l.pc = "mark" THEN l.cur ELSE x
      OBVIOUS
    <2>3. l \in LocalType /\ l.cur \in Symbols /\ Undisturbed(l) /\ \A u \in Settlers \ {t} : settler[u] = Idle
      BY <1>0, <2>2, LocalFields, Alone DEF Orderly
    <2>4. \A s \in Symbols \ (bad \cup {c}) : Balanced(s)
      <3>. SUFFICES ASSUME NEW s \in Symbols \ (bad \cup {c}) PROVE Balanced(s)
        OBVIOUS
      <3>1. Correct(l, x, s) /\ (~Pending(l, s) => Balanced(s))
        BY <2>3, IdleIsCorrect DEF BooksBut
      <3>2. CASE Pending(l, s)
        <4>1. s \in l.dels /\ s # x
          BY <2>3, <3>2 DEF Pending, Undisturbed
        <4>. QED  BY <1>0, <3>1, <3>2, <4>1 DEF Correct, Balanced
      <3>. QED  BY <3>1, <3>2
    <2>5. BooksBut(bad \cup {c}, x)'
      BY <2>1, <2>4, IdleIsCorrect DEF BooksBut, Correct, Pending, Idle, Balanced
    <2>6. CASE c \in Symbols
      <3>1. Covers(bad \cup {c})'
        BY <1>1, <2>1, <2>6
      <3>. QED  BY <2>5, <3>1 DEF DamageIsBounded
    <2>7. CASE c \notin Symbols
      <3>1. BooksBut(bad, x)'
        <4>1. Symbols \ (bad \cup {c}) = Symbols \ bad
          BY <2>7
        <4>. QED  BY <2>5, <4>1 DEF BooksBut
      <3>2. Covers(bad)'
        BY <1>0, <1>a, <2>1
      <3>. QED  BY <3>1, <3>2 DEF DamageIsBounded
    <2>. QED  BY <2>6, <2>7
  <1>6. ASSUME NEW t \in Settlers, Start(t) PROVE DamageIsBounded'
    <2>1. Becomes(t, Started(t)) /\ UNCHANGED <<position, holding, traded, damage>>
      BY <1>6, LocalSteps DEF Start
    <2>2. \A u \in Settlers : settler[u] = Idle
      BY <1>6 DEF Start, Active, Orderly, Undisturbed
    <2>3. PICK l : l = Started(t)
      OBVIOUS
    <2>4. BooksBut(bad, x)'
      <3>1. /\ l.pc = "take" /\ l.dels = {} /\ \A s \in Symbols : s \in l.held => l.row[s] = position[s]
        BY <2>3 DEF Started
      <3>2. \A s \in Symbols \ bad : Correct(l, x, s)' /\ (~Pending(l, s) => Balanced(s)')
        BY <2>1, <2>2, <3>1 DEF BooksBut, Correct, Pending, Balanced, Idle
      <3>. QED  BY <2>1, <2>2, <2>3, <3>2, OneAccounts
    <2>. QED  BY <2>1, <2>4 DEF DamageIsBounded
  <1>7. ASSUME NEW t \in Settlers, Settling(t) PROVE DamageIsBounded'
    <2>. PICK l : l = settler[t]
      OBVIOUS
    <2>1. l \in LocalType /\ l.pc # "idle" /\ Undisturbed(l) /\ \A u \in Settlers \ {t} : settler[u] = Idle
      <3>1. l.pc # "idle"
        BY <1>7 DEF Settling, Take, Transfer, TransferFails, Mark, Finish
      <3>2. Undisturbed(settler[t])
        BY DEF Orderly
      <3>. QED  BY <1>0, <3>1, <3>2, Alone
    <2>2. l.todo \in SUBSET Symbols /\ l.dels \in SUBSET Symbols /\ l.cur \in Symbols
      BY <2>1, LocalFields
    <2>3. \A s \in Symbols \ bad : Correct(l, x, s) /\ (~Pending(l, s) => Balanced(s))
      BY <2>1, IdleIsCorrect DEF BooksBut
    <2>4. UNCHANGED traded
      BY <1>7 DEF Settling, Take, Transfer, TransferFails, Mark, Finish
    <2>5. ASSUME NEW s \in Symbols, Take(t, s) PROVE DamageIsBounded'
      <3>0. UNCHANGED <<position, holding, damage>> /\ l.pc = "take" /\ s \in l.todo
        BY <2>5 DEF Take
      <3>1. ~Gone(t, s)
        BY <2>1, <3>0 DEF Gone, Undisturbed, InWork
      <3>2. s \notin bad => Quantity(t, s) = position[s].quantity
        BY <2>3 DEF Quantity, Correct
      <3>3. ~Pending(l, s)
        BY <2>1, <3>0 DEF Undisturbed, Pending
      <3>4. CASE Becomes(t, Dropping(l, s)) /\ Quantity(t, s) = 0
        <4>1. PICK k : k = Dropping(l, s)
          OBVIOUS
        <4>2. \A r \in Symbols \ bad : Correct(k, x, r)' /\ (~Pending(k, r) => Balanced(r)')
          <5>. SUFFICES ASSUME NEW r \in Symbols \ bad
                        PROVE  Correct(k, x, r)' /\ (~Pending(k, r) => Balanced(r)')
            OBVIOUS
          <5>1. CASE r = s
            <6>1. position[s].quantity = 0 /\ holding[s] = traded[s]
              BY <1>0, <2>3, <3>2, <3>3, <3>4, <5>1 DEF Balanced
            <6>. QED  BY <2>3, <2>4, <3>0, <4>1, <5>1, <6>1 DEF Dropping, Correct, Pending
          <5>2. CASE r # s
            BY <2>3, <2>4, <3>0, <4>1, <5>2 DEF Dropping, Correct, Pending, Balanced
          <5>. QED  BY <5>1, <5>2
        <4>3. BooksBut(bad, x)'
          BY <2>1, <3>4, <4>1, <4>2, OneAccounts
        <4>. QED  BY <3>0, <4>3 DEF DamageIsBounded
      <3>5. CASE Becomes(t, Moving(l, s, Quantity(t, s), holding[s]))
        <4>1. PICK k, q : k = Moving(l, s, q, holding[s]) /\ q = Quantity(t, s)
          OBVIOUS
        <4>2. \A r \in Symbols \ bad : Correct(k, x, r)' /\ (~Pending(k, r) => Balanced(r)')
          BY <2>3, <2>4, <3>0, <3>2, <4>1 DEF Moving, Correct, Pending, Balanced
        <4>3. BooksBut(bad, x)'
          BY <2>1, <3>5, <4>1, <4>2, OneAccounts
        <4>. QED  BY <3>0, <4>3 DEF DamageIsBounded
      <3>. QED  BY <2>5, <3>1, <3>4, <3>5, LocalSteps
    <2>6. PICK k : k = AfterTransfer(l)
      OBVIOUS
    <2>7. /\ k.pc = "mark" /\ k.todo = l.todo /\ k.dels = {} /\ k.held = {} /\ k.cur = l.cur
      BY <2>6 DEF AfterTransfer
    <2>8. CASE Transfer(t)
      <3>1. /\ Becomes(t, k) /\ l.pc = "transfer" /\ position' = Deleted(t) /\ UNCHANGED damage
            /\ holding' = [holding EXCEPT ![l.cur] = l.old + l.quantity]
        BY <2>6, <2>8, LocalSteps DEF Transfer
      <3>2. \A s \in Symbols \ bad : Correct(k, x, s)' /\ (~Pending(k, s) => Balanced(s)')
        <4>. SUFFICES ASSUME NEW s \in Symbols \ bad PROVE Correct(k, x, s)' /\ (~Pending(k, s) => Balanced(s)')
          OBVIOUS
        <4>1. CASE s = l.cur
          <5>1. l.old = holding[s] /\ l.quantity = position[s].quantity /\ Balanced(s)
            BY <2>1, <2>3, <3>1, <4>1 DEF Undisturbed, Correct, Pending
          <5>2. holding'[s] = traded[s]
            BY <1>0, <3>1, <4>1, <5>1 DEF Balanced
          <5>. QED  BY <2>4, <2>7, <4>1, <5>2 DEF Correct, Pending
        <4>2. CASE s # l.cur
          <5>1. holding'[s] = holding[s] /\ ~Pending(k, s)
            BY <1>0, <2>7, <3>1, <4>2 DEF Pending
          <5>2. CASE s \in l.dels
            <6>1. position'[s] = NoPosition /\ holding[s] = traded[s]
              BY <2>1, <2>3, <3>1, <5>2 DEF Deleted, Undisturbed, InWork, Correct, Pending
            <6>2. position'[s].quantity = 0
              BY <6>1 DEF NoPosition
            <6>. QED  BY <1>0, <2>4, <2>7, <4>2, <5>1, <6>1, <6>2 DEF Correct, Pending, Balanced
          <5>3. CASE s \notin l.dels
            <6>1. position'[s] = position[s] /\ Balanced(s)
              BY <2>3, <3>1, <5>3 DEF Deleted, Pending
            <6>. QED  BY <2>4, <2>7, <4>2, <5>1, <6>1 DEF Correct, Pending, Balanced
          <5>. QED  BY <5>2, <5>3
        <4>. QED  BY <4>1, <4>2
      <3>3. BooksBut(bad, x)'
        BY <2>1, <3>1, <3>2, OneAccounts
      <3>. QED  BY <3>1, <3>3 DEF DamageIsBounded
    <2>9. CASE TransferFails(t)
      <3>1. Becomes(t, k) /\ l.pc = "transfer" /\ UNCHANGED <<position, holding>>
        BY <2>6, <2>9, LocalSteps DEF TransferFails
      <3>2. l.old = holding[l.cur] /\ ~Conflict(t)
        BY <2>1, <3>1 DEF Undisturbed, Conflict
      <3>3. damage' = damage + 2
        BY <2>9, <3>2 DEF TransferFails, Fault
      <3>4. PICK c, z : c = l.cur /\ z = IF x \in Symbols THEN x ELSE l.cur
        OBVIOUS
      <3>5. Covers((bad \cup {c}) \cup {z})'
        <4>1. /\ bad \cup {c} \in SUBSET Symbols /\ IsFiniteSet(bad \cup {c}) /\ Cardinality(bad \cup {c}) <= damage + 1
          BY <1>1, <2>2, <3>4
        <4>2. /\ Cardinality(bad \cup {c}) \in Nat /\ Cardinality((bad \cup {c}) \cup {z}) \in Nat
              /\ Cardinality((bad \cup {c}) \cup {z}) <= Cardinality(bad \cup {c}) + 1
              /\ IsFiniteSet((bad \cup {c}) \cup {z})
          BY <4>1, OneMore
        <4>. QED  BY <1>0, <2>2, <3>3, <3>4, <4>1, <4>2
      <3>6. \A s \in Symbols \ ((bad \cup {c}) \cup {z}) : Correct(k, x, s)' /\ (~Pending(k, s) => Balanced(s)')
        <4>. SUFFICES ASSUME NEW s \in Symbols \ ((bad \cup {c}) \cup {z})
                      PROVE  Correct(k, x, s)' /\ (~Pending(k, s) => Balanced(s)')
          OBVIOUS
        <4>1. s \in Symbols \ bad /\ s # l.cur /\ s # x
          BY <3>4
        <4>2. Balanced(s)
          BY <1>0, <2>1, <2>3, <3>1, <4>1 DEF Correct, Pending, Balanced
        <4>. QED  BY <2>4, <2>7, <3>1, <4>1, <4>2 DEF Correct, Pending, Balanced
      <3>7. BooksBut((bad \cup {c}) \cup {z}, x)'
        BY <2>1, <3>1, <3>6, OneAccounts
      <3>. QED  BY <3>5, <3>7 DEF DamageIsBounded
    <2>10. CASE Mark(t)
      <3>0. UNCHANGED <<position, holding, damage>> /\ l.pc = "mark"
        BY <2>10 DEF Mark
      <3>1. ~Gone(t, l.cur)
        BY <2>1, <2>2, <3>0 DEF Gone, Undisturbed, InWork
      <3>2. PICK m, c : m = Marked(l) /\ c = l.cur
        OBVIOUS
      <3>3. Becomes(t, m)
        BY <2>10, <3>1, <3>2, LocalSteps
      <3>4. m.pc = "take" /\ m.held = l.held /\ m.row = l.row /\ m.dels = {c} /\ l.dels = {}
        BY <2>1, <3>0, <3>2 DEF Marked, Undisturbed
      <3>5. \A s \in Symbols \ bad : Correct(m, c, s)' /\ (~Pending(m, s) => Balanced(s)')
        BY <2>3, <2>4, <3>0, <3>2, <3>4 DEF Correct, Pending, Balanced
      <3>6. BooksBut(bad, c)'
        BY <2>1, <3>3, <3>5, OneAccounts
      <3>. QED  BY <3>0, <3>6 DEF DamageIsBounded
    <2>11. CASE Finish(t)
      <3>1. Becomes(t, Idle) /\ UNCHANGED holding /\ l.pc = "take"
        BY <2>11, LocalSteps DEF Finish
      <3>2. CASE position' = Deleted(t) /\ UNCHANGED damage
        <4>1. \A s \in Symbols \ bad : Balanced(s)'
          <5>. SUFFICES ASSUME NEW s \in Symbols \ bad PROVE Balanced(s)'
            OBVIOUS
          <5>1. CASE s \in l.dels
            <6>1. position'[s] = NoPosition /\ holding[s] = traded[s]
              BY <2>1, <2>3, <3>2, <5>1 DEF Deleted, Undisturbed, InWork, Correct, Pending
            <6>. QED  BY <1>0, <2>4, <3>1, <6>1 DEF Balanced, NoPosition
          <5>2. CASE s \notin l.dels
            <6>1. position'[s] = position[s] /\ Balanced(s)
              BY <2>3, <3>1, <3>2, <5>2 DEF Deleted, Pending
            <6>. QED  BY <2>4, <3>1, <6>1 DEF Balanced
          <5>. QED  BY <5>1, <5>2
        <4>2. BooksBut(bad, x)'
          <5>1. \A s \in Symbols \ bad : Correct(Idle, x, s)'
            BY DEF Correct, Pending, Idle
          <5>. QED  BY <2>1, <3>1, <4>1, <5>1, OneAccounts
        <4>. QED  BY <3>2, <4>2 DEF DamageIsBounded
      <3>3. CASE Fault(1) /\ UNCHANGED position
        <4>. PICK z : z = IF x \in Symbols THEN x ELSE l.cur
          OBVIOUS
        <4>1. Covers(bad \cup {z})'
          BY <1>1, <2>2, <3>3 DEF Fault
        <4>2. \A s \in Symbols \ (bad \cup {z}) : Balanced(s)'
          <5>. SUFFICES ASSUME NEW s \in Symbols \ (bad \cup {z}) PROVE Balanced(s)'
            OBVIOUS
          <5>1. s \in Symbols \ bad /\ s # x
            OBVIOUS
          <5>2. Balanced(s)
            BY <1>0, <2>3, <3>1, <5>1 DEF Correct, Pending, Balanced
          <5>. QED  BY <2>4, <3>1, <3>3, <5>2 DEF Balanced
        <4>3. BooksBut(bad \cup {z}, x)'
          <5>1. \A s \in Symbols \ (bad \cup {z}) : Correct(Idle, x, s)'
            BY DEF Correct, Pending, Idle
          <5>. QED  BY <2>1, <3>1, <4>2, <5>1, OneAccounts
        <4>. QED  BY <4>1, <4>3 DEF DamageIsBounded
      <3>. QED  BY <2>11, <3>2, <3>3 DEF Finish
    <2>. QED  BY <1>7, <2>5, <2>8, <2>9, <2>10, <2>11 DEF Settling
  <1>8. CASE UNCHANGED vars
    BY <1>2, <1>8 DEF vars
  <1>. QED  BY <1>3, <1>4, <1>5, <1>6, <1>7, <1>8 DEF Next

-----------------------------------------------------------------------------
(* The settlement of a position as one step.                                *)

\* What the others see of the rows decides the abstract state.
LEMMA SameView ==
    ASSUME \A s \in Symbols :
               /\ (IF Settled(s)' THEN 0 ELSE position'[s].quantity) = IF Settled(s) THEN 0 ELSE position[s].quantity
               /\ (position'[s].old /\ ~Settled(s)') <=> (position[s].old /\ ~Settled(s))
    PROVE  Shares' = Shares /\ Due' = Due
  BY DEF Shares, Due

\* With one thread at work its rows are the settled ones.
LEMMA SettledByOne ==
    ASSUME NEW t \in Settlers, \A u \in Settlers \ {t} : settler[u] = Idle, NEW s
    PROVE  Settled(s) <=> Pending(settler[t], s)
  <1>1. ~Pending(Idle, s)
    BY IdleIsCorrect
  <1>. QED  BY <1>1 DEF Settled

\* So they are after its step.
LEMMA SettledAfter ==
    ASSUME NEW t \in Settlers, \A u \in Settlers \ {t} : settler[u] = Idle, NEW l, Becomes(t, l), NEW s
    PROVE  Settled(s)' <=> Pending(l, s)
  <1>1. settler'[t] = l /\ \A u \in Settlers \ {t} : settler'[u] = Idle
    BY DEF Becomes
  <1>2. ~Pending(Idle, s)
    BY IdleIsCorrect
  <1>3. Settled(s)' <=> \E u \in Settlers : Pending(settler'[u], s)
    BY DEF Settled, Pending
  <1>. QED  BY <1>1, <1>2, <1>3

\* As long as nothing is damaged a settlement knows what its rows hold.
LEMMA Undamaged ==
    ASSUME TypeOK, DamageIsBounded, damage = 0, NEW t \in Settlers, NEW s \in Symbols
    PROVE  /\ s \in settler[t].held => settler[t].row[s].quantity = position[s].quantity
           /\ settler[t].pc = "transfer" /\ s = settler[t].cur => settler[t].quantity = position[s].quantity
  <1>. PICK bad, x : Covers(bad) /\ BooksBut(bad, x)
    BY DEF DamageIsBounded
  <1>1. bad = {}
    <2>1. IsFiniteSet(bad) /\ Cardinality(bad) <= 0 /\ Cardinality(bad) \in Nat
      BY FS_CardinalityType DEF Covers
    <2>2. Cardinality(bad) = 0
      BY <2>1
    <2>. QED  BY <2>1, <2>2, FS_EmptySet
  <1>. QED  BY <1>1 DEF BooksBut, Correct

Seen == <<Shares, Due, holding, paid>>
WholeStep == [Whole!Next]_Seen \/ (damage' > 0 /\ Whole!Damaged)

\* A step that leaves holdings and money, and either the view or some damage.
LEMMA QuietStep ==
    ASSUME UNCHANGED <<holding, paid>>, damage' > 0 \/ (Shares' = Shares /\ Due' = Due)
    PROVE  WholeStep
  BY DEF WholeStep, Seen, Whole!Damaged

\* The commit of a holding settles its position, or what is left of it.
LEMMA TransferSettles ==
    ASSUME TypeOK, Orderly, DamageIsBounded, NEW t \in Settlers, Transfer(t)
    PROVE  WholeStep
  <1>0. /\ settler \in [Settlers -> LocalType] /\ position \in [Symbols -> PositionType]
        /\ holding \in [Symbols -> Int] /\ paid \in [Symbols -> Int] /\ damage \in Nat
    BY DEF TypeOK, LocalType
  <1>. PICK l, k, c, q : l = settler[t] /\ k = AfterTransfer(l) /\ c = l.cur /\ q = l.quantity
    OBVIOUS
  <1>1. /\ l.pc = "transfer" /\ Becomes(t, k) /\ position' = Deleted(t) /\ damage' = damage
        /\ holding' = [holding EXCEPT ![c] = l.old + q] /\ paid' = [paid EXCEPT ![c] = @ + Moved(t)]
    BY LocalSteps DEF Transfer
  <1>2. l \in LocalType /\ Undisturbed(l) /\ \A u \in Settlers \ {t} : settler[u] = Idle
    <2>1. Undisturbed(settler[t])
      BY DEF Orderly
    <2>. QED  BY <1>0, <1>1, <2>1, Alone
  <1>3. l.dels \in SUBSET Symbols /\ c \in Symbols /\ q \in Int /\ l.old = holding[c] /\ c \notin l.dels
    BY <1>1, <1>2, LocalFields DEF Undisturbed
  <1>4. \A s : (Settled(s) <=> s \in l.dels) /\ (Settled(s)' <=> s = c)
    <2>1. \A s : Pending(k, s) <=> s = c
      BY DEF AfterTransfer, Pending
    <2>2. \A s : Pending(l, s) <=> s \in l.dels
      BY <1>1 DEF Pending
    <2>. QED  BY <1>1, <1>2, <2>1, <2>2, SettledByOne, SettledAfter
  <1>5. Whole!Move(c, q)
    <2>1. Moved(t) = Whole!Price(c, q)
      BY <1>3 DEF Moved, Whole!Price
    <2>2. holding' = [holding EXCEPT ![c] = @ + q]
      BY <1>0, <1>1, <1>3
    <2>. QED  BY <1>1, <2>1, <2>2 DEF Whole!Move
  <1>6. CASE damage = 0
    <2>1. Shares[c] = q /\ c \in Due
      <3>1. q = position[c].quantity
        BY <1>1, <1>3, <1>6, Undamaged
      <3>2. position[c].old
        BY <1>1, <1>2, <1>3 DEF Undisturbed, InWork
      <3>. QED  BY <1>3, <1>4, <3>1, <3>2 DEF Shares, Due
    <2>2. \A s \in Symbols \ {c} :
              /\ (IF Settled(s)' THEN 0 ELSE position'[s].quantity) = IF Settled(s) THEN 0 ELSE position[s].quantity
              /\ (position'[s].old /\ ~Settled(s)') <=> (position[s].old /\ ~Settled(s))
      <3>. SUFFICES ASSUME NEW s \in Symbols \ {c}
                    PROVE  /\ position'[s].quantity = IF s \in l.dels THEN 0 ELSE position[s].quantity
                           /\ position'[s].old <=> (position[s].old /\ s \notin l.dels)
        BY <1>4
      <3>1. CASE s \in l.dels
        <4>1. position'[s] = NoPosition
          BY <1>1, <1>2, <3>1 DEF Deleted, Undisturbed, InWork
        <4>. QED  BY <3>1, <4>1 DEF NoPosition
      <3>2. CASE s \notin l.dels
        BY <1>1, <3>2 DEF Deleted
      <3>. QED  BY <3>1, <3>2
    <2>3. Shares' = [Shares EXCEPT ![c] = 0]
      BY <1>4, <2>2 DEF Shares
    <2>4. Due' = Due \ {c}
      BY <1>4, <2>2 DEF Due
    <2>5. Whole!Settle(c)
      BY <1>5, <2>1, <2>3, <2>4 DEF Whole!Settle
    <2>. QED  BY <1>3, <2>5 DEF WholeStep, Whole!Next
  <1>7. CASE damage # 0
    <2>1. damage' > 0
      BY <1>0, <1>1, <1>7
    <2>2. holding'[c] - holding[c] = q
      BY <1>0, <1>1, <1>3
    <2>. QED  BY <1>3, <1>5, <2>1, <2>2 DEF WholeStep, Whole!Damaged
  <1>. QED  BY <1>6, <1>7

\* Taking a row of quantity zero settles it; taking another shows nothing yet.
LEMMA TakeSettles ==
    ASSUME TypeOK, Orderly, DamageIsBounded, NEW t \in Settlers, NEW s \in Symbols, Take(t, s)
    PROVE  WholeStep
  <1>0. /\ settler \in [Settlers -> LocalType] /\ damage \in Nat
        /\ holding \in [Symbols -> Int] /\ paid \in [Symbols -> Int]
    BY DEF TypeOK, LocalType
  <1>. PICK l : l = settler[t]
    OBVIOUS
  <1>1. UNCHANGED <<position, holding, paid, damage>> /\ l.pc = "take" /\ s \in l.todo
    BY DEF Take
  <1>2. l \in LocalType /\ Undisturbed(l) /\ \A u \in Settlers \ {t} : settler[u] = Idle
    <2>1. Undisturbed(settler[t])
      BY DEF Orderly
    <2>. QED  BY <1>0, <1>1, <2>1, Alone
  <1>3. ~Gone(t, s) /\ s \notin l.dels /\ position[s].old
    BY <1>1, <1>2 DEF Gone, Undisturbed, InWork
  <1>4. \A r : Settled(r) <=> r \in l.dels
    <2>1. \A r : Pending(l, r) <=> r \in l.dels
      BY <1>1 DEF Pending
    <2>. QED  BY <1>2, <2>1, SettledByOne
  <1>5. CASE Becomes(t, Dropping(l, s)) /\ Quantity(t, s) = 0
    <2>1. \A r : Settled(r)' <=> r \in l.dels \cup {s}
      <3>1. \A r : Pending(Dropping(l, s), r) <=> r \in l.dels \cup {s}
        BY DEF Dropping, Pending
      <3>. QED  BY <1>2, <1>5, <3>1, SettledAfter
    <2>2. CASE damage = 0
      <3>1. position[s].quantity = 0
        BY <1>5, <2>2, Undamaged DEF Quantity
      <3>2. Shares[s] = 0 /\ Shares' = [Shares EXCEPT ![s] = 0] /\ s \in Due /\ Due' = Due \ {s}
        <4>1. Shares[s] = 0 /\ s \in Due
          BY <1>3, <1>4, <3>1 DEF Shares, Due
        <4>2. \A r \in Symbols \ {s} : Settled(r)' <=> Settled(r)
          BY <1>4, <2>1
        <4>3. Settled(s)' /\ position' = position
          BY <1>1, <2>1
        <4>4. Shares' = [Shares EXCEPT ![s] = 0]
          BY <4>2, <4>3 DEF Shares
        <4>5. Due' = Due \ {s}
          BY <4>2, <4>3 DEF Due
        <4>. QED  BY <4>1, <4>4, <4>5
      <3>3. Whole!Move(s, 0)
        BY <1>0, <1>1 DEF Whole!Move, Whole!Price
      <3>. QED  BY <3>2, <3>3 DEF WholeStep, Whole!Next, Whole!Settle
    <2>3. CASE damage # 0
      BY <1>0, <1>1, <2>3, QuietStep
    <2>. QED  BY <2>2, <2>3
  <1>6. CASE Becomes(t, Moving(l, s, Quantity(t, s), holding[s]))
    <2>1. \A r : Pending(Moving(l, s, Quantity(t, s), holding[s]), r) <=> r \in l.dels
      BY DEF Moving, Pending
    <2>2. \A r : Settled(r)' <=> Settled(r)
      BY <1>2, <1>4, <1>6, <2>1, SettledAfter
    <2>3. Shares' = Shares /\ Due' = Due
      BY <1>1, <2>2, SameView
    <2>. QED  BY <1>1, <2>3, QuietStep
  <1>. QED  BY <1>3, <1>5, <1>6, LocalSteps

\* The marking of a row and the end of a settlement show nothing, failures
\* are faults.
LEMMA OthersSettleNothing ==
    ASSUME TypeOK, Orderly, NEW t \in Settlers, Start(t) \/ TransferFails(t) \/ Mark(t) \/ Finish(t), ~overlapped'
    PROVE  WholeStep
  <1>0. /\ settler \in [Settlers -> LocalType] /\ position \in [Symbols -> PositionType] /\ damage \in Nat
        /\ holding \in [Symbols -> Int]
    BY DEF TypeOK, LocalType
  <1>. PICK l : l = settler[t]
    OBVIOUS
  <1>1. ASSUME l.pc # "idle"
        PROVE  l \in LocalType /\ Undisturbed(l) /\ \A u \in Settlers \ {t} : settler[u] = Idle
    <2>1. Undisturbed(settler[t])
      BY DEF Orderly
    <2>. QED  BY <1>0, <1>1, <2>1, Alone
  <1>2. CASE Start(t)
    <2>1. Becomes(t, Started(t)) /\ UNCHANGED <<position, holding, paid>>
      BY <1>2, LocalSteps DEF Start
    <2>2. \A u \in Settlers : settler[u] = Idle
      BY <1>2 DEF Start, Active, Orderly, Undisturbed
    <2>3. \A s : ~Settled(s)
      BY <2>2, IdleIsCorrect DEF Settled
    <2>4. \A s : ~Settled(s)'
      <3>1. \A s : ~Pending(Started(t), s)
        BY DEF Started, Pending
      <3>. QED  BY <2>1, <2>2, <3>1, SettledAfter
    <2>5. Shares' = Shares /\ Due' = Due
      BY <2>1, <2>3, <2>4, SameView
    <2>. QED  BY <2>1, <2>5, QuietStep
  <1>3. CASE TransferFails(t)
    <2>1. UNCHANGED <<holding, paid>> /\ l.pc = "transfer"
      BY <1>3 DEF TransferFails
    <2>2. ~Conflict(t)
      BY <1>1, <2>1 DEF Undisturbed, Conflict
    <2>3. damage' > 0
      BY <1>0, <1>3, <2>2 DEF TransferFails, Fault
    <2>. QED  BY <2>1, <2>3, QuietStep
  <1>4. CASE Mark(t)
    <2>1. UNCHANGED <<position, holding, paid>> /\ l.pc = "mark"
      BY <1>4 DEF Mark
    <2>2. l.dels = {} /\ l.cur \in Symbols /\ ~Gone(t, l.cur)
      BY <1>1, <2>1, LocalFields DEF Undisturbed, Gone, InWork
    <2>3. Becomes(t, Marked(l))
      BY <1>4, <2>2, LocalSteps
    <2>4. \A s : Settled(s)' <=> Settled(s)
      <3>1. \A s : Pending(Marked(l), s) <=> Pending(l, s)
        BY <2>1, <2>2 DEF Marked, Pending
      <3>. QED  BY <1>1, <2>1, <2>3, <3>1, SettledByOne, SettledAfter
    <2>5. Shares' = Shares /\ Due' = Due
      BY <2>1, <2>4, SameView
    <2>. QED  BY <2>1, <2>5, QuietStep
  <1>5. CASE Finish(t)
    <2>1. UNCHANGED <<holding, paid>> /\ l.pc = "take" /\ Becomes(t, Idle)
      BY <1>5, LocalSteps DEF Finish
    <2>2. CASE position' = Deleted(t)
      <3>1. \A s : (Settled(s) <=> s \in l.dels) /\ ~Settled(s)'
        <4>1. \A s : Pending(l, s) <=> s \in l.dels
          BY <2>1 DEF Pending
        <4>2. \A s : ~Pending(Idle, s)
          BY IdleIsCorrect
        <4>. QED  BY <1>1, <2>1, <4>1, <4>2, SettledByOne, SettledAfter
      <3>2. \A s \in Symbols : position'[s] = IF s \in l.dels THEN NoPosition ELSE position[s]
        BY <1>1, <2>1, <2>2 DEF Deleted, Undisturbed, InWork
      <3>3. Shares' = Shares /\ Due' = Due
        BY <3>1, <3>2, SameView DEF NoPosition
      <3>. QED  BY <2>1, <3>3, QuietStep
    <2>3. CASE Fault(1)
      <3>1. damage' > 0
        BY <1>0, <2>3 DEF Fault
      <3>. QED  BY <2>1, <3>1, QuietStep
    <2>. QED  BY <1>5, <2>2, <2>3 DEF Finish
  <1>. QED  BY <1>2, <1>3, <1>4, <1>5

\* Fills and midnight are what they are for the settlement as one step; a fill
\* of a row in hand is damage.
LEMMA FillsAndNights ==
    ASSUME TypeOK, NoRows, Orderly, (\E s \in Symbols, n \in {-1, 1} : Fill(s, n)) \/ Midnight
    PROVE  WholeStep
  <1>0. position \in [Symbols -> PositionType] /\ damage \in Nat /\ UNCHANGED <<settler, holding, paid>>
    BY DEF TypeOK, Fill, Midnight
  <1>1. \A s : Settled(s)' <=> Settled(s)
    BY <1>0 DEF Settled, Pending
  <1>2. ASSUME NEW s \in Symbols, NEW n \in {-1, 1}, Fill(s, n) PROVE WholeStep
    <2>1. /\ \A r \in Symbols \ {s} : position'[r] = position[r]
          /\ position'[s].quantity = position[s].quantity + n /\ position'[s].old = position[s].old
      BY <1>2, FillRows
    <2>2. CASE InHand(s)
      <3>1. damage' > 0
        BY <1>0, <1>2, <2>2 DEF Fill
      <3>. QED  BY <1>0, <3>1, QuietStep
    <2>3. CASE ~InHand(s)
      <3>1. ~Settled(s)
        <4>1. \A t \in Settlers \ Active : settler[t] = Idle
          BY DEF Orderly, Undisturbed, Active
        <4>. QED  BY <2>3, <4>1, IdleIsCorrect DEF Settled, InHand, Pending
      <3>2. Due' = Due
        BY <1>1, <2>1 DEF Due
      <3>3. Shares' = [Shares EXCEPT ![s] = @ + n]
        BY <1>1, <2>1, <3>1 DEF Shares
      <3>. QED  BY <1>0, <3>2, <3>3 DEF WholeStep, Whole!Next, Whole!Fill
    <2>. QED  BY <2>2, <2>3
  <1>3. CASE Midnight
    <2>1. \A s \in Symbols : /\ position'[s].quantity = position[s].quantity
                              /\ position'[s].old = (position[s].old \/ position[s].id # 0)
      BY <1>3, MidnightRows
    <2>2. Shares' = Shares
      BY <1>1, <2>1 DEF Shares
    <2>3. Due \subseteq Due'
      BY <1>1, <2>1 DEF Due
    <2>4. \A s \in Symbols : Shares[s] # 0 => s \in Due'
      BY <1>1, <2>1 DEF Shares, Due, NoRows
    <2>. QED  BY <1>0, <2>2, <2>3, <2>4 DEF WholeStep, Whole!Next, Whole!Midnight
  <1>. QED  BY <1>2, <1>3

\* Every step is one of the settlement as a whole, or damage.
LEMMA StepWhole ==
    ASSUME TypeOK, NoRows, Orderly, DamageIsBounded, [Next]_vars, ~overlapped'
    PROVE  WholeStep
  <1>1. CASE Crash
    <2>1. damage' > 0 /\ UNCHANGED <<holding, paid>>
      BY <1>1 DEF Crash, Fault, TypeOK
    <2>. QED  BY <2>1, QuietStep
  <1>2. ASSUME NEW t \in Settlers, Start(t) \/ Settling(t) PROVE WholeStep
    BY <1>2, TakeSettles, TransferSettles, OthersSettleNothing DEF Settling
  <1>3. CASE UNCHANGED vars
    <2>1. UNCHANGED <<holding, paid>> /\ Shares' = Shares /\ Due' = Due
      BY <1>3 DEF vars, Shares, Due, Settled, Pending
    <2>. QED  BY <2>1, QuietStep
  <1>. QED  BY <1>1, <1>2, <1>3, FillsAndNights DEF Next

-----------------------------------------------------------------------------
(* Together.                                                               *)

SettlementInv == NoRows /\ (~overlapped => Orderly /\ DamageIsBounded)

\* Settlements that have overlapped have overlapped for good.
LEMMA OverlapsStay == ASSUME [Next]_vars, overlapped PROVE overlapped'
  <1>1. CASE UNCHANGED overlapped
    BY <1>1
  <1>2. ASSUME NEW t \in Settlers, Start(t) PROVE overlapped'
    BY <1>2 DEF Start
  <1>. QED
    BY <1>1, <1>2
    DEF Next, vars, Fill, Midnight, Crash, Settling, Take, Transfer, TransferFails, Mark, Finish

\* The parts hold from the start on, as long as settlements do not overlap.
LEMMA SettlementAlways == Spec => [](TypeOK /\ SettlementInv)
  <1>1. Init => TypeOK /\ SettlementInv
    <2>. SUFFICES ASSUME Init PROVE TypeOK /\ SettlementInv
      OBVIOUS
    <2>1. TypeOK
      <3>1. settler \in [Settlers -> LocalType] /\ position \in [Symbols -> PositionType]
        BY IdleType DEF Init
      <3>2. /\ holding \in [Symbols -> Int] /\ traded \in [Symbols -> Int] /\ paid \in [Symbols -> Int]
            /\ damage \in Nat
        BY DEF Init
      <3>4. overlapped \in BOOLEAN
        BY DEF Init
      <3>3. fills \in 0 .. MaxFills /\ faults \in 0 .. MaxFaults
        BY DEF Init
      <3>. QED  BY <3>1, <3>2, <3>3, <3>4 DEF TypeOK, LocalType
    <2>2. NoRows
      BY DEF Init, NoRows, NoPosition
    <2>3. Orderly
      BY IdleIsUndisturbed DEF Init, Orderly, Active, Idle
    <2>4. DamageIsBounded
      <3>1. BooksBut({}, AnySymbol)
        BY IdleIsCorrect DEF Init, BooksBut, Balanced, NoPosition
      <3>2. Covers({})
        BY FS_EmptySet DEF Init, Covers
      <3>. QED  BY <3>1, <3>2 DEF DamageIsBounded
    <2>. QED  BY <2>1, <2>2, <2>3, <2>4 DEF SettlementInv
  <1>2. TypeOK /\ SettlementInv /\ [Next]_vars => (TypeOK /\ SettlementInv)'
    <2>. SUFFICES ASSUME TypeOK, SettlementInv, [Next]_vars PROVE (TypeOK /\ SettlementInv)'
      OBVIOUS
    <2>1. TypeOK' /\ NoRows'
      BY StepType, StepNoRows DEF SettlementInv
    <2>2. overlapped => overlapped'
      BY OverlapsStay
    <2>3. ASSUME ~overlapped' PROVE Orderly' /\ DamageIsBounded'
      <3>1. NoRows /\ Orderly /\ DamageIsBounded
        BY <2>2, <2>3 DEF SettlementInv
      <3>. QED  BY <2>3, <3>1, StepOrderly, StepDamage
    <2>. QED  BY <2>1, <2>3 DEF SettlementInv
  <1>. QED  BY <1>1, <1>2, PTL DEF Spec

\* All variables hold values of their kind.
THEOREM SettlementType == Spec => []TypeOK
  BY SettlementAlways, PTL

\* Without overlapping settlements no share is in a holding that was not paid
\* for, whatever fails, fills or crashes in between.
THEOREM HoldingsStayPaid == Spec => []HoldingsArePaid
  <1>1. SettlementInv => HoldingsArePaid
    BY DEF SettlementInv, Orderly, HoldingsArePaid
  <1>. QED  BY <1>1, SettlementAlways, PTL

\* Without overlapping settlements a position becomes a holding and its money
\* moves as if it were one step, which no fill can divide: the two commits of
\* the code implement AtomicSettlement, but for what faults have damaged.
THEOREM SettlementIsAtomic == Spec => SettlesAtomically
  <1>1. Init => Whole!Init
    <2>. SUFFICES ASSUME Init PROVE Whole!Init
      OBVIOUS
    <2>1. \A s \in Symbols : position[s].quantity = 0 /\ ~position[s].old
      BY DEF Init, NoPosition
    <2>2. Shares = [s \in Symbols |-> 0] /\ Due = {}
      BY <2>1 DEF Shares, Due
    <2>. QED  BY <2>2 DEF Init, Whole!Init
  <1>2. /\ TypeOK /\ SettlementInv
        /\ (TypeOK /\ SettlementInv)'
        /\ [Next]_vars
        => [~overlapped' => \/ [Whole!Next]_<<Shares, Due, holding, paid>>
                            \/ damage' > 0 /\ Whole!Damaged]_vars
    <2>. SUFFICES ASSUME TypeOK, SettlementInv, [Next]_vars, ~overlapped'
                  PROVE  \/ [Whole!Next]_<<Shares, Due, holding, paid>>
                         \/ damage' > 0 /\ Whole!Damaged
      OBVIOUS
    <2>1. ~overlapped
      BY OverlapsStay
    <2>2. WholeStep
      BY <2>1, StepWhole DEF SettlementInv
    <2>. QED  BY <2>2 DEF WholeStep, Seen
  <1>. QED  BY <1>1, <1>2, SettlementAlways, PTL DEF Spec, SettlesAtomically

\* A crash costs one row at most, a failed commit two, a fill of a row in hand
\* that row: apart from those, positions and holdings are what was traded.
THEOREM FaultsCostLittle == Spec => []EachFaultCostsLittle
  <1>1. TypeOK /\ SettlementInv => EachFaultCostsLittle
    <2>. SUFFICES ASSUME TypeOK, SettlementInv, Active = {}, ~overlapped
                  PROVE  Cardinality({s \in Symbols : position[s].quantity + holding[s] # traded[s]}) <= damage
      BY DEF EachFaultCostsLittle
    <2>. DEFINE wrong == {s \in Symbols : position[s].quantity + holding[s] # traded[s]}
    <2>1. PICK bad, x : Covers(bad) /\ BooksBut(bad, x)
      BY DEF SettlementInv, DamageIsBounded
    <2>2. \A t \in Settlers : settler[t] = Idle
      BY DEF SettlementInv, Orderly, Undisturbed, Active
    <2>3. wrong \subseteq bad
      BY <2>1, <2>2, IdleIsCorrect DEF BooksBut, Balanced
    <2>. HIDE DEF wrong
    <2>4. /\ Cardinality(wrong) <= Cardinality(bad)
          /\ Cardinality(wrong) \in Nat /\ Cardinality(bad) \in Nat
      BY <2>1, <2>3, FS_Subset, FS_CardinalityType DEF Covers
    <2>5. Cardinality(wrong) <= damage
      BY <2>1, <2>4 DEF Covers, TypeOK
    <2>. QED  BY <2>5 DEF wrong
  <1>. QED  BY <1>1, SettlementAlways, PTL
=============================================================================
