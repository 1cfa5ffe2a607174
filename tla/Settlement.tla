------------------------------- MODULE Settlement -------------------------------
(***************************************************************************)
(* T+1 settlement (sandbox/holdings_manager.py): delivery positions of      *)
(* earlier days become holdings.  The midnight job, the catch-up after a    *)
(* login and the one after a switch to analyzer mode run it in threads of   *)
(* their own, while orders go on filling.                                   *)
(*                                                                         *)
(* SandboxLedger takes the settlement of a position as one step.  Here it   *)
(* is cut at its commits: the margin transfer of a position commits its     *)
(* holding and the deletion of the PREVIOUS position; its own row is        *)
(* deleted with the next transfer or at the end.  A session keeps what it   *)
(* loaded until a commit or rollback.  The price of a share is one.         *)
(***************************************************************************)
EXTENDS Integers, FiniteSets

CONSTANTS Symbols,
          Settlers,     \* threads that may run process_t1_settlement
          MaxFills,     \* bound: fills of delivery orders
          MaxFaults     \* bound: failed commits and crashes

ASSUME BoundsAssumption == MaxFills \in Nat /\ MaxFaults \in Nat
ASSUME SymbolsAssumption == Symbols # {}

VARIABLES position,     \* the CNC row of each symbol; id 0 when there is none
          holding,      \* shares held; 0 when there is no row
          settler,
          fills, faults,
          traded,       \* history: shares bought less shares sold
          paid,         \* history: money moved out of the margin less proceeds
          damage,       \* history: rows that faults and stray fills may have cost
          overlapped    \* history: two settlements have run at once

vars == <<position, holding, settler, fills, faults, traded, paid, damage, overlapped>>

NoPosition == [id |-> 0, quantity |-> 0, old |-> FALSE]
AnySymbol == CHOOSE s \in Symbols : TRUE
Idle == [pc |-> "idle", todo |-> {}, held |-> {}, row |-> [s \in Symbols |-> NoPosition],
         cur |-> AnySymbol, quantity |-> 0, old |-> 0, dels |-> {}]

PositionType == [id : 0 .. MaxFills, quantity : Int, old : BOOLEAN]
TypeOK ==
    /\ position \in [Symbols -> PositionType]
    /\ holding \in [Symbols -> Int]
    /\ settler \in [Settlers -> [pc : {"idle", "take", "transfer", "mark"}, todo : SUBSET Symbols,
                                 held : SUBSET Symbols, row : [Symbols -> PositionType], cur : Symbols,
                                 quantity : Int, old : Int, dels : SUBSET Symbols]]
    /\ fills \in 0 .. MaxFills /\ faults \in 0 .. MaxFaults
    /\ traded \in [Symbols -> Int] /\ paid \in [Symbols -> Int]
    /\ damage \in Nat /\ overlapped \in BOOLEAN

Init ==
    /\ position = [s \in Symbols |-> NoPosition] /\ holding = [s \in Symbols |-> 0]
    /\ settler = [t \in Settlers |-> Idle]
    /\ fills = 0 /\ faults = 0
    /\ traded = [s \in Symbols |-> 0] /\ paid = [s \in Symbols |-> 0]
    /\ damage = 0 /\ overlapped = FALSE

Active == {t \in Settlers : settler[t].pc # "idle"}
Fault(cost) == faults < MaxFaults /\ faults' = faults + 1 /\ damage' = damage + cost

---------------------------------------------------------------------------
\* The quantity of s has been read by a settlement that has not ended with it.
InHand(s) ==
    \E t \in Active : s \in settler[t].held \/ s \in settler[t].dels
                      \/ (s = settler[t].cur /\ settler[t].pc \in {"transfer", "mark"})

\* _update_position: a delivery order fills and changes the row of its symbol,
\* also one of an earlier day; sales are accepted for shares that are there.
Fill(s, n) ==
    /\ fills < MaxFills /\ fills' = fills + 1
    /\ n < 0 => position[s].quantity + holding[s] > 0
    /\ position' = [position EXCEPT ![s] =
            IF @.id = 0 THEN [id |-> fills + 1, quantity |-> n, old |-> FALSE]
            ELSE [position[s] EXCEPT !.quantity = position[s].quantity + n]]
    /\ traded' = [traded EXCEPT ![s] = @ + n]
    /\ damage' = IF InHand(s) THEN damage + 1 ELSE damage
    /\ UNCHANGED <<holding, settler, faults, paid, overlapped>>

Midnight ==
    /\ \E s \in Symbols : position[s].id # 0 /\ ~position[s].old
    /\ position' = [s \in Symbols |-> [position[s] EXCEPT !.old = @ \/ position[s].id # 0]]
    /\ UNCHANGED <<holding, settler, fills, faults, traded, paid, damage, overlapped>>

---------------------------------------------------------------------------
(* process_t1_settlement. *)

Start(t) ==
    LET due == {s \in Symbols : position[s].old} IN
    /\ settler[t].pc = "idle" /\ due # {}
    /\ settler' = [settler EXCEPT ![t] = [Idle EXCEPT !.pc = "take", !.todo = due, !.held = due,
                                          !.row = [s \in Symbols |-> IF s \in due THEN position[s] ELSE NoPosition]]]
    /\ overlapped' = (overlapped \/ Active # {})
    /\ UNCHANGED <<position, holding, fills, faults, traded, paid, damage>>

\* The row as the session shows it: loaded, or read again after a commit, when
\* it may be gone.
Gone(t, s) == s \notin settler[t].held /\ position[s].id # settler[t].row[s].id
Quantity(t, s) == IF s \in settler[t].held THEN settler[t].row[s].quantity ELSE position[s].quantity

FaultyTake(t, s) ==
    /\ settler[t].pc = "take" /\ s \in settler[t].todo
    /\ LET l == settler[t] IN
       settler' = [settler EXCEPT ![t] =
            IF Gone(t, s) THEN Idle
            ELSE IF Quantity(t, s) = 0 THEN [l EXCEPT !.todo = l.todo \ {s}]
            ELSE [l EXCEPT !.pc = "transfer", !.todo = l.todo \ {s}, !.cur = s,
                           !.quantity = Quantity(t, s), !.old = holding[s]]]
    /\ UNCHANGED <<position, holding, fills, faults, traded, paid, damage, overlapped>>

\* The next position: a row of quantity zero is only deleted; for any other
\* the holding is read and changed in the session.  A row that another thread
\* has deleted raises, and ends the settlement.
Take(t, s) ==
    /\ settler[t].pc = "take" /\ s \in settler[t].todo
    /\ LET l == settler[t] IN
       settler' = [settler EXCEPT ![t] =
            IF Gone(t, s) THEN Idle
            ELSE IF Quantity(t, s) = 0 THEN [l EXCEPT !.todo = l.todo \ {s}, !.dels = l.dels \cup {s}]
            ELSE [l EXCEPT !.pc = "transfer", !.todo = l.todo \ {s}, !.cur = s,
                           !.quantity = Quantity(t, s), !.old = holding[s]]]
    /\ UNCHANGED <<position, holding, fills, faults, traded, paid, damage, overlapped>>

\* What a commit of the session leaves of the position rows.
Deleted(t) ==
    [s \in Symbols |-> IF s \in settler[t].dels /\ position[s].id = settler[t].row[s].id
                       THEN NoPosition ELSE position[s]]
Expire(t, pc) == settler' = [settler EXCEPT ![t] = [@ EXCEPT !.pc = pc, !.held = {}, !.dels = {}]]

\* A new row for a holding that has one by now, or a change of a row that has
\* been deleted: the commit fails.
Conflict(t) ==
    LET was == settler[t].old now == holding[settler[t].cur] IN
    IF was = 0 THEN now # 0 ELSE now = 0 /\ was + settler[t].quantity # 0

\* A new holding is paid out of the margin, whatever its sign; a sale from a
\* holding credits its proceeds.
Moved(t) ==
    IF settler[t].quantity < 0 /\ settler[t].old = 0 THEN - settler[t].quantity ELSE settler[t].quantity

FaultyTransfer(t) ==
    /\ settler[t].pc = "transfer" /\ ~Conflict(t)
    /\ holding' = [holding EXCEPT ![settler[t].cur] = settler[t].old + settler[t].quantity]
    /\ paid' = [paid EXCEPT ![settler[t].cur] = @ + Moved(t)]
    /\ Expire(t, "mark")
    /\ UNCHANGED <<position, fills, faults, traded, damage, overlapped>>

\* transfer_margin_to_holdings or credit_sale_proceeds, with its commit.
Transfer(t) ==
    /\ settler[t].pc = "transfer" /\ ~Conflict(t)
    /\ holding' = [holding EXCEPT ![settler[t].cur] = settler[t].old + settler[t].quantity]
    /\ paid' = [paid EXCEPT ![settler[t].cur] = @ + Moved(t)]
    /\ position' = Deleted(t)
    /\ Expire(t, "mark")
    /\ UNCHANGED <<fills, faults, traded, damage, overlapped>>

FaultyTransferFails(t) ==
    /\ settler[t].pc = "transfer"
    /\ holding' = [holding EXCEPT ![settler[t].cur] = settler[t].old + settler[t].quantity]
    /\ Expire(t, "mark")
    /\ IF Conflict(t) THEN UNCHANGED <<faults, damage>> ELSE Fault(2)
    /\ UNCHANGED <<position, fills, traded, paid, overlapped>>

\* The commit fails and rolls back: the holding is not written and the
\* previous row is not deleted.  Nobody looks at the result.
TransferFails(t) ==
    /\ settler[t].pc = "transfer"
    /\ Expire(t, "mark")
    /\ IF Conflict(t) THEN UNCHANGED <<faults, damage>> ELSE Fault(2)
    /\ UNCHANGED <<position, holding, fills, traded, paid, overlapped>>

\* The row is to be deleted by the next commit.
Mark(t) ==
    /\ settler[t].pc = "mark"
    /\ LET l == settler[t] IN
       settler' = [settler EXCEPT ![t] =
            IF Gone(t, l.cur) THEN Idle
            ELSE [l EXCEPT !.pc = "take", !.dels = l.dels \cup {l.cur}, !.cur = AnySymbol, !.quantity = 0, !.old = 0]]
    /\ UNCHANGED <<position, holding, fills, faults, traded, paid, damage, overlapped>>

Finish(t) ==
    /\ settler[t].pc = "take" /\ settler[t].todo = {}
    /\ \/ position' = Deleted(t) /\ UNCHANGED <<faults, damage>>
       \/ Fault(1) /\ UNCHANGED position
    /\ settler' = [settler EXCEPT ![t] = Idle]
    /\ UNCHANGED <<holding, fills, traded, paid, overlapped>>

Settling(t) == (\E s \in Symbols : Take(t, s)) \/ Transfer(t) \/ TransferFails(t) \/ Mark(t) \/ Finish(t)

\* The process ends and starts again; sessions are gone.
Crash ==
    /\ Active # {} /\ Fault(1)
    /\ settler' = [t \in Settlers |-> Idle]
    /\ UNCHANGED <<position, holding, fills, traded, paid, overlapped>>

Next ==
    \/ \E s \in Symbols, n \in {-1, 1} : Fill(s, n)
    \/ Midnight \/ Crash
    \/ \E t \in Settlers : Start(t) \/ Settling(t)

Spec == Init /\ [][Next]_vars

\* The job runs every night and its thread is scheduled.
FairSpec == Spec /\ \A t \in Settlers : WF_vars(Start(t)) /\ WF_vars(Settling(t))

---------------------------------------------------------------------------
\* No share is in a holding that the account did not pay for, through crashes,
\* failed commits, fills in between and repeated settlements: a holding and
\* its transfer are one commit.  Only overlapping settlements break it.
HoldingsArePaid == ~overlapped => \A s \in Symbols : holding[s] <= paid[s]

\* A row whose holding is written, or that has no shares, and that a commit of
\* its settlement is going to delete.
Pending(l, s) == s \in l.dels \/ (l.pc = "mark" /\ s = l.cur)
Settled(s) == \E t \in Settlers : Pending(settler[t], s)

Shares == [s \in Symbols |-> IF Settled(s) THEN 0 ELSE position[s].quantity]
Due == {s \in Symbols : position[s].old /\ ~Settled(s)}
Whole == INSTANCE AtomicSettlement WITH shares <- Shares, due <- Due

\* To everybody else a position is settled at once: its shares, the holding
\* and the money change together or not at all, though they are two commits
\* and fills go on between them.  Only what faults have damaged, and
\* overlapping settlements, look different.
SettlesAtomically ==
    /\ Whole!Init
    /\ [][~overlapped' => \/ [Whole!Next]_<<Shares, Due, holding, paid>>
                          \/ damage' > 0 /\ Whole!Damaged]_vars

\* With no settlement under way, positions and holdings together are what was
\* traded, but for the rows that faults cost: a crash doubles one row at most,
\* a failed commit costs two, a fill of a row in hand that row.
EachFaultCostsLittle ==
    Active = {} /\ ~overlapped =>
        Cardinality({s \in Symbols : position[s].quantity + holding[s] # traded[s]}) <= damage

\* Every position of an earlier day is settled.
PositionsSettle == \A s \in Symbols : position[s].old ~> ~position[s].old
===============================================================================
