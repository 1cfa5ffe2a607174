-------------------------- MODULE ActionCenterProofs --------------------------
(***************************************************************************)
(* What ActionCenter keeps for any number of orders and requests: nothing is *)
(* sent without an approval of its own, an order is decided once unless two *)
(* requests overlapped, and the table tells what became of it.              *)
(***************************************************************************)
EXTENDS ActionCenter, FiniteSetTheorems, TLAPS

\* A request that is past its list has an order in hand.
Ordered == \A r \in Requests : req[r].pc \notin {"idle", "next"} => req[r].order \in Orders

Typed == TypeOK /\ Ordered

Others(r) == \A s \in Requests \ {r} : req'[s] = req[s]

---------------------------------------------------------------------------
(* What the helpers do to the request at hand. *)

\* Carry keeps the order, list and mode of the request and no other request.
LEMMA CarryIs ==
    ASSUME TypeOK, NEW r \in Requests, NEW pc, NEW row, NEW answer, Carry(r, pc, row, answer)
    PROVE  /\ Others(r)
           /\ req'[r] = [pc |-> pc, order |-> req[r].order, todo |-> req[r].todo,
                         mode |-> req[r].mode, seen |-> row, answer |-> answer]
BY DEF Carry, Others, TypeOK

\* A request with a known step, row and answer is a request again.
LEMMA CarryType ==
    ASSUME TypeOK, NEW r \in Requests, NEW row \in RowType, NEW answer \in {"open", "rejected"},
           NEW pc \in {"idle", "next", "approve", "reject", "reload", "execute", "place", "record"},
           Carry(r, pc, row, answer)
    PROVE  req' \in [Requests -> RequestType]
BY DEF Carry, TypeOK, RequestType

\* No row and the requests made from it have their types.
LEMMA RequestIs ==
    ASSUME NEW pc \in {"idle", "next", "approve", "reject", "reload", "execute", "place", "record"},
           NEW o \in Orders \cup {None}, NEW todo \in SUBSET Orders, NEW mode \in {"one", "list", "expired"}
    PROVE  /\ Request(pc, o, todo, mode) \in RequestType
           /\ Request(pc, o, todo, mode).pc = pc /\ Request(pc, o, todo, mode).order = o
           /\ Request(pc, o, todo, mode).mode = mode
BY DEF Request, RequestType, NoRow, Row, RowType, AllKinds

\* Done leaves the request idle or at its list, without an order.
LEMMA DoneIs ==
    ASSUME TypeOK, NEW r \in Requests, Done(r)
    PROVE  /\ Others(r) /\ req' \in [Requests -> RequestType]
           /\ req'[r].pc \in {"idle", "next"}
<1> DEFINE new == IF req[r].todo = {} THEN Idle ELSE Request("next", None, req[r].todo, "expired")
<1>1. req' = [req EXCEPT ![r] = new]  BY DEF Done
<1>2. req \in [Requests -> RequestType] /\ req[r].todo \in SUBSET Orders  BY DEF TypeOK, RequestType
<1>3. Idle \in RequestType /\ Idle.pc = "idle"
  BY RequestIs DEF Idle
<1>4. new \in RequestType /\ new.pc \in {"idle", "next"}
  <2>1. CASE req[r].todo = {}  BY <2>1, <1>3
  <2>2. CASE req[r].todo # {}  BY <2>2, <1>2, RequestIs
  <2> QED BY <2>1, <2>2
<1> HIDE DEF new
<1> QED BY <1>1, <1>2, <1>4 DEF Others

\* Begin puts one decision in hand and touches nothing else.
LEMMA BeginIs ==
    ASSUME TypeOK, NEW r \in Requests, NEW o \in Orders, NEW pc \in {"approve", "reject"},
           NEW todo \in SUBSET Orders, Begin(r, o, pc, todo)
    PROVE  /\ Others(r) /\ req' \in [Requests -> RequestType]
           /\ req'[r].pc = pc /\ req'[r].order = o /\ rows[o].status = "pending"
           /\ UNCHANGED <<rows, sent, approvals, rejections, unnumbered, faults>>
           /\ overlapped' = IF Deciding(o) = {} THEN overlapped ELSE overlapped \cup {o}
<1> DEFINE new == Request(pc, o, todo, req[r].mode)
<1>1. req' = [req EXCEPT ![r] = new]  BY DEF Begin
<1>2. req \in [Requests -> RequestType] /\ req[r].mode \in {"one", "list", "expired"}
  BY DEF TypeOK, RequestType
<1>3. new \in RequestType /\ new.pc = pc /\ new.order = o  BY <1>2, RequestIs
<1> HIDE DEF new
<1>4. Others(r) /\ req' \in [Requests -> RequestType] /\ req'[r].pc = pc /\ req'[r].order = o
  BY <1>1, <1>2, <1>3 DEF Others
<1> QED BY <1>4 DEF Begin
---------------------------------------------------------------------------
(* Types. *)

\* The request of an action that hands it to Done or Carry keeps its order or
\* drops it, and the others are as before.
LEMMA OrderedKept ==
    ASSUME Typed, NEW r \in Requests, Others(r),
           req'[r].pc \in {"idle", "next"} \/ req'[r].order \in Orders
    PROVE  Ordered'
BY DEF Typed, Ordered, Others

\* Initially nothing is known and nobody works.
LEMMA InitTyped == Init => Typed
<1> SUFFICES ASSUME Init PROVE Typed  OBVIOUS
<1>1. Idle \in RequestType /\ Idle.pc = "idle"  BY RequestIs DEF Idle
<1>2. NoRow \in RowType  BY DEF NoRow, Row, RowType, AllKinds
<1>3. rows \in [Orders -> RowType]  BY <1>2 DEF Init
<1>4. req \in [Requests -> RequestType] /\ Ordered  BY <1>1 DEF Init, Ordered
<1>5. faults \in 0 .. MaxFaults  BY FaultsAssumption DEF Init
<1> QED BY <1>3, <1>4, <1>5 DEF Init, Typed, TypeOK

\* A fault stays within its bound.
LEMMA FaultType == ASSUME TypeOK, Fault \/ UNCHANGED faults PROVE faults' \in 0 .. MaxFaults
BY FaultsAssumption DEF Fault, TypeOK

\* Every row keeps its type when the status or the broker's answer is written.
LEMMA RowsType ==
    ASSUME TypeOK, NEW o \in Orders
    PROVE  /\ \A s \in {"approved", "rejected", "deleted"} :
                 [rows EXCEPT ![o].status = s] \in [Orders -> RowType]
           /\ \A row \in RowType : [rows EXCEPT ![o] = row] \in [Orders -> RowType]
BY DEF TypeOK, RowType

\* Each step preserves the types.
LEMMA NextTyped == Typed /\ [Next]_vars => Typed'
<1> SUFFICES ASSUME Typed, [Next]_vars PROVE Typed'  OBVIOUS
<1>a. TypeOK  BY DEF Typed
<1>1. ASSUME NEW o \in Orders, Queue(o) PROVE Typed'
  <2>1. PICK k \in Kinds : rows' = [rows EXCEPT ![o] = Row("pending", k)]  BY <1>1 DEF Queue
  <2>2. Row("pending", k) \in RowType  BY KindsAssumption DEF Row, RowType
  <2>3. rows' \in [Orders -> RowType]  BY <1>a, <2>1, <2>2, RowsType
  <2> QED BY <1>1, <1>a, <2>3 DEF Typed, TypeOK, Ordered, Queue, history
<1>2. ASSUME NEW r \in Requests, NEW o \in Orders, NEW todo \in SUBSET Orders, NEW pc \in {"approve", "reject"},
             Begin(r, o, pc, todo)
      PROVE  Typed'
  <2>1. Ordered'  BY <1>a, <1>2, BeginIs, OrderedKept
  <2>2. overlapped' \in SUBSET Orders  BY <1>a, <1>2, BeginIs DEF TypeOK
  <2>3. req' \in [Requests -> RequestType] /\ UNCHANGED <<rows, sent, approvals, rejections, unnumbered, faults>>
    BY <1>a, <1>2, BeginIs
  <2> QED BY <1>a, <2>1, <2>2, <2>3 DEF Typed, TypeOK
<1>3. ASSUME NEW r \in Requests, ApproveAll(r) PROVE Typed'
  <2> DEFINE pending == {o \in Orders : rows[o].status = "pending"}
  <2>1. req' = [req EXCEPT ![r] = Request("next", None, pending, "list")]  BY <1>3 DEF ApproveAll
  <2>2. /\ Request("next", None, pending, "list") \in RequestType
        /\ Request("next", None, pending, "list").pc = "next"
    BY RequestIs
  <2>3. req' \in [Requests -> RequestType] /\ Ordered'
    BY <1>a, <2>1, <2>2 DEF Typed, TypeOK, Ordered
  <2> QED BY <1>3, <1>a, <2>3 DEF Typed, TypeOK, ApproveAll, history
<1>4. ASSUME NEW r \in Requests, NextOrder(r) PROVE Typed'
  <2>1. PICK o \in req[r].todo :
          \/ Begin(r, o, "approve", req[r].todo \ {o})
          \/ /\ req' = [req EXCEPT ![r] =
                          IF req[r].todo = {o} \/ (rows[o].status = "deleted" /\ req[r].mode = "expired")
                          THEN Idle ELSE [req[r] EXCEPT !.todo = req[r].todo \ {o}]]
             /\ UNCHANGED <<rows, sent, history, faults>>
    BY <1>4 DEF NextOrder
  <2>2. req[r] \in RequestType /\ req[r].todo \in SUBSET Orders /\ o \in Orders /\ req[r].pc = "next"
    BY <1>4, <1>a DEF TypeOK, RequestType, NextOrder
  <2>3. CASE Begin(r, o, "approve", req[r].todo \ {o})  BY <1>2, <2>2, <2>3
  <2>4. CASE UNCHANGED <<rows, sent, history, faults>> /\ ~Begin(r, o, "approve", req[r].todo \ {o})
    <3>1. Idle \in RequestType /\ Idle.pc = "idle"  BY RequestIs DEF Idle
    <3>2. /\ [req[r] EXCEPT !.todo = req[r].todo \ {o}] \in RequestType
          /\ [req[r] EXCEPT !.todo = req[r].todo \ {o}].pc = "next"
      BY <2>2 DEF RequestType
    <3>3. PICK new \in RequestType : new.pc \in {"idle", "next"} /\ req' = [req EXCEPT ![r] = new]
      BY <2>1, <2>4, <3>1, <3>2
    <3>4. req' \in [Requests -> RequestType] /\ Ordered'
      BY <1>a, <3>3 DEF Typed, TypeOK, Ordered
    <3> QED BY <2>4, <1>a, <3>4 DEF Typed, TypeOK, history
  <2> QED BY <2>1, <2>3, <2>4
<1>5. ASSUME NEW r \in Requests, CommitApprove(r) PROVE Typed'
  <2> DEFINE o == req[r].order
  <2>1. o \in Orders  BY <1>5 DEF CommitApprove, Typed, Ordered
  <2>2. CASE /\ rows' = [rows EXCEPT ![o].status = "approved"]
             /\ approvals' = [approvals EXCEPT ![o] = @ + 1]
             /\ req' = [req EXCEPT ![r].pc = IF req[r].mode = "one" THEN "execute" ELSE "reload"]
             /\ UNCHANGED faults
    <3>1. rows' \in [Orders -> RowType]  BY <1>a, <2>1, <2>2, RowsType
    <3>2. approvals' \in [Orders -> Nat]  BY <1>a, <2>1, <2>2 DEF TypeOK
    <3>3. PICK pc \in {"execute", "reload"} : req' = [req EXCEPT ![r].pc = pc]  BY <2>2
    <3>4. req' \in [Requests -> RequestType]  BY <1>a, <3>3 DEF TypeOK, RequestType
    <3>5. Ordered'
      <4>1. Others(r) /\ req'[r].order = req[r].order  BY <1>a, <3>3 DEF TypeOK, RequestType, Others
      <4> QED BY <4>1, <2>1, OrderedKept
    <3> QED BY <1>5, <1>a, <2>2, <3>1, <3>2, <3>4, <3>5 DEF CommitApprove, Typed, TypeOK
  <2>3. CASE Done(r) /\ UNCHANGED <<rows, approvals>> /\ (Fault \/ UNCHANGED faults)
    <3>1. req' \in [Requests -> RequestType] /\ Ordered'  BY <1>a, <2>3, DoneIs, OrderedKept
    <3>2. faults' \in 0 .. MaxFaults  BY <1>a, <2>3, FaultType
    <3> QED BY <1>5, <1>a, <2>3, <3>1, <3>2 DEF CommitApprove, Typed, TypeOK
  <2> QED BY <1>5, <2>2, <2>3 DEF CommitApprove
<1>6. ASSUME NEW r \in Requests, CommitReject(r) PROVE Typed'
  <2> DEFINE o == req[r].order
  <2>1. o \in Orders  BY <1>6 DEF CommitReject, Typed, Ordered
  <2>2. req' \in [Requests -> RequestType] /\ Ordered'  BY <1>6, <1>a, DoneIs, OrderedKept DEF CommitReject
  <2>3. faults' \in 0 .. MaxFaults  BY <1>6, <1>a, FaultType DEF CommitReject
  <2>4. rows' \in [Orders -> RowType]
    <3>1. rows' = [rows EXCEPT ![o].status = "rejected"] \/ rows' = rows  BY <1>6 DEF CommitReject
    <3>2. rows \in [Orders -> RowType]  BY <1>a DEF TypeOK
    <3> QED BY <1>a, <2>1, <3>1, <3>2, RowsType
  <2>5. rejections' \in [Orders -> Nat]
    <3>1. rejections' = [rejections EXCEPT ![o] = @ + 1] \/ rejections' = rejections
      BY <1>6 DEF CommitReject
    <3>2. rejections \in [Orders -> Nat]  BY <1>a DEF TypeOK
    <3> QED BY <2>1, <3>1, <3>2
  <2> QED BY <1>6, <1>a, <2>2, <2>3, <2>4, <2>5 DEF CommitReject, Typed, TypeOK
<1>7. ASSUME NEW r \in Requests, NEW o \in Orders, Delete(r, o) PROVE Typed'
  <2>1. rows' \in [Orders -> RowType]  BY <1>7, <1>a, RowsType DEF Delete
  <2> QED BY <1>7, <1>a, <2>1 DEF Delete, Typed, TypeOK, Ordered, history
<1>8. ASSUME NEW r \in Requests, req[r].order \in Orders,
             \/ Done(r)
             \/ \E pc \in {"execute", "place", "record"}, row \in RowType, answer \in {"open", "rejected"} :
                   Carry(r, pc, row, answer)
      PROVE  req' \in [Requests -> RequestType] /\ Ordered'
  <2>1. CASE Done(r)  BY <1>a, <2>1, DoneIs, OrderedKept
  <2>2. ASSUME NEW pc \in {"execute", "place", "record"}, NEW row \in RowType,
               NEW answer \in {"open", "rejected"}, Carry(r, pc, row, answer)
        PROVE  req' \in [Requests -> RequestType] /\ Ordered'
    <3>1. req' \in [Requests -> RequestType]  BY <1>a, <2>2, CarryType
    <3>2. Others(r)  BY <1>a, <2>2, CarryIs
    <3>3. req'[r].order = req[r].order
      <4>1. req'[r] = [pc |-> pc, order |-> req[r].order, todo |-> req[r].todo,
                       mode |-> req[r].mode, seen |-> row, answer |-> answer]
        BY <1>a, <2>2, CarryIs
      <4> QED BY <4>1
    <3> QED BY <1>8, <3>1, <3>2, <3>3, OrderedKept
  <2> QED BY <1>8, <2>1, <2>2
<1>9. ASSUME NEW r \in Requests, Reload(r) PROVE Typed'
  <2>1. req[r].order \in Orders  BY <1>9 DEF Reload, Typed, Ordered
  <2>2. rows[req[r].order] \in RowType  BY <1>a, <2>1 DEF TypeOK
  <2>3. req' \in [Requests -> RequestType] /\ Ordered'  BY <1>9, <1>8, <2>1, <2>2 DEF Reload
  <2> QED BY <1>9, <1>a, <2>3 DEF Reload, Typed, TypeOK, history
<1>10. ASSUME NEW r \in Requests, Execute(r) PROVE Typed'
  <2>1. req[r].order \in Orders  BY <1>10 DEF Execute, Typed, Ordered
  <2>2. rows[req[r].order] \in RowType /\ req[r].seen \in RowType
    BY <1>a, <2>1 DEF TypeOK, RequestType
  <2>3. req' \in [Requests -> RequestType] /\ Ordered'  BY <1>10, <1>8, <2>1, <2>2 DEF Execute
  <2> QED BY <1>10, <1>a, <2>3 DEF Execute, Typed, TypeOK, history
<1>11. ASSUME NEW r \in Requests, Place(r) PROVE Typed'
  <2> DEFINE o == req[r].order
  <2>1. o \in Orders  BY <1>11 DEF Place, Typed, Ordered
  <2>2. req[r].seen \in RowType  BY <1>a DEF TypeOK, RequestType
  <2>3. sent' = sent \/ sent' = [sent EXCEPT ![o] = @ + 1]  BY <1>11 DEF Place
  <2>4. req' \in [Requests -> RequestType] /\ Ordered'
    <3>1. Done(r) \/ \E answer \in {"open", "rejected"} : Carry(r, "record", req[r].seen, answer)
      BY <1>11 DEF Place
    <3> QED BY <1>8, <2>1, <2>2, <3>1
  <2>5. faults' \in 0 .. MaxFaults
    <3>1. Fault \/ UNCHANGED faults  BY <1>11 DEF Place
    <3> QED BY <1>a, <3>1, FaultType
  <2>6. sent' \in [Orders -> Nat]
    <3>1. sent \in [Orders -> Nat]  BY <1>a DEF TypeOK
    <3> QED BY <2>1, <2>3, <3>1
  <2>7. unnumbered' \in SUBSET Orders
    <3>1. unnumbered' = unnumbered \/ unnumbered' = unnumbered \cup {o}  BY <1>11 DEF Place
    <3> QED BY <1>a, <2>1, <3>1 DEF TypeOK
  <2> QED BY <1>11, <1>a, <2>4, <2>5, <2>6, <2>7 DEF Place, Typed, TypeOK
<1>12. ASSUME NEW r \in Requests, Record(r) PROVE Typed'
  <2> DEFINE o == req[r].order
  <2>1. o \in Orders  BY <1>12 DEF Record, Typed, Ordered
  <2>2. req' \in [Requests -> RequestType] /\ Ordered'  BY <1>12, <1>8, <2>1 DEF Record
  <2>3. faults' \in 0 .. MaxFaults  BY <1>12, <1>a, FaultType DEF Record
  <2>4. Recorded(rows[o], req[r].seen, req[r].answer) \in RowType
    <3>1. rows[o] \in RowType /\ req[r] \in RequestType  BY <1>a, <2>1 DEF TypeOK
    <3>2. req[r].answer \in {"open", "rejected"}  BY <3>1 DEF RequestType
    <3> QED BY <3>1, <3>2 DEF RowType, Recorded
  <2>5. rows' \in [Orders -> RowType]  BY <1>12, <1>a, <2>1, <2>4, RowsType DEF Record, TypeOK
  <2> QED BY <1>12, <1>a, <2>2, <2>3, <2>5 DEF Record, Typed, TypeOK, history
<1>13. CASE Restart
  <2>1. Idle \in RequestType /\ Idle.pc = "idle"  BY RequestIs DEF Idle
  <2>2. req' \in [Requests -> RequestType] /\ Ordered'  BY <1>13, <2>1 DEF Restart, Ordered
  <2>3. faults' \in 0 .. MaxFaults  BY <1>13, <1>a, FaultType DEF Restart
  <2> QED BY <1>13, <1>a, <2>2, <2>3 DEF Restart, Typed, TypeOK, history
<1>14. CASE UNCHANGED vars  BY <1>14 DEF vars, Typed, TypeOK, Ordered
<1>15. ASSUME NEW r \in Requests, NEW o \in Orders, Approve(r, o) \/ Reject(r, o) PROVE Typed'
  BY <1>15, <1>2 DEF Approve, Reject
<1> QED BY <1>1, <1>3, <1>4, <1>5, <1>6, <1>7, <1>9, <1>10, <1>11, <1>12, <1>13, <1>14, <1>15
        DEF Next, Working

\* The table and the requests keep their types (TypeOK of the model).
THEOREM CenterType == Spec => []TypeOK
<1>1. Typed => TypeOK  BY DEF Typed
<1> QED BY <1>1, InitTyped, NextTyped, PTL DEF Spec
---------------------------------------------------------------------------
(* Each approval is used once: it is held by the request that committed it  *)
(* until the order is sent.                                                 *)

Holding(o) == {r \in Requests : req[r].order = o /\ req[r].pc \in {"reload", "execute", "place"}}

UsedBy(o) == sent[o] + Cardinality(Holding(o)) <= approvals[o]
Used == \A o \in Orders : UsedBy(o)

\* The requests that hold an approval are finitely many.
LEMMA HoldingFinite == \A o : IsFiniteSet(Holding(o)) /\ Cardinality(Holding(o)) \in Nat
<1> TAKE o
<1>1. Holding(o) \subseteq Requests  BY DEF Holding
<1> QED BY <1>1, RequestsAssumption, FS_Subset, FS_CardinalityType

\* So they are after a step.
LEMMA HoldingFinite2 == \A o : IsFiniteSet(Holding(o)') /\ Cardinality(Holding(o)') \in Nat
<1> TAKE o
<1>1. Holding(o)' \subseteq Requests  BY DEF Holding
<1> QED BY <1>1, RequestsAssumption, FS_Subset, FS_CardinalityType

\* An order that is not sent and whose approval nobody new holds.
LEMMA UsedKept ==
    ASSUME TypeOK, NEW o \in Orders, UsedBy(o),
           sent'[o] = sent[o], approvals'[o] = approvals[o], Holding(o)' \subseteq Holding(o)
    PROVE  UsedBy(o)'
<1>1. Cardinality(Holding(o)') <= Cardinality(Holding(o))  BY HoldingFinite, FS_Subset
<1>2. sent[o] \in Nat /\ approvals[o] \in Nat  BY DEF TypeOK
<1>3. UsedBy(o)' <=> sent'[o] + Cardinality(Holding(o)') <= approvals'[o]  BY DEF UsedBy
<1> QED BY <1>1, <1>2, <1>3, HoldingFinite, HoldingFinite2 DEF UsedBy

\* An approval is committed and one request holds it.
LEMMA UsedApproved ==
    ASSUME TypeOK, NEW o \in Orders, UsedBy(o), NEW r,
           sent'[o] = sent[o], approvals'[o] = approvals[o] + 1, Holding(o)' \subseteq Holding(o) \cup {r}
    PROVE  UsedBy(o)'
<1>1. /\ IsFiniteSet(Holding(o) \cup {r})
      /\ Cardinality(Holding(o) \cup {r}) <= Cardinality(Holding(o)) + 1
  <2> DEFINE H == Holding(o)
  <2>1. IsFiniteSet(H) /\ Cardinality(H) \in Nat  BY HoldingFinite
  <2> HIDE DEF H
  <2>2. /\ IsFiniteSet(H \cup {r})
        /\ Cardinality(H \cup {r}) = IF r \in H THEN Cardinality(H) ELSE Cardinality(H) + 1
    BY <2>1, FS_AddElement
  <2>3. Cardinality(H \cup {r}) <= Cardinality(H) + 1  BY <2>1, <2>2
  <2> QED BY <2>2, <2>3 DEF H
<1>2. Cardinality(Holding(o)') <= Cardinality(Holding(o) \cup {r})  BY <1>1, FS_Subset
<1>3. sent[o] \in Nat /\ approvals[o] \in Nat  BY DEF TypeOK
<1>4. UsedBy(o)' <=> sent'[o] + Cardinality(Holding(o)') <= approvals'[o]  BY DEF UsedBy
<1>5. Cardinality(Holding(o) \cup {r}) \in Nat  BY <1>1, FS_CardinalityType
<1> QED BY <1>1, <1>2, <1>3, <1>4, <1>5, HoldingFinite, HoldingFinite2 DEF UsedBy

\* The order is sent by a request that held its approval and does no more.
LEMMA UsedSent ==
    ASSUME TypeOK, NEW o \in Orders, UsedBy(o), NEW r \in Holding(o),
           sent'[o] \in {sent[o], sent[o] + 1}, approvals'[o] = approvals[o],
           Holding(o)' \subseteq Holding(o) \ {r}
    PROVE  UsedBy(o)'
<1>1. /\ IsFiniteSet(Holding(o) \ {r})
      /\ Cardinality(Holding(o) \ {r}) = Cardinality(Holding(o)) - 1
  BY HoldingFinite, FS_RemoveElement
<1>2. Cardinality(Holding(o)') <= Cardinality(Holding(o) \ {r})  BY <1>1, FS_Subset
<1>3. sent[o] \in Nat /\ approvals[o] \in Nat  BY DEF TypeOK
<1>4. UsedBy(o)' <=> sent'[o] + Cardinality(Holding(o)') <= approvals'[o]  BY DEF UsedBy
<1> QED BY <1>1, <1>2, <1>3, <1>4, HoldingFinite, HoldingFinite2 DEF UsedBy

\* A request that was and is not at an execution changes nobody's approval;
\* neither does one that goes on with it.
LEMMA HoldingKept ==
    ASSUME NEW r \in Requests, Others(r), NEW o,
           \/ req'[r].pc \notin {"reload", "execute", "place"}
           \/ req[r].pc \in {"reload", "execute", "place"} /\ req'[r].order = req[r].order
    PROVE  Holding(o)' \subseteq Holding(o)
BY DEF Holding, Others

\* Nobody is approved, sent or taken up: the approvals are used as before.
LEMMA UsedIdle ==
    ASSUME TypeOK, Used, UNCHANGED <<sent, approvals>>, \A o \in Orders : Holding(o)' \subseteq Holding(o)
    PROVE  Used'
BY UsedKept DEF Used

\* Each step leaves every approval used at most once.
LEMMA NextUsed == Typed /\ Used /\ [Next]_vars => Used'
<1> SUFFICES ASSUME Typed, Used, [Next]_vars PROVE Used'  OBVIOUS
<1>a. TypeOK  BY DEF Typed
<1>1. ASSUME UNCHANGED <<req, sent, approvals>> PROVE Used'
  BY <1>1 DEF Used, UsedBy, Holding
<1>2. ASSUME NEW r \in Requests, Others(r), UNCHANGED <<sent, approvals>>,
             \/ req'[r].pc \notin {"reload", "execute", "place"}
             \/ req[r].pc \in {"reload", "execute", "place"} /\ req'[r].order = req[r].order
      PROVE  Used'
  BY <1>2, <1>a, HoldingKept, UsedIdle
<1>3. ASSUME NEW r \in Requests, NEW o \in Orders, NEW todo \in SUBSET Orders, NEW pc \in {"approve", "reject"},
             Begin(r, o, pc, todo)
      PROVE  Used'
  BY <1>3, <1>a, <1>2, BeginIs
<1>4. ASSUME NEW r \in Requests, ApproveAll(r) PROVE Used'
  <2> DEFINE pending == {o \in Orders : rows[o].status = "pending"}
  <2>1. Request("next", None, pending, "list").pc = "next"  BY RequestIs
  <2>2. Others(r) /\ req'[r].pc = "next"  BY <1>4, <1>a, <2>1 DEF ApproveAll, Others, TypeOK
  <2> QED BY <1>4, <1>2, <2>2 DEF ApproveAll, history
<1>5. ASSUME NEW r \in Requests, NextOrder(r) PROVE Used'
  <2>1. PICK o \in req[r].todo :
          \/ Begin(r, o, "approve", req[r].todo \ {o})
          \/ /\ req' = [req EXCEPT ![r] =
                          IF req[r].todo = {o} \/ (rows[o].status = "deleted" /\ req[r].mode = "expired")
                          THEN Idle ELSE [req[r] EXCEPT !.todo = req[r].todo \ {o}]]
             /\ UNCHANGED <<rows, sent, history, faults>>
    BY <1>5 DEF NextOrder
  <2>2. req[r] \in RequestType /\ req[r].todo \in SUBSET Orders /\ o \in Orders /\ req[r].pc = "next"
    BY <1>5, <1>a DEF TypeOK, RequestType, NextOrder
  <2>3. CASE Begin(r, o, "approve", req[r].todo \ {o})  BY <1>3, <2>2, <2>3
  <2>4. CASE UNCHANGED <<rows, sent, history, faults>> /\ ~Begin(r, o, "approve", req[r].todo \ {o})
    <3>1. Idle.pc = "idle"  BY RequestIs DEF Idle
    <3>2. [req[r] EXCEPT !.todo = req[r].todo \ {o}].pc = "next"  BY <2>2 DEF RequestType
    <3>3. Others(r) /\ req'[r].pc \in {"idle", "next"}
      BY <1>a, <2>1, <2>4, <3>1, <3>2 DEF Others, TypeOK
    <3> QED BY <1>2, <2>4, <3>3 DEF history
  <2> QED BY <2>1, <2>3, <2>4
<1>6. ASSUME NEW r \in Requests, CommitApprove(r) PROVE Used'
  <2> DEFINE o == req[r].order
  <2>1. o \in Orders  BY <1>6 DEF CommitApprove, Typed, Ordered
  <2>2. CASE /\ rows' = [rows EXCEPT ![o].status = "approved"]
             /\ approvals' = [approvals EXCEPT ![o] = @ + 1]
             /\ req' = [req EXCEPT ![r].pc = IF req[r].mode = "one" THEN "execute" ELSE "reload"]
             /\ UNCHANGED faults
    <3>1. PICK pc \in {"execute", "reload"} : req' = [req EXCEPT ![r].pc = pc]  BY <2>2
    <3>2. Others(r) /\ req'[r].order = o  BY <1>a, <3>1 DEF Others, TypeOK, RequestType
    <3>3. ASSUME NEW p \in Orders PROVE Holding(p)' \subseteq IF p = o THEN Holding(p) \cup {r} ELSE Holding(p)
      BY <3>2 DEF Holding, Others
    <3>4. sent' = sent  BY <1>6 DEF CommitApprove
    <3>5. ASSUME NEW p \in Orders PROVE UsedBy(p)'
      <4>1. UsedBy(p)  BY DEF Used
      <4>2. CASE p = o
        <5>1. Holding(p)' \subseteq Holding(p) \cup {r}  BY <3>3, <4>2
        <5>2. approvals'[p] = approvals[p] + 1  BY <1>a, <2>1, <2>2, <4>2 DEF TypeOK
        <5> QED BY <1>a, <3>4, <4>1, <5>1, <5>2, UsedApproved
      <4>3. CASE p # o
        <5>1. Holding(p)' \subseteq Holding(p)  BY <3>3, <4>3
        <5>2. approvals'[p] = approvals[p]  BY <1>a, <2>1, <2>2, <4>3 DEF TypeOK
        <5> QED BY <1>a, <3>4, <4>1, <5>1, <5>2, UsedKept
      <4> QED BY <4>2, <4>3
    <3> QED BY <3>5 DEF Used
  <2>3. CASE Done(r) /\ UNCHANGED <<rows, approvals>> /\ (Fault \/ UNCHANGED faults)
    BY <1>6, <1>a, <1>2, <2>3, DoneIs DEF CommitApprove
  <2> QED BY <1>6, <2>2, <2>3 DEF CommitApprove
<1>7. ASSUME NEW r \in Requests, CommitReject(r) PROVE Used'
  BY <1>7, <1>a, <1>2, DoneIs DEF CommitReject
<1>8. ASSUME NEW r \in Requests, req[r].pc \in {"reload", "execute", "place"}, UNCHANGED <<sent, approvals>>,
             \/ Done(r)
             \/ \E pc, row, answer : Carry(r, pc, row, answer)
      PROVE  Used'
  <2>1. CASE Done(r)  BY <1>8, <1>a, <1>2, <2>1, DoneIs
  <2>2. ASSUME NEW pc, NEW row, NEW answer, Carry(r, pc, row, answer) PROVE Used'
    <3>1. Others(r) /\ req'[r].order = req[r].order  BY <1>a, <2>2 DEF Carry, Others, TypeOK
    <3> QED BY <1>2, <1>8, <3>1
  <2> QED BY <1>8, <2>1, <2>2
<1>9. ASSUME NEW r \in Requests, Reload(r) PROVE Used'  BY <1>9, <1>8 DEF Reload, history
<1>10. ASSUME NEW r \in Requests, Execute(r) PROVE Used'  BY <1>10, <1>8 DEF Execute, history
<1>11. ASSUME NEW r \in Requests, Place(r) PROVE Used'
  <2> DEFINE o == req[r].order
  <2>1. o \in Orders /\ r \in Holding(o)  BY <1>11 DEF Place, Typed, Ordered, Holding
  <2>2. sent' = sent \/ sent' = [sent EXCEPT ![o] = @ + 1]  BY <1>11 DEF Place
  <2>3. Others(r) /\ req'[r].pc \notin {"reload", "execute", "place"}
    <3>1. CASE Done(r)  BY <1>a, <3>1, DoneIs
    <3>2. ASSUME NEW answer, Carry(r, "record", req[r].seen, answer)
          PROVE  Others(r) /\ req'[r].pc \notin {"reload", "execute", "place"}
      BY <1>a, <3>2 DEF Carry, Others, TypeOK
    <3>3. Done(r) \/ \E answer : Carry(r, "record", req[r].seen, answer)  BY <1>11 DEF Place
    <3> QED BY <3>1, <3>2, <3>3
  <2>4. ASSUME NEW p \in Orders PROVE UsedBy(p)'
    <3>1. UsedBy(p)  BY DEF Used
    <3>2. Holding(p)' \subseteq Holding(p) \ {r}  BY <2>3 DEF Holding, Others
    <3>3. approvals' = approvals  BY <1>11 DEF Place
    <3>4. CASE p = o
      <4>1. sent'[p] \in {sent[p], sent[p] + 1}  BY <1>a, <2>1, <2>2, <3>4 DEF TypeOK
      <4> QED BY <1>a, <2>1, <3>1, <3>2, <3>3, <3>4, <4>1, UsedSent
    <3>5. CASE p # o
      <4>1. sent'[p] = sent[p]  BY <1>a, <2>1, <2>2, <3>5 DEF TypeOK
      <4> QED BY <1>a, <3>1, <3>2, <3>3, <4>1, UsedKept
    <3> QED BY <3>4, <3>5
  <2> QED BY <2>4 DEF Used
<1>12. ASSUME NEW r \in Requests, Record(r) PROVE Used'
  BY <1>12, <1>a, <1>2, DoneIs DEF Record, history
<1>13. CASE Restart
  <2>1. Idle.pc = "idle"  BY RequestIs DEF Idle
  <2>2. \A o \in Orders : Holding(o)' \subseteq Holding(o)  BY <1>13, <2>1 DEF Restart, Holding
  <2> QED BY <1>13, <1>a, <2>2, UsedIdle DEF Restart, history
<1>14. ASSUME NEW r \in Requests, NEW o \in Orders, Approve(r, o) \/ Reject(r, o) PROVE Used'
  BY <1>14, <1>3 DEF Approve, Reject
<1>15. ASSUME NEW o \in Orders, Queue(o) PROVE Used'  BY <1>15, <1>1 DEF Queue, history
<1>16. ASSUME NEW r \in Requests, NEW o \in Orders, Delete(r, o) PROVE Used'
  BY <1>16, <1>1 DEF Delete, history
<1>17. CASE UNCHANGED vars  BY <1>17, <1>1 DEF vars
<1> QED BY <1>4, <1>5, <1>6, <1>7, <1>9, <1>10, <1>11, <1>12, <1>13, <1>14, <1>15, <1>16, <1>17
        DEF Next, Working

\* Nothing is approved or sent at first.
LEMMA InitUsed == Init => Used
<1> SUFFICES ASSUME Init, NEW o \in Orders PROVE UsedBy(o)  BY DEF Used
<1>1. Idle.pc = "idle"  BY RequestIs DEF Idle
<1>2. Holding(o) = {}  BY <1>1 DEF Init, Holding
<1>3. Cardinality(Holding(o)) = 0  BY <1>2, FS_EmptySet
<1> QED BY <1>3 DEF Init, UsedBy

\* Nothing is sent to the broker without an approval, and no approval sends
\* twice (CommitApprove, Execute and Place, under restarts and overlap).
THEOREM ApprovalSendsOnce == Spec => []OneOrderPerApproval
<1>1. Typed /\ Used => OneOrderPerApproval
  <2> SUFFICES ASSUME Typed, Used, NEW o \in Orders PROVE sent[o] <= approvals[o]
    BY DEF OneOrderPerApproval
  <2>1. UsedBy(o) /\ sent[o] \in Nat /\ approvals[o] \in Nat  BY DEF Used, Typed, TypeOK
  <2> QED BY <2>1, HoldingFinite DEF UsedBy
<1> QED BY <1>1, InitTyped, NextTyped, InitUsed, NextUsed, PTL DEF Spec
---------------------------------------------------------------------------
(* What the table and the history tell of an order that was not decided by  *)
(* two requests at once.                                                    *)

Executing(o) == {r \in Requests : req[r].order = o /\ req[r].pc \in {"reload", "execute", "place", "record"}}
Sent(answer) == IF answer = "open" THEN 1 ELSE 0

\* One request decides the order, while it is pending, or executes it after.
OneAtATime(o) ==
    /\ \A r, s \in Deciding(o) : r = s
    /\ \A r, s \in Executing(o) : r = s
    /\ Deciding(o) # {} => rows[o].status = "pending"
    /\ Executing(o) # {} => rows[o].status \in {"approved", "deleted"}

\* The status is that of the one decision committed.
HistoryTold(o) ==
    /\ rows[o].status \in {"none", "pending"}
         => approvals[o] = 0 /\ rejections[o] = 0 /\ rows[o].broker = "none"
    /\ rows[o].status = "approved" => approvals[o] = 1 /\ rejections[o] = 0
    /\ rows[o].status = "rejected" => approvals[o] = 0 /\ rejections[o] = 1
    /\ rows[o].status = "deleted" => approvals[o] + rejections[o] = 1

\* How far an execution is.
ExecutionTold(o) ==
    \A r \in Executing(o) :
        /\ rows[o].broker = "none"
        /\ req[r].pc # "record" => sent[o] = 0
        /\ req[r].pc = "record" /\ faults = 0 => sent[o] = Sent(req[r].answer)
        /\ req[r].pc = "execute" /\ req[r].mode # "one"
             => req[r].seen.status = "approved" /\ req[r].seen.broker = "none"
        /\ req[r].pc \in {"place", "record"} => req[r].seen.broker = "none"

\* How an execution ended: with an answer of the broker, or with success and no
\* identifier.
OutcomeTold(o) ==
    faults = 0 /\ rows[o].status = "approved" /\ Executing(o) = {} =>
        \/ rows[o].broker # "none" /\ sent[o] = Sent(rows[o].broker)
        \/ /\ rows[o].broker = "none" /\ o \in unnumbered /\ rows[o].kind \in {"smart", "batch"}
           /\ rows[o].kind = "smart" => sent[o] = 0

Known(o) == OneAtATime(o) /\ HistoryTold(o) /\ ExecutionTold(o) /\ OutcomeTold(o)
Told == \A o \in Orders \ overlapped : Known(o)

\* A request that does nothing for order o.
Inactive(request, o) == request.order # o \/ request.pc \in {"idle", "next"}

\* The step of a request that neither was nor is at this order.
LEMMA Elsewhere ==
    ASSUME NEW o \in Orders, Known(o), NEW r \in Requests, Others(r), Inactive(req[r], o), Inactive(req'[r], o),
           rows'[o] = rows[o], sent'[o] = sent[o], approvals'[o] = approvals[o],
           rejections'[o] = rejections[o], o \in unnumbered => o \in unnumbered',
           faults' = 0 => faults = 0
    PROVE  Known(o)'
<1>1. \A s \in Requests : /\ s \in Deciding(o) => s # r
                          /\ s \in Executing(o) => s # r
                          /\ s \in Deciding(o)' => s # r
                          /\ s \in Executing(o)' => s # r
  BY DEF Deciding, Executing, Inactive
<1>2. \A s \in Requests : s # r => req'[s] = req[s]  BY DEF Others
<1>3. Deciding(o)' = Deciding(o) /\ Executing(o)' = Executing(o)
  BY <1>1, <1>2 DEF Deciding, Executing
<1>4. OneAtATime(o)'  BY <1>3 DEF Known, OneAtATime
<1>5. HistoryTold(o)'  BY DEF Known, HistoryTold
<1>6. ExecutionTold(o)'
  <2> SUFFICES ASSUME NEW s \in Executing(o)
               PROVE  /\ rows'[o].broker = "none"
                      /\ req'[s].pc # "record" => sent'[o] = 0
                      /\ req'[s].pc = "record" /\ faults' = 0 => sent'[o] = Sent(req'[s].answer)
                      /\ req'[s].pc = "execute" /\ req'[s].mode # "one"
                           => req'[s].seen.status = "approved" /\ req'[s].seen.broker = "none"
                      /\ req'[s].pc \in {"place", "record"} => req'[s].seen.broker = "none"
    BY <1>3 DEF ExecutionTold, Sent
  <2>1. s \in Requests /\ req'[s] = req[s]  BY <1>1, <1>2 DEF Executing
  <2> QED BY <2>1 DEF Known, ExecutionTold
<1>7. OutcomeTold(o)'  BY <1>3 DEF Known, OutcomeTold, Sent
<1> QED BY <1>4, <1>5, <1>6, <1>7 DEF Known

\* No request is at the order any more: the history and the outcome remain.
LEMMA KnownAtRest ==
    ASSUME NEW o \in Orders, Deciding(o)' = {}, Executing(o)' = {}, HistoryTold(o)', OutcomeTold(o)'
    PROVE  Known(o)'
BY DEF Known, OneAtATime, ExecutionTold

\* A request found the order pending, and nobody else decides.
LEMMA BeginKnown ==
    ASSUME Typed, NEW r \in Requests, NEW o \in Orders, NEW pc \in {"approve", "reject"}, NEW todo \in SUBSET Orders,
           req[r].pc \in {"idle", "next"}, Begin(r, o, pc, todo), Known(o), o \notin overlapped'
    PROVE  Known(o)'
<1>1. /\ Others(r) /\ req'[r].pc = pc /\ req'[r].order = o /\ rows[o].status = "pending"
      /\ UNCHANGED <<rows, sent, approvals, rejections, unnumbered, faults>> /\ Deciding(o) = {}
  BY BeginIs DEF Typed
<1>2. Executing(o) = {}  BY <1>1 DEF Known, OneAtATime
<1>3. \A s \in Requests : s # r => s \notin Deciding(o)' /\ s \notin Executing(o)'
  BY <1>1, <1>2 DEF Others, Deciding, Executing
<1>4. r \notin Executing(o)'  BY <1>1 DEF Executing
<1>5. Executing(o)' = {} /\ \A s \in Deciding(o)' : s = r  BY <1>3, <1>4 DEF Executing, Deciding
<1>6. OneAtATime(o)' /\ ExecutionTold(o)'  BY <1>1, <1>5 DEF OneAtATime, ExecutionTold
<1>7. HistoryTold(o)' /\ OutcomeTold(o)'  BY <1>1 DEF Known, HistoryTold, OutcomeTold
<1> QED BY <1>6, <1>7 DEF Known

\* What holds of an order that one request is about to decide.
LEMMA DeciderKnows ==
    ASSUME NEW r \in Requests, NEW o \in Orders, r \in Deciding(o), Known(o)
    PROVE  /\ Deciding(o) = {r} /\ Executing(o) = {} /\ rows[o].status = "pending"
           /\ approvals[o] = 0 /\ rejections[o] = 0 /\ rows[o].broker = "none"
BY DEF Known, OneAtATime, HistoryTold

\* Nothing was sent for an order without an approval.
LEMMA NothingSent == ASSUME Typed, Used, NEW o \in Orders, approvals[o] = 0 PROVE sent[o] = 0
<1>1. sent[o] \in Nat /\ UsedBy(o)  BY DEF Typed, TypeOK, Used
<1> QED BY <1>1, HoldingFinite DEF UsedBy

\* A request ends at the order: it neither decides nor executes it.
LEMMA Ended ==
    ASSUME TypeOK, NEW r \in Requests, NEW o \in Orders, Others(r), req'[r].pc \in {"idle", "next"},
           \A s \in Deciding(o) : s = r, \A s \in Executing(o) : s = r
    PROVE  Deciding(o)' = {} /\ Executing(o)' = {}
<1>1. ASSUME NEW s \in Requests PROVE s \notin Deciding(o)' /\ s \notin Executing(o)'
  <2>1. CASE s = r  BY <2>1 DEF Deciding, Executing
  <2>2. CASE s # r
    <3>1. req'[s] = req[s] /\ s \notin Deciding(o) /\ s \notin Executing(o)  BY <2>2 DEF Others
    <3> QED BY <3>1 DEF Deciding, Executing
  <2> QED BY <2>1, <2>2
<1> QED BY <1>1 DEF Deciding, Executing
\* The approval that decides the order starts its execution.
LEMMA ApproveKnown ==
    ASSUME Typed, Used, NEW r \in Requests, NEW o \in Orders, req[r].order = o, CommitApprove(r), Known(o)
    PROVE  Known(o)'
<1>1. r \in Deciding(o)  BY DEF CommitApprove, Deciding
<1>2. /\ Deciding(o) = {r} /\ Executing(o) = {} /\ rows[o].status = "pending"
      /\ approvals[o] = 0 /\ rejections[o] = 0 /\ rows[o].broker = "none"
  BY <1>1, DeciderKnows
<1>3. CASE /\ rows' = [rows EXCEPT ![o].status = "approved"]
           /\ approvals' = [approvals EXCEPT ![o] = @ + 1]
           /\ req' = [req EXCEPT ![r].pc = IF req[r].mode = "one" THEN "execute" ELSE "reload"]
           /\ UNCHANGED faults
  <2>1. rows'[o].status = "approved" /\ rows'[o].broker = "none"
    BY <1>2, <1>3 DEF Typed, TypeOK, RowType
  <2>2. approvals'[o] = 1 /\ rejections'[o] = 0 /\ sent'[o] = 0
    BY <1>2, <1>3, NothingSent DEF CommitApprove, Typed, TypeOK
  <2>3. PICK pc \in {"execute", "reload"} :
           req' = [req EXCEPT ![r].pc = pc] /\ (pc = "execute" => req[r].mode = "one")
    BY <1>3
  <2>4. /\ Others(r) /\ req'[r].pc = pc /\ req'[r].mode = req[r].mode
    BY <2>3 DEF Typed, TypeOK, RequestType, Others
  <2>5. \A s \in Requests : s # r => s \notin Deciding(o)' /\ s \notin Executing(o)'
    BY <1>2, <2>4 DEF Deciding, Executing, Others
  <2>6. r \notin Deciding(o)'  BY <2>4 DEF Deciding
  <2>7. r \in Executing(o)'
    <3>1. req'[r].order = o  BY <2>3 DEF Typed, TypeOK, RequestType
    <3> QED BY <2>4, <3>1 DEF Executing
  <2>8. Deciding(o)' = {} /\ \A s \in Executing(o)' : s = r
    BY <2>5, <2>6 DEF Deciding, Executing
  <2>9. OneAtATime(o)'  BY <2>1, <2>8 DEF OneAtATime
  <2>10. HistoryTold(o)'  BY <2>1, <2>2 DEF HistoryTold
  <2>11. ExecutionTold(o)'  BY <2>1, <2>2, <2>3, <2>4, <2>8 DEF ExecutionTold
  <2>12. OutcomeTold(o)'  BY <2>7 DEF OutcomeTold
  <2> QED BY <2>9, <2>10, <2>11, <2>12 DEF Known
<1>4. CASE Done(r) /\ UNCHANGED <<rows, approvals>>
  <2>1. Others(r) /\ req'[r].pc \in {"idle", "next"}  BY <1>4, DoneIs DEF Typed
  <2>2. Deciding(o)' = {} /\ Executing(o)' = {}  BY <1>2, <2>1, Ended DEF Typed
  <2>3. HistoryTold(o)' /\ OutcomeTold(o)'
    BY <1>2, <1>4 DEF CommitApprove, HistoryTold, OutcomeTold
  <2> QED BY <2>2, <2>3, KnownAtRest
<1> QED BY <1>3, <1>4 DEF CommitApprove

\* So the rejection that decides it ends it.
LEMMA RejectKnown ==
    ASSUME Typed, NEW r \in Requests, NEW o \in Orders, req[r].order = o, CommitReject(r), Known(o)
    PROVE  Known(o)'
<1>1. r \in Deciding(o)  BY DEF CommitReject, Deciding
<1>2. /\ Deciding(o) = {r} /\ Executing(o) = {} /\ rows[o].status = "pending"
      /\ approvals[o] = 0 /\ rejections[o] = 0 /\ rows[o].broker = "none"
  BY <1>1, DeciderKnows
<1>3. Others(r) /\ req'[r].pc \in {"idle", "next"}  BY DoneIs DEF CommitReject, Typed
<1>4. Deciding(o)' = {} /\ Executing(o)' = {}  BY <1>2, <1>3, Ended DEF Typed
<1>5. HistoryTold(o)' /\ OutcomeTold(o)'
  <2>1. CASE rows' = [rows EXCEPT ![o].status = "rejected"] /\ rejections' = [rejections EXCEPT ![o] = @ + 1]
    <3>1. rows'[o].status = "rejected"  BY <2>1 DEF Typed, TypeOK, RowType
    <3>2. approvals'[o] = 0 /\ rejections'[o] = 1  BY <1>2, <2>1 DEF CommitReject, Typed, TypeOK
    <3> QED BY <3>1, <3>2 DEF HistoryTold, OutcomeTold
  <2>2. CASE UNCHANGED <<rows, rejections>>
    BY <1>2, <2>2 DEF CommitReject, HistoryTold, OutcomeTold
  <2> QED BY <2>1, <2>2 DEF CommitReject
<1> QED BY <1>4, <1>5, KnownAtRest

\* Deleting a row that was decided leaves its execution under way.
LEMMA DeleteKnown ==
    ASSUME Typed, NEW r \in Requests, NEW o \in Orders, Delete(r, o), Known(o)
    PROVE  Known(o)'
<1>1. rows'[o].status = "deleted" /\ rows'[o].broker = rows[o].broker
  BY DEF Delete, Typed, TypeOK, RowType
<1>2. UNCHANGED <<req, sent, approvals, rejections, unnumbered, faults>>  BY DEF Delete, history
<1>3. Deciding(o)' = Deciding(o) /\ Executing(o)' = Executing(o)  BY <1>2 DEF Deciding, Executing
<1>4. Deciding(o) = {}  BY DEF Delete, Known, OneAtATime
<1>5. OneAtATime(o)'  BY <1>1, <1>3, <1>4 DEF Known, OneAtATime
<1>6. HistoryTold(o)'
  <2>1. approvals[o] + rejections[o] = 1  BY DEF Delete, Known, HistoryTold
  <2> QED BY <1>1, <1>2, <2>1 DEF HistoryTold
<1>7. ExecutionTold(o)'  BY <1>1, <1>2, <1>3 DEF Known, ExecutionTold
<1>8. OutcomeTold(o)'  BY <1>1 DEF OutcomeTold
<1> QED BY <1>5, <1>6, <1>7, <1>8 DEF Known

\* What holds of an order that a request executes.
LEMMA ExecutorKnows ==
    ASSUME NEW r \in Requests, NEW o \in Orders, r \in Executing(o), Known(o)
    PROVE  /\ Executing(o) = {r} /\ Deciding(o) = {} /\ rows[o].status \in {"approved", "deleted"}
           /\ rows[o].broker = "none"
           /\ req[r].pc # "record" => sent[o] = 0
           /\ req[r].pc = "record" /\ faults = 0 => sent[o] = Sent(req[r].answer)
           /\ req[r].pc = "execute" /\ req[r].mode # "one"
                => req[r].seen.status = "approved" /\ req[r].seen.broker = "none"
           /\ req[r].pc \in {"place", "record"} => req[r].seen.broker = "none"
<1>1. Executing(o) = {r} /\ Deciding(o) = {} /\ rows[o].status \in {"approved", "deleted"}
  BY DEF Known, OneAtATime
<1> QED BY <1>1 DEF Known, ExecutionTold

\* An execution goes on, with the row at rest.
LEMMA CarryKnown ==
    ASSUME Typed, NEW r \in Requests, NEW o \in Orders, r \in Executing(o), Known(o),
           NEW pc \in {"execute", "place", "record"}, NEW row \in RowType, NEW answer \in {"open", "rejected"},
           Carry(r, pc, row, answer), row.broker = "none", UNCHANGED <<rows, approvals, rejections>>,
           pc = "execute" /\ req[r].mode # "one" => row.status = "approved",
           pc # "record" => sent'[o] = 0,
           pc = "record" /\ faults' = 0 => sent'[o] = Sent(answer)
    PROVE  Known(o)'
<1>1. /\ Executing(o) = {r} /\ Deciding(o) = {} /\ rows[o].status \in {"approved", "deleted"}
      /\ rows[o].broker = "none"
  BY ExecutorKnows
<1>2. Others(r)  BY CarryIs DEF Typed
<1>3. req'[r] = [pc |-> pc, order |-> req[r].order, todo |-> req[r].todo,
                 mode |-> req[r].mode, seen |-> row, answer |-> answer]
  BY CarryIs DEF Typed
<1>4. /\ req'[r].pc = pc /\ req'[r].order = o /\ req'[r].mode = req[r].mode
      /\ req'[r].seen = row /\ req'[r].answer = answer
  BY <1>3 DEF Executing
<1>5. \A s \in Requests : s # r => s \notin Deciding(o)' /\ s \notin Executing(o)'
  BY <1>1, <1>2 DEF Others, Deciding, Executing
<1>6. r \notin Deciding(o)' /\ r \in Executing(o)'  BY <1>4 DEF Deciding, Executing
<1>7. Deciding(o)' = {} /\ \A s \in Executing(o)' : s = r  BY <1>5, <1>6 DEF Deciding, Executing
<1>8. OneAtATime(o)'  BY <1>1, <1>7 DEF OneAtATime
<1>9. HistoryTold(o)'  BY DEF Known, HistoryTold
<1>10. ExecutionTold(o)'  BY <1>1, <1>4, <1>7 DEF ExecutionTold, Sent
<1>11. OutcomeTold(o)'  BY <1>6 DEF OutcomeTold
<1> QED BY <1>8, <1>9, <1>10, <1>11 DEF Known

\* An execution ends, with nothing or all told.
LEMMA DoneKnown ==
    ASSUME Typed, NEW r \in Requests, NEW o \in Orders, r \in Executing(o), Known(o), Done(r),
           HistoryTold(o)', OutcomeTold(o)'
    PROVE  Known(o)'
<1>1. Executing(o) = {r} /\ Deciding(o) = {}  BY ExecutorKnows
<1>2. Others(r) /\ req'[r].pc \in {"idle", "next"}  BY DoneIs DEF Typed
<1>3. Deciding(o)' = {} /\ Executing(o)' = {}  BY <1>1, <1>2, Ended DEF Typed
<1> QED BY <1>3, KnownAtRest
\* Loading the approved row again keeps what is known of it.
LEMMA ReloadKnown ==
    ASSUME Typed, NEW r \in Requests, NEW o \in Orders, req[r].order = o, Reload(r), Known(o)
    PROVE  Known(o)'
<1>1. r \in Executing(o) /\ req[r].pc = "reload"  BY DEF Reload, Executing
<1>2. rows[o].status \in {"approved", "deleted"} /\ rows[o].broker = "none" /\ sent[o] = 0
  BY <1>1, ExecutorKnows
<1>3. CASE rows[o].status = "deleted"
  <2>1. HistoryTold(o)' /\ OutcomeTold(o)'
    BY <1>3 DEF Reload, history, Known, HistoryTold, OutcomeTold
  <2> QED BY <1>1, <1>3, <2>1, DoneKnown DEF Reload
<1>4. CASE rows[o].status # "deleted"
  <2>1. Carry(r, "execute", rows[o], "rejected")  BY <1>4 DEF Reload
  <2>2. rows[o] \in RowType  BY DEF Typed, TypeOK
  <2>3. UNCHANGED <<rows, sent, approvals, rejections, unnumbered, faults>>  BY DEF Reload, history
  <2> QED BY <1>1, <1>2, <1>4, <2>1, <2>2, <2>3, CarryKnown
<1> QED BY <1>3, <1>4

\* Nothing is sent by looking an order up, and an approved one goes on.
LEMMA ExecuteKnown ==
    ASSUME Typed, NEW r \in Requests, NEW o \in Orders, req[r].order = o, Execute(r), Known(o)
    PROVE  Known(o)'
<1> DEFINE row == IF req[r].mode = "one" \/ rows[o].status = "deleted" THEN rows[o] ELSE req[r].seen
<1>1. r \in Executing(o) /\ req[r].pc = "execute"  BY DEF Execute, Executing
<1>2. /\ rows[o].status \in {"approved", "deleted"} /\ rows[o].broker = "none" /\ sent[o] = 0
      /\ req[r].mode # "one" => req[r].seen.status = "approved" /\ req[r].seen.broker = "none"
  BY <1>1, ExecutorKnows
<1>3. row \in RowType
  <2>1. rows[o] \in RowType /\ req[r].seen \in RowType  BY DEF Typed, TypeOK, RequestType
  <2> QED BY <2>1
<1>4. row.broker = "none" /\ (row.status = "approved" \/ rows[o].status = "deleted")  BY <1>2
<1>5. UNCHANGED <<rows, sent, approvals, rejections, unnumbered, faults>>  BY DEF Execute, history
<1>6. \/ row.status # "approved" /\ Done(r)
      \/ \E pc \in {"place", "record"} : Carry(r, pc, row, "rejected")
  BY DEF Execute
<1> HIDE DEF row
<1>7. CASE row.status # "approved" /\ Done(r)
  <2>1. HistoryTold(o)' /\ OutcomeTold(o)'
    BY <1>4, <1>5, <1>7 DEF Known, HistoryTold, OutcomeTold
  <2> QED BY <1>1, <1>7, <2>1, DoneKnown
<1>8. ASSUME NEW pc \in {"place", "record"}, Carry(r, pc, row, "rejected") PROVE Known(o)'
  <2>1. sent'[o] = 0 /\ Sent("rejected") = 0  BY <1>2, <1>5 DEF Sent
  <2> QED BY <1>1, <1>3, <1>4, <1>5, <1>8, <2>1, CarryKnown
<1> QED BY <1>6, <1>7, <1>8

\* Without a fault the answer of the broker says whether the order was sent.
LEMMA PlaceKnown ==
    ASSUME Typed, NEW r \in Requests, NEW o \in Orders, req[r].order = o, Place(r), Known(o)
    PROVE  Known(o)'
<1>1. r \in Executing(o) /\ req[r].pc = "place"  BY DEF Place, Executing
<1>2. /\ rows[o].status \in {"approved", "deleted"} /\ rows[o].broker = "none" /\ sent[o] = 0
      /\ req[r].seen.broker = "none"
  BY <1>1, ExecutorKnows
<1>3. UNCHANGED <<rows, approvals, rejections>>  BY DEF Place
<1>4. sent' = [sent EXCEPT ![o] = @ + 1] => sent'[o] = 1  BY <1>2 DEF Typed, TypeOK
<1>5. CASE Done(r) /\ unnumbered' = unnumbered \cup {o} /\ rows[o].kind \in {"smart", "batch"}
           /\ (rows[o].kind = "smart" => sent' = sent)
  <2>1. HistoryTold(o)' /\ OutcomeTold(o)'
    BY <1>2, <1>3, <1>5 DEF Known, HistoryTold, OutcomeTold
  <2> QED BY <1>1, <1>5, <2>1, DoneKnown
<1>6. ASSUME NEW answer \in {"open", "rejected"}, Carry(r, "record", req[r].seen, answer),
             faults' = 0 => sent'[o] = Sent(answer)
      PROVE  Known(o)'
  <2>1. req[r].seen \in RowType  BY DEF Typed, TypeOK, RequestType
  <2> QED BY <1>1, <1>2, <1>3, <1>6, <2>1, CarryKnown
<1>7. CASE /\ sent' = [sent EXCEPT ![o] = @ + 1] /\ rows[o].kind # "batch"
           /\ Carry(r, "record", req[r].seen, "open")
  BY <1>4, <1>6, <1>7 DEF Sent
<1>8. CASE /\ UNCHANGED sent \/ (Fault /\ sent' = [sent EXCEPT ![o] = @ + 1])
           /\ Carry(r, "record", req[r].seen, "rejected")
  <2>1. faults' = 0 => sent' = sent  BY <1>8 DEF Fault, Typed, TypeOK
  <2>2. faults' = 0 => sent'[o] = Sent("rejected")  BY <1>2, <2>1 DEF Sent
  <2> QED BY <1>6, <1>8, <2>2
<1> QED BY <1>5, <1>7, <1>8 DEF Place

\* The answer is written to the row of the order that was sent.
LEMMA RecordKnown ==
    ASSUME Typed, NEW r \in Requests, NEW o \in Orders, req[r].order = o, Record(r), Known(o)
    PROVE  Known(o)'
<1>1. r \in Executing(o) /\ req[r].pc = "record"  BY DEF Record, Executing
<1>2. /\ rows[o].status \in {"approved", "deleted"} /\ rows[o].broker = "none"
      /\ faults = 0 => sent[o] = Sent(req[r].answer)
      /\ req[r].seen.broker = "none"
  BY <1>1, ExecutorKnows
<1>3. Done(r) /\ UNCHANGED <<sent, approvals, rejections>>  BY DEF Record, history
<1>4. req[r].answer \in {"open", "rejected"}  BY DEF Typed, TypeOK, RequestType
<1>5. CASE rows' = [rows EXCEPT ![o] = Recorded(rows[o], req[r].seen, req[r].answer)] /\ UNCHANGED faults
  <2>1. rows'[o] = Recorded(rows[o], req[r].seen, req[r].answer)  BY <1>5 DEF Typed, TypeOK
  <2>2. rows[o] \in RowType  BY DEF Typed, TypeOK
  <2>3. rows'[o].status = rows[o].status /\ rows'[o].broker = req[r].answer
    BY <1>2, <1>4, <2>1, <2>2 DEF Recorded, RowType
  <2>4. HistoryTold(o)'  BY <1>2, <1>3, <2>3 DEF Known, HistoryTold
  <2>5. OutcomeTold(o)'  BY <1>2, <1>3, <1>4, <1>5, <2>3 DEF OutcomeTold, Sent
  <2> QED BY <1>1, <1>3, <2>4, <2>5, DoneKnown
<1>6. CASE ((rows[o].status = "deleted" /\ UNCHANGED faults) \/ Fault) /\ UNCHANGED rows
  <2>1. HistoryTold(o)'  BY <1>3, <1>6 DEF Known, HistoryTold
  <2>2. rows'[o].status = "deleted" \/ faults' # 0  BY <1>6 DEF Fault, Typed, TypeOK
  <2> QED BY <1>1, <1>3, <2>1, <2>2, DoneKnown DEF OutcomeTold
<1> QED BY <1>5, <1>6 DEF Record

\* An order that arrives is in nobody's hands.
LEMMA QueueKnown == ASSUME Typed, NEW o \in Orders, Queue(o), Known(o) PROVE Known(o)'
<1>1. Deciding(o) = {} /\ Executing(o) = {}  BY DEF Queue, Known, OneAtATime
<1>2. Deciding(o)' = {} /\ Executing(o)' = {}  BY <1>1 DEF Queue, Deciding, Executing
<1>3. rows'[o].status = "pending" /\ rows'[o].broker = "none"
  BY DEF Queue, Row, Typed, TypeOK, RowType
<1>4. HistoryTold(o)' /\ OutcomeTold(o)'
  BY <1>3 DEF Queue, history, Known, HistoryTold, OutcomeTold
<1> QED BY <1>2, <1>4, KnownAtRest
\* A request at another order, before and after its step.
LEMMA OtherOrder ==
    ASSUME Typed, NEW r \in Requests, NEW o \in Orders, Known(o), req[r].order # o,
           \/ Done(r)
           \/ Others(r) /\ req'[r].order = req[r].order
           \/ \E pc, row, answer : Carry(r, pc, row, answer),
           rows'[o] = rows[o], sent'[o] = sent[o], approvals'[o] = approvals[o],
           rejections'[o] = rejections[o], o \in unnumbered => o \in unnumbered',
           Fault \/ UNCHANGED faults
    PROVE  Known(o)'
<1>1. Inactive(req[r], o)  BY DEF Inactive
<1>2. Others(r) /\ Inactive(req'[r], o)
  <2>1. CASE Done(r)  BY <2>1, DoneIs DEF Typed, Inactive
  <2>2. CASE Others(r) /\ req'[r].order = req[r].order  BY <2>2 DEF Inactive
  <2>3. ASSUME NEW pc, NEW row, NEW answer, Carry(r, pc, row, answer) PROVE Others(r) /\ Inactive(req'[r], o)
    <3>1. req'[r].order = req[r].order  BY <2>3 DEF Carry, Typed, TypeOK
    <3> QED BY <2>3, <3>1, CarryIs DEF Typed, Inactive
  <2> QED BY <2>1, <2>2, <2>3
<1>3. faults' = 0 => faults = 0  BY DEF Fault, Typed, TypeOK
<1> QED BY <1>1, <1>2, <1>3, Elsewhere

\* Each step of a request with an order in hand keeps what is known of it and
\* of the others.
LEMMA WorkTold ==
    ASSUME Typed, Used, NEW r \in Requests, NEW o \in Orders, Known(o),
           CommitApprove(r) \/ CommitReject(r) \/ Reload(r) \/ Execute(r) \/ Place(r) \/ Record(r)
    PROVE  Known(o)'
<1>1. CASE req[r].order = o
  BY <1>1, ApproveKnown, RejectKnown, ReloadKnown, ExecuteKnown, PlaceKnown, RecordKnown
<1>2. CASE req[r].order # o
  <2> DEFINE p == req[r].order
  <2>a. p \in Orders
    BY DEF CommitApprove, CommitReject, Reload, Execute, Place, Record, Typed, Ordered
  <2>1. CASE CommitApprove(r)
    <3>1. rows'[o] = rows[o] /\ approvals'[o] = approvals[o]
      <4>1. CASE rows' = [rows EXCEPT ![p].status = "approved"] /\ approvals' = [approvals EXCEPT ![p] = @ + 1]
        BY <1>2, <4>1 DEF Typed, TypeOK
      <4> QED BY <2>1, <4>1 DEF CommitApprove
    <3>2. Done(r) \/ (Others(r) /\ req'[r].order = req[r].order)
      <4>1. CASE req' = [req EXCEPT ![r].pc = IF req[r].mode = "one" THEN "execute" ELSE "reload"]
        <5>1. PICK pc : req' = [req EXCEPT ![r].pc = pc]  BY <4>1
        <5> QED BY <5>1 DEF Others, Typed, TypeOK, RequestType
      <4> QED BY <2>1, <4>1 DEF CommitApprove
    <3>3. Fault \/ UNCHANGED faults  BY <2>1 DEF CommitApprove
    <3> QED BY <1>2, <2>1, <3>1, <3>2, <3>3, OtherOrder DEF CommitApprove
  <2>2. CASE CommitReject(r)
    <3>1. rows'[o] = rows[o] /\ rejections'[o] = rejections[o]
      <4>1. CASE rows' = [rows EXCEPT ![p].status = "rejected"] /\ rejections' = [rejections EXCEPT ![p] = @ + 1]
        BY <1>2, <4>1 DEF Typed, TypeOK
      <4> QED BY <2>2, <4>1 DEF CommitReject
    <3>2. Fault \/ UNCHANGED faults  BY <2>2 DEF CommitReject
    <3> QED BY <1>2, <2>2, <3>1, <3>2, OtherOrder DEF CommitReject
  <2>3. CASE Reload(r)  BY <1>2, <2>3, OtherOrder DEF Reload, history
  <2>4. CASE Execute(r)  BY <1>2, <2>4, OtherOrder DEF Execute, history
  <2>5. CASE Place(r)
    <3>1. sent'[o] = sent[o]
      <4>1. CASE sent' = [sent EXCEPT ![p] = @ + 1]  BY <1>2, <4>1 DEF Typed, TypeOK
      <4>2. sent' = sent \/ sent' = [sent EXCEPT ![p] = @ + 1]  BY <2>5 DEF Place
      <4> QED BY <4>1, <4>2
    <3>2. Done(r) \/ \E pc, row, answer : Carry(r, pc, row, answer)  BY <2>5 DEF Place
    <3>3. Fault \/ UNCHANGED faults  BY <2>5 DEF Place
    <3>4. o \in unnumbered => o \in unnumbered'  BY <2>5 DEF Place
    <3> QED BY <1>2, <2>5, <3>1, <3>2, <3>3, <3>4, OtherOrder DEF Place
  <2>6. CASE Record(r)
    <3>1. rows'[o] = rows[o]
      <4>1. CASE rows' = [rows EXCEPT ![p] = Recorded(rows[p], req[r].seen, req[r].answer)]
        BY <1>2, <4>1 DEF Typed, TypeOK
      <4> QED BY <2>6, <4>1 DEF Record
    <3>2. Fault \/ UNCHANGED faults  BY <2>6 DEF Record
    <3> QED BY <1>2, <2>6, <3>1, <3>2, OtherOrder DEF Record, history
  <2> QED BY <2>1, <2>2, <2>3, <2>4, <2>5, <2>6
<1> QED BY <1>1, <1>2

\* Each step tells as much as it knows.
LEMMA NextTold == Typed /\ Used /\ Told /\ [Next]_vars => Told'
<1> SUFFICES ASSUME Typed, Used, Told, [Next]_vars, NEW o \in Orders, o \notin overlapped' PROVE Known(o)'
  BY DEF Told
<1>a. overlapped \subseteq overlapped'
  <2>1. \A r \in Requests : CommitApprove(r) \/ CommitReject(r) \/ Reload(r) \/ Execute(r) \/ Place(r) \/ Record(r)
          => overlapped' = overlapped
    BY DEF CommitApprove, CommitReject, Reload, Execute, Place, Record, history
  <2>2. \A r \in Requests : ApproveAll(r) \/ NextOrder(r) => overlapped \subseteq overlapped'
    BY DEF ApproveAll, NextOrder, Begin, history
  <2>3. \A r \in Requests, p \in Orders : Approve(r, p) \/ Reject(r, p) \/ Delete(r, p)
          => overlapped \subseteq overlapped'
    BY DEF Approve, Reject, Begin, Delete, history
  <2>4. (\E p \in Orders : Queue(p)) \/ Restart \/ UNCHANGED vars => overlapped' = overlapped
    BY DEF Queue, Restart, vars, history
  <2> QED BY <2>1, <2>2, <2>3, <2>4 DEF Next, Working
<1>b. Known(o)  BY <1>a DEF Told
<1>1. ASSUME NEW p \in Orders, Queue(p) PROVE Known(o)'
  <2>1. CASE p = o  BY <1>1, <1>b, <2>1, QueueKnown
  <2>2. CASE p # o
    <3>1. rows'[o] = rows[o]  BY <1>1, <2>2 DEF Queue, Typed, TypeOK
    <3>2. UNCHANGED <<req, sent, approvals, rejections, unnumbered, faults>>  BY <1>1 DEF Queue, history
    <3> QED BY <1>b, <3>1, <3>2
            DEF Known, OneAtATime, HistoryTold, ExecutionTold, OutcomeTold, Deciding, Executing
  <2> QED BY <2>1, <2>2
<1>2. ASSUME NEW r \in Requests, NEW p \in Orders, NEW pc \in {"approve", "reject"}, NEW todo \in SUBSET Orders,
             req[r].pc \in {"idle", "next"}, Begin(r, p, pc, todo)
      PROVE  Known(o)'
  <2>1. CASE p = o  BY <1>2, <1>b, <2>1, BeginKnown
  <2>2. CASE p # o
    <3>1. /\ Others(r) /\ req'[r].order = p
          /\ UNCHANGED <<rows, sent, approvals, rejections, unnumbered, faults>>
      BY <1>2, BeginIs DEF Typed
    <3>2. Inactive(req[r], o) /\ Inactive(req'[r], o)  BY <1>2, <2>2, <3>1 DEF Inactive
    <3> QED BY <1>b, <3>1, <3>2, Elsewhere
  <2> QED BY <2>1, <2>2
<1>3. ASSUME NEW r \in Requests, Others(r), req[r].pc \in {"idle", "next"}, req'[r].pc \in {"idle", "next"},
             UNCHANGED <<rows, sent, approvals, rejections, unnumbered, faults>>
      PROVE  Known(o)'
  BY <1>3, <1>b, Elsewhere DEF Inactive
<1>4. ASSUME NEW r \in Requests, ApproveAll(r) PROVE Known(o)'
  <2> DEFINE pending == {p \in Orders : rows[p].status = "pending"}
  <2>1. Request("next", None, pending, "list").pc = "next"  BY RequestIs
  <2>2. Others(r) /\ req'[r].pc = "next"  BY <1>4, <2>1 DEF ApproveAll, Others, Typed, TypeOK
  <2> QED BY <1>3, <1>4, <2>2 DEF ApproveAll, history
<1>5. ASSUME NEW r \in Requests, NextOrder(r) PROVE Known(o)'
  <2>1. PICK p \in req[r].todo :
          \/ Begin(r, p, "approve", req[r].todo \ {p})
          \/ /\ req' = [req EXCEPT ![r] =
                          IF req[r].todo = {p} \/ (rows[p].status = "deleted" /\ req[r].mode = "expired")
                          THEN Idle ELSE [req[r] EXCEPT !.todo = req[r].todo \ {p}]]
             /\ UNCHANGED <<rows, sent, history, faults>>
    BY <1>5 DEF NextOrder
  <2>2. req[r] \in RequestType /\ req[r].todo \in SUBSET Orders /\ p \in Orders /\ req[r].pc = "next"
    BY <1>5 DEF Typed, TypeOK, RequestType, NextOrder
  <2>3. CASE Begin(r, p, "approve", req[r].todo \ {p})  BY <1>2, <2>2, <2>3
  <2>4. CASE UNCHANGED <<rows, sent, history, faults>> /\ ~Begin(r, p, "approve", req[r].todo \ {p})
    <3>1. Idle.pc = "idle"  BY RequestIs DEF Idle
    <3>2. [req[r] EXCEPT !.todo = req[r].todo \ {p}].pc = "next"  BY <2>2 DEF RequestType
    <3>3. Others(r) /\ req'[r].pc \in {"idle", "next"}
      BY <2>1, <2>4, <3>1, <3>2 DEF Others, Typed, TypeOK
    <3> QED BY <1>3, <2>2, <2>4, <3>3 DEF history
  <2> QED BY <2>1, <2>3, <2>4
<1>6. ASSUME NEW r \in Requests, NEW p \in Orders, Delete(r, p) PROVE Known(o)'
  <2>1. CASE p = o  BY <1>6, <1>b, <2>1, DeleteKnown
  <2>2. CASE p # o
    <3>1. rows'[o] = rows[o]  BY <1>6, <2>2 DEF Delete, Typed, TypeOK
    <3>2. UNCHANGED <<req, sent, approvals, rejections, unnumbered, faults>>  BY <1>6 DEF Delete, history
    <3> QED BY <1>b, <3>1, <3>2
            DEF Known, OneAtATime, HistoryTold, ExecutionTold, OutcomeTold, Deciding, Executing
  <2> QED BY <2>1, <2>2
<1>7. CASE Restart
  <2>1. Idle.pc = "idle"  BY RequestIs DEF Idle
  <2>2. Deciding(o)' = {} /\ Executing(o)' = {}  BY <1>7, <2>1 DEF Restart, Deciding, Executing
  <2>3. HistoryTold(o)'  BY <1>7, <1>b DEF Restart, history, Known, HistoryTold
  <2>4. faults' # 0  BY <1>7 DEF Restart, Fault, Typed, TypeOK
  <2> QED BY <2>2, <2>3, <2>4, KnownAtRest DEF OutcomeTold
<1>8. CASE UNCHANGED vars
  BY <1>8, <1>b DEF vars, Known, OneAtATime, HistoryTold, ExecutionTold, OutcomeTold, Deciding, Executing
<1>9. ASSUME NEW r \in Requests, NEW p \in Orders, Approve(r, p) \/ Reject(r, p) PROVE Known(o)'
  BY <1>9, <1>2 DEF Approve, Reject
<1>10. ASSUME NEW r \in Requests,
              CommitApprove(r) \/ CommitReject(r) \/ Reload(r) \/ Execute(r) \/ Place(r) \/ Record(r)
       PROVE  Known(o)'
  BY <1>10, <1>b, WorkTold
<1> QED BY <1>1, <1>4, <1>5, <1>6, <1>7, <1>8, <1>9, <1>10 DEF Next, Working

\* Nothing has happened to an order at first.
LEMMA InitTold == Init => Told
<1> SUFFICES ASSUME Init, NEW o \in Orders PROVE Known(o)  BY DEF Told
<1>1. Idle.pc = "idle"  BY RequestIs DEF Idle
<1>2. Deciding(o) = {} /\ Executing(o) = {}  BY <1>1 DEF Init, Deciding, Executing
<1>3. rows[o].status = "none" /\ rows[o].broker = "none"  BY DEF Init, NoRow, Row
<1> QED BY <1>2, <1>3 DEF Init, Known, OneAtATime, HistoryTold, ExecutionTold, OutcomeTold

Center == Typed /\ Used /\ Told

LEMMA CenterInvariant == Spec => []Center
<1>1. Init => Center  BY InitTyped, InitUsed, InitTold DEF Center
<1>2. Center /\ [Next]_vars => Center'  BY NextTyped, NextUsed, NextTold DEF Center
<1> QED BY <1>1, <1>2, PTL DEF Spec

\* An order is approved or rejected, and once, unless two requests had read it
\* pending at the same time (update in CommitApprove and CommitReject).
THEOREM DecidedOnce == Spec => []OneDecision
<1>1. Center => OneDecision
  <2> SUFFICES ASSUME Center, NEW o \in Orders \ overlapped PROVE approvals[o] + rejections[o] <= 1
    BY DEF OneDecision
  <2>1. HistoryTold(o)  BY DEF Center, Told, Known
  <2>2. rows[o].status \in {"none", "pending", "approved", "rejected", "deleted"}
    BY DEF Center, Typed, TypeOK, RowType
  <2> QED BY <2>1, <2>2 DEF HistoryTold
<1> QED BY <1>1, CenterInvariant, PTL

\* Without overlap and faults the table tells whether an order that nobody is
\* working on was sent (Execute, Place and Record after CommitApprove).
THEOREM TableTellsTheOrder == Spec => []RowTellsTheOrder
<1>1. Center => RowTellsTheOrder
  <2> SUFFICES ASSUME Center, NEW o \in Orders \ overlapped, faults = 0, ~Busy(o)
      PROVE /\ rows[o].status \in {"none", "pending", "rejected"} => sent[o] = 0
            /\ rows[o].status = "approved" =>
                  CASE rows[o].broker = "open" -> sent[o] = 1
                    [] rows[o].broker = "rejected" -> sent[o] = 0
                    [] rows[o].broker = "none" ->
                          /\ o \in unnumbered /\ rows[o].kind \in {"smart", "batch"}
                          /\ rows[o].kind = "smart" => sent[o] = 0
    BY DEF RowTellsTheOrder
  <2>1. HistoryTold(o) /\ OutcomeTold(o)  BY DEF Center, Told, Known
  <2>2. Executing(o) = {}  BY DEF Busy, Executing
  <2>3. rows[o].status \in {"none", "pending", "rejected"} => sent[o] = 0
    BY <2>1, NothingSent DEF Center, HistoryTold
  <2>4. rows[o].broker \in {"none", "open", "rejected"}  BY DEF Center, Typed, TypeOK, RowType
  <2>5. CASE rows[o].status # "approved"  BY <2>3, <2>5
  <2>6. CASE rows[o].status = "approved"
    <3>1. rows[o].broker = "open" => sent[o] = 1  BY <2>1, <2>2, <2>6 DEF OutcomeTold, Sent
    <3>2. rows[o].broker = "rejected" => sent[o] = 0  BY <2>1, <2>2, <2>6 DEF OutcomeTold, Sent
    <3>3. rows[o].broker = "none" =>
             /\ o \in unnumbered /\ rows[o].kind \in {"smart", "batch"}
             /\ rows[o].kind = "smart" => sent[o] = 0
      BY <2>1, <2>2, <2>6 DEF OutcomeTold
    <3> QED BY <2>3, <2>4, <2>6, <3>1, <3>2, <3>3
  <2> QED BY <2>5, <2>6
<1> QED BY <1>1, CenterInvariant, PTL
---------------------------------------------------------------------------
(* The decision of an order, as its user knows it.                          *)

Stages == [o \in Orders |-> Stage(o)]
Step == [Decision!Next]_Stages

\* The history of an order that is not disputed tells its stage.
LEMMA StageIs ==
    ASSUME NEW o
    PROVE  /\ o \in overlapped => Stage(o) = "disputed"
           /\ o \notin overlapped =>
                 /\ approvals[o] = 0 /\ rejections[o] = 0 /\ sent[o] = 0 => Stage(o) = rows[o].status
                 /\ approvals[o] = 1 /\ rejections[o] = 0 /\ sent[o] = 0 => Stage(o) = "approved"
                 /\ approvals[o] = 0 /\ rejections[o] = 1 /\ sent[o] = 0 => Stage(o) = "rejected"
                 /\ approvals[o] = 1 /\ rejections[o] = 0 /\ sent[o] = 1 => Stage(o) = "sent"
BY DEF Stage

\* So it does after a step.
LEMMA StageIs2 ==
    ASSUME NEW o
    PROVE  /\ o \in overlapped' => Stage(o)' = "disputed"
           /\ o \notin overlapped' =>
                 /\ approvals'[o] = 0 /\ rejections'[o] = 0 /\ sent'[o] = 0 => Stage(o)' = rows'[o].status
                 /\ approvals'[o] = 1 /\ rejections'[o] = 0 /\ sent'[o] = 0 => Stage(o)' = "approved"
                 /\ approvals'[o] = 0 /\ rejections'[o] = 1 /\ sent'[o] = 0 => Stage(o)' = "rejected"
                 /\ approvals'[o] = 1 /\ rejections'[o] = 0 /\ sent'[o] = 1 => Stage(o)' = "sent"
BY DEF Stage

\* What is not touched stays where it is.
LEMMA StageKept ==
    ASSUME NEW o, rows'[o].status = rows[o].status, sent'[o] = sent[o], approvals'[o] = approvals[o],
           rejections'[o] = rejections[o], o \in overlapped' <=> o \in overlapped
    PROVE  Stage(o)' = Stage(o)
BY DEF Stage

\* A step about one order.
Only(p) ==
    \A o \in Orders \ {p} :
        /\ rows'[o].status = rows[o].status /\ sent'[o] = sent[o] /\ approvals'[o] = approvals[o]
        /\ rejections'[o] = rejections[o] /\ (o \in overlapped' <=> o \in overlapped)

\* It turns that order over, or nothing is seen of it.
LEMMA OneTurn ==
    ASSUME NEW p \in Orders, Only(p), NEW from, NEW to, Stage(p) = from, Stage(p)' = to
    PROVE  Decision!Turns(p, from, to) /\ (from = to => Stages' = Stages)
<1>1. \A o \in Orders \ {p} : Stage(o)' = Stage(o)  BY StageKept DEF Only
<1>2. Stages' = [o \in Orders |-> Stage(o)']  BY DEF Stages
<1>3. Stages[p] = from /\ Stages' = [Stages EXCEPT ![p] = to]  BY <1>1, <1>2 DEF Stages
<1>4. from = to => Stages' = Stages  BY <1>1, <1>2 DEF Stages
<1> QED BY <1>3, <1>4 DEF Decision!Turns, Stages

\* Nobody sees a request that only looks.
LEMMA Unseen ==
    ASSUME UNCHANGED <<rows, sent, approvals, rejections, overlapped>>
    PROVE  Step
BY DEF Step, Stages, Stage

\* An order that arrives waits for its decision.
LEMMA QueueSteps ==
    ASSUME Center, NEW o \in Orders, Queue(o)
    PROVE  Step
<1>0. Typed /\ Used  BY DEF Center
<1>1. /\ rows[o].status = "none" /\ rows'[o].status = "pending"
      /\ UNCHANGED <<sent, approvals, rejections, overlapped>> /\ Only(o)
  <2>1. PICK k \in Kinds : rows' = [rows EXCEPT ![o] = Row("pending", k)]  BY DEF Queue
  <2>2. Row("pending", k).status = "pending"  BY DEF Row
  <2> QED BY <1>0, <2>1, <2>2 DEF Queue, history, Only, Typed, TypeOK
<1>2. CASE o \in overlapped
  <2>1. Stages' = Stages  BY <1>1, <1>2, StageIs, StageIs2, OneTurn
  <2> QED BY <2>1 DEF Step
<1>3. CASE o \notin overlapped
  <2>1. approvals[o] = 0 /\ rejections[o] = 0  BY <1>1, <1>3 DEF Center, Told, Known, HistoryTold
  <2>2. sent[o] = 0  BY <1>0, <2>1, NothingSent
  <2>3. Stage(o) = "none" /\ Stage(o)' = "pending"  BY <1>1, <1>3, <2>1, <2>2, StageIs, StageIs2
  <2>4. Decision!Queue(o)  BY <1>1, <2>3, OneTurn DEF Decision!Queue
  <2> QED BY <2>4 DEF Step, Decision!Next
<1> QED BY <1>2, <1>3

\* A request that is the second to take an order up makes it disputed.
LEMMA BeginSteps ==
    ASSUME Center, NEW r \in Requests, NEW o \in Orders, NEW pc \in {"approve", "reject"},
           NEW todo \in SUBSET Orders, Begin(r, o, pc, todo)
    PROVE  Step
<1>0. Typed /\ Used  BY DEF Center
<1>1. /\ rows[o].status = "pending" /\ UNCHANGED <<rows, sent, approvals, rejections>>
      /\ overlapped' = IF Deciding(o) = {} THEN overlapped ELSE overlapped \cup {o}
  BY <1>0, BeginIs DEF Typed
<1>2. CASE overlapped' = overlapped  BY <1>1, <1>2, Unseen
<1>3. CASE o \notin overlapped /\ overlapped' = overlapped \cup {o}
  <2>1. approvals[o] = 0 /\ rejections[o] = 0  BY <1>1, <1>3 DEF Center, Told, Known, HistoryTold
  <2>2. sent[o] = 0  BY <1>0, <2>1, NothingSent
  <2>3. Stage(o) = "pending" /\ Stage(o)' = "disputed"  BY <1>1, <1>3, <2>1, <2>2, StageIs, StageIs2
  <2>4. Only(o)  BY <1>1, <1>3 DEF Only
  <2>5. Decision!Dispute(o)  BY <2>3, <2>4, OneTurn DEF Decision!Dispute
  <2> QED BY <2>5 DEF Step, Decision!Next
<1>4. o \in overlapped => overlapped \cup {o} = overlapped  OBVIOUS
<1> QED BY <1>1, <1>2, <1>3, <1>4

\* A decision that is committed is the first one.
LEMMA DecisionSteps ==
    ASSUME Center, NEW r \in Requests, CommitApprove(r) \/ CommitReject(r)
    PROVE  Step
<1> PICK o : o = req[r].order  OBVIOUS
<1>0. Typed /\ Used /\ o \in Orders  BY DEF Center, Typed, Ordered, CommitApprove, CommitReject
<1>1. r \in Deciding(o) /\ UNCHANGED <<sent, overlapped>>  BY DEF Deciding, CommitApprove, CommitReject
<1>2. CASE UNCHANGED <<rows, approvals, rejections>>  BY <1>1, <1>2, Unseen
<1>3. CASE /\ rows' = [rows EXCEPT ![o].status = "approved"]
           /\ approvals' = [approvals EXCEPT ![o] = @ + 1] /\ UNCHANGED rejections
  <2>1. Only(o) /\ approvals'[o] = approvals[o] + 1 /\ UNCHANGED <<sent, rejections>>
    BY <1>0, <1>1, <1>3 DEF Only, Typed, TypeOK
  <2>2. CASE o \in overlapped
    <3>1. Stages' = Stages  BY <1>0, <1>1, <2>1, <2>2, StageIs, StageIs2, OneTurn
    <3> QED BY <3>1 DEF Step
  <2>3. CASE o \notin overlapped
    <3>1. rows[o].status = "pending" /\ approvals[o] = 0 /\ rejections[o] = 0
      BY <1>0, <1>1, <2>3, DeciderKnows DEF Center, Told
    <3>2. sent[o] = 0  BY <1>0, <3>1, NothingSent
    <3>3. Stage(o) = "pending" /\ Stage(o)' = "approved"
      BY <1>1, <2>1, <2>3, <3>1, <3>2, StageIs, StageIs2
    <3>4. Decision!Approve(o)  BY <1>0, <2>1, <3>3, OneTurn DEF Decision!Approve
    <3> QED BY <1>0, <3>4 DEF Step, Decision!Next
  <2> QED BY <2>2, <2>3
<1>4. CASE /\ rows' = [rows EXCEPT ![o].status = "rejected"]
           /\ rejections' = [rejections EXCEPT ![o] = @ + 1] /\ UNCHANGED approvals
  <2>1. Only(o) /\ rejections'[o] = rejections[o] + 1 /\ UNCHANGED <<sent, approvals>>
    BY <1>0, <1>1, <1>4 DEF Only, Typed, TypeOK
  <2>2. CASE o \in overlapped
    <3>1. Stages' = Stages  BY <1>0, <1>1, <2>1, <2>2, StageIs, StageIs2, OneTurn
    <3> QED BY <3>1 DEF Step
  <2>3. CASE o \notin overlapped
    <3>1. rows[o].status = "pending" /\ approvals[o] = 0 /\ rejections[o] = 0
      BY <1>0, <1>1, <2>3, DeciderKnows DEF Center, Told
    <3>2. sent[o] = 0  BY <1>0, <3>1, NothingSent
    <3>3. Stage(o) = "pending" /\ Stage(o)' = "rejected"
      BY <1>1, <2>1, <2>3, <3>1, <3>2, StageIs, StageIs2
    <3>4. Decision!Reject(o)  BY <1>0, <2>1, <3>3, OneTurn DEF Decision!Reject
    <3> QED BY <1>0, <3>4 DEF Step, Decision!Next
  <2> QED BY <2>2, <2>3
<1> QED BY <1>2, <1>3, <1>4 DEF CommitApprove, CommitReject

\* Deleting a row does not undo what was decided.
LEMMA DeleteSteps ==
    ASSUME Center, NEW r \in Requests, NEW o \in Orders, Delete(r, o)
    PROVE  Step
<1>0. Typed  BY DEF Center
<1>1. UNCHANGED <<sent, approvals, rejections, overlapped>> /\ Only(o)
  BY <1>0 DEF Delete, history, Only, Typed, TypeOK
<1>2. o \notin overlapped => approvals[o] = 1 \/ rejections[o] = 1
  BY DEF Delete, Center, Told, Known, HistoryTold
<1>3. Stage(o)' = Stage(o)
  <2>1. CASE o \in overlapped  BY <1>1, <2>1, StageIs, StageIs2
  <2>2. CASE o \notin overlapped  BY <1>1, <1>2, <2>2 DEF Stage
  <2> QED BY <2>1, <2>2
<1>4. Stages' = Stages  BY <1>1, <1>3, OneTurn
<1> QED BY <1>4 DEF Step

\* What is sent was approved, not rejected, and is sent for the first time.
LEMMA PlaceSteps ==
    ASSUME Center, NEW r \in Requests, Place(r)
    PROVE  Step
<1> PICK o : o = req[r].order  OBVIOUS
<1>0. Typed /\ Used /\ o \in Orders  BY DEF Center, Typed, Ordered, Place
<1>1. /\ r \in Executing(o) /\ r \in Holding(o) /\ UNCHANGED <<rows, approvals, rejections, overlapped>>
      /\ sent' = sent \/ sent' = [sent EXCEPT ![o] = @ + 1]
  BY DEF Place, Executing, Holding
<1>2. CASE sent' = sent  BY <1>1, <1>2, Unseen
<1>3. CASE sent' = [sent EXCEPT ![o] = @ + 1]
  <2>1. Only(o) /\ sent'[o] = sent[o] + 1  BY <1>0, <1>1, <1>3 DEF Only, Typed, TypeOK
  <2>2. CASE o \in overlapped
    <3>1. Stages' = Stages  BY <1>0, <1>1, <2>1, <2>2, StageIs, StageIs2, OneTurn
    <3> QED BY <3>1 DEF Step
  <2>3. CASE o \notin overlapped
    <3>1. /\ Known(o) /\ sent[o] = 0 /\ rows[o].status \in {"approved", "deleted"}
      <4>1. Known(o)  BY <1>0, <2>3 DEF Center, Told
      <4> QED BY <1>0, <1>1, <4>1, ExecutorKnows DEF Place
    <3>2. approvals[o] >= 1 /\ approvals[o] \in Nat /\ rejections[o] \in Nat
      <4>1. UsedBy(o) /\ approvals[o] \in Nat /\ rejections[o] \in Nat  BY <1>0 DEF Used, Typed, TypeOK
      <4>2. Cardinality(Holding(o)) >= 1
        <5>1. IsFiniteSet(Holding(o)) /\ Cardinality(Holding(o)) \in Nat /\ Holding(o) # {}
          BY <1>1, HoldingFinite
        <5>2. Cardinality(Holding(o)) # 0  BY <5>1, FS_EmptySet
        <5> QED BY <5>1, <5>2
      <4>3. sent[o] + Cardinality(Holding(o)) <= approvals[o]  BY <4>1 DEF UsedBy
      <4> QED BY <3>1, <4>1, <4>2, <4>3, HoldingFinite
    <3>3. approvals[o] = 1 /\ rejections[o] = 0
      <4>1. approvals[o] + rejections[o] = 1  BY <3>1 DEF Known, HistoryTold
      <4> QED BY <3>2, <4>1
    <3>4. Stage(o) = "approved" /\ Stage(o)' = "sent"
      BY <1>1, <2>1, <2>3, <3>1, <3>3, StageIs, StageIs2
    <3>5. Decision!Send(o)  BY <1>0, <2>1, <3>4, OneTurn DEF Decision!Send
    <3> QED BY <1>0, <3>5 DEF Step, Decision!Next
  <2> QED BY <2>2, <2>3
<1> QED BY <1>1, <1>2, <1>3

\* What is recorded of the broker's answer is no decision.
LEMMA RecordSteps ==
    ASSUME Center, NEW r \in Requests, Record(r)
    PROVE  Step
<1> DEFINE o == req[r].order
<1>0. TypeOK /\ o \in Orders  BY DEF Center, Typed, Ordered, Record
<1>1. UNCHANGED <<sent, approvals, rejections, overlapped>>  BY DEF Record, history
<1>2. \A p \in Orders : rows'[p].status = rows[p].status
  <2>1. CASE rows' = [rows EXCEPT ![o] = Recorded(rows[o], req[r].seen, req[r].answer)]
    <3>1. Recorded(rows[o], req[r].seen, req[r].answer).status = rows[o].status
      <4>1. rows[o] \in RowType  BY <1>0 DEF TypeOK
      <4> QED BY <4>1 DEF Recorded, RowType
    <3> QED BY <1>0, <2>1, <3>1 DEF TypeOK
  <2>2. CASE rows' = rows  BY <2>2
  <2> QED BY <2>1, <2>2 DEF Record
<1>3. \A p \in Orders : Stage(p)' = Stage(p)  BY <1>1, <1>2, StageKept
<1>4. Stages' = Stages  BY <1>3 DEF Stages
<1> QED BY <1>4 DEF Step

\* Every step is one of the decision or is not seen.
LEMMA NextSteps == Center /\ [Next]_vars => Step
<1> SUFFICES ASSUME Center, [Next]_vars PROVE Step  OBVIOUS
<1>1. ASSUME NEW r \in Requests, NextOrder(r) PROVE Step
  <2>1. PICK o \in req[r].todo :
          Begin(r, o, "approve", req[r].todo \ {o}) \/ UNCHANGED <<rows, sent, history, faults>>
    BY <1>1 DEF NextOrder
  <2>2. req[r].todo \in SUBSET Orders /\ o \in Orders  BY DEF Center, Typed, TypeOK, RequestType
  <2>3. CASE Begin(r, o, "approve", req[r].todo \ {o})  BY <2>2, <2>3, BeginSteps
  <2>4. CASE UNCHANGED <<rows, sent, history, faults>>  BY <2>4, Unseen DEF history
  <2> QED BY <2>1, <2>3, <2>4
<1>2. ASSUME NEW r \in Requests, NEW o \in Orders, Approve(r, o) \/ Reject(r, o) PROVE Step
  BY <1>2, BeginSteps DEF Approve, Reject
<1>3. ASSUME NEW r \in Requests, ApproveAll(r) \/ Reload(r) \/ Execute(r) PROVE Step
  BY <1>3, Unseen DEF ApproveAll, Reload, Execute, history
<1>4. CASE Restart \/ UNCHANGED vars  BY <1>4, Unseen DEF Restart, vars, history
<1> QED BY <1>1, <1>2, <1>3, <1>4, QueueSteps, DecisionSteps, DeleteSteps, PlaceSteps, RecordSteps DEF Next, Working

\* The center keeps what semi-automatic trading promises: an order is decided
\* once and sent once, after its approval and never after its rejection, unless
\* two requests have taken it up at the same time.
THEOREM CenterImplementsDecision == Spec => ImplementsDecision
<1>1. Init => Decision!Init
  <2> SUFFICES ASSUME Init PROVE Decision!Init  OBVIOUS
  <2>1. \A o \in Orders : Stage(o) = "none"  BY StageIs DEF Init, NoRow, Row
  <2> QED BY <2>1 DEF Decision!Init
<1>2. Center /\ [Next]_vars => [Decision!Next]_[o \in Orders |-> Stage(o)]
  BY NextSteps DEF Step, Stages
<1> QED BY <1>1, <1>2, CenterInvariant, PTL DEF Spec, ImplementsDecision, Decision!Spec
===============================================================================
