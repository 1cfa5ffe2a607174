------------------------ MODULE SandboxLedgerProofs ------------------------
(***************************************************************************)
(* Proofs about SandboxLedger for all products, quantities, prices,        *)
(* leverages, capitals and numbers of orders.                              *)
(*                                                                         *)
(* Type correctness is inductive by itself; it carries the facts that make *)
(* the divisions of the code harmless (a share of a margin or a cost never *)
(* exceeds it).  Given the types, conservation of cash and clean closed    *)
(* rows are each inductive; the books of a row need closed rows to be      *)
(* clean besides, since a reopened row starts from what was left in it.    *)
(* StepKinds sorts the calls into five kinds, and each proof goes through  *)
(* those.                                                                  *)
(***************************************************************************)
EXTENDS SandboxLedger, TLAPS

-----------------------------------------------------------------------------
(* Arithmetic, one fact at a time for the SMT solver.                      *)

\* A quotient of naturals is a natural number.
LEMMA QuotientIsNat ==
    ASSUME NEW a \in Nat, NEW b \in Nat \ {0}
    PROVE  a \div b \in Nat
  OBVIOUS

\* A product of naturals is a natural number.
LEMMA ProductIsNat ==
    ASSUME NEW a \in Nat, NEW b \in Nat
    PROVE  a * b \in Nat
  OBVIOUS

\* A product of integers is an integer.
LEMMA ProductIsInt ==
    ASSUME NEW a \in Int, NEW b \in Int
    PROVE  a * b \in Int
  OBVIOUS

\* A share of an amount is never negative.
LEMMA ShareIsNat ==
    ASSUME NEW amount \in Nat, NEW part \in Nat, NEW whole \in Nat \ {0}
    PROVE  Share(amount, part, whole) \in Nat
  BY ProductIsNat, QuotientIsNat DEF Share

\* The whole share is the amount: a full closure leaves no rounding.
LEMMA ShareOfAll ==
    ASSUME NEW amount \in Nat, NEW whole \in Nat \ {0}
    PROVE  Share(amount, whole, whole) = amount
  BY DEF Share

\* Division keeps an upper bound that is a multiple of the divisor.
LEMMA QuotientIsMonotone ==
    ASSUME NEW a \in Nat, NEW b \in Nat, NEW c \in Nat \ {0}, a <= b * c
    PROVE  a \div c <= b
  OBVIOUS

\* Multiplication by a natural number keeps the order.
LEMMA ProductIsMonotone ==
    ASSUME NEW a \in Nat, NEW b \in Nat, NEW c \in Nat, b <= c
    PROVE  a * b <= a * c
  OBVIOUS

\* A part of the whole gets at most the amount.
LEMMA ShareIsAtMostAll ==
    ASSUME NEW amount \in Nat, NEW part \in Nat, NEW whole \in Nat \ {0}, part <= whole
    PROVE  Share(amount, part, whole) <= amount
  BY ProductIsMonotone, QuotientIsMonotone, ProductIsNat DEF Share

\* A sign moves out of a product.
LEMMA ProductOfNegation ==
    ASSUME NEW a \in Int, NEW b \in Int
    PROVE  (-a) * b = -(a * b)
  OBVIOUS

\* Products distribute over sums and differences.
LEMMA ProductOfSum ==
    ASSUME NEW a \in Int, NEW b \in Int, NEW c \in Int
    PROVE  /\ (a + b) * c = a * c + b * c
           /\ (a - b) * c = a * c - b * c
  OBVIOUS

-----------------------------------------------------------------------------
(* Types of the operators the steps are built from.                        *)

USE LedgerAssumption DEF Actions, PriceTypes

\* calculate_margin_required never returns a negative margin.
LEMMA MarginIsNat ==
    ASSUME NEW r \in Request, NEW quantity \in Nat, NEW price \in Nat
    PROVE  MarginRequired(r, quantity, price) \in Nat
  <1>1. Leverage[<<r.product, r.action>>] \in Nat \ {0}
    BY DEF Request
  <1>2. quantity * price \in Nat
    BY ProductIsNat
  <1>. QED  BY <1>1, <1>2, QuotientIsNat DEF MarginRequired

\* What an opposing order takes out of a position is part of it.
LEMMA ClosedParts ==
    ASSUME NEW pos \in Position, NEW r \in Request, Opposes(pos, r)
    PROVE  /\ Abs(pos.quantity) \in Nat \ {0}
           /\ ClosedQuantity(pos, r) \in Nat
           /\ ClosedQuantity(pos, r) <= Abs(pos.quantity)
           /\ ClosedCost(pos, r) \in Nat
           /\ ClosedCost(pos, r) <= pos.cost
           /\ ReleasedMargin(pos, r) \in Nat
           /\ ReleasedMargin(pos, r) <= pos.margin
           /\ r.quantity >= Abs(pos.quantity) =>
                 /\ ClosedQuantity(pos, r) = Abs(pos.quantity)
                 /\ ClosedCost(pos, r) = pos.cost
                 /\ ReleasedMargin(pos, r) = pos.margin
  <1>1. Abs(pos.quantity) \in Nat \ {0}
    BY DEF Opposes, Position, Abs
  <1>2. /\ ClosedQuantity(pos, r) \in Nat
        /\ ClosedQuantity(pos, r) <= Abs(pos.quantity)
        /\ r.quantity >= Abs(pos.quantity) =>
              ClosedQuantity(pos, r) = Abs(pos.quantity)
    BY <1>1 DEF ClosedQuantity, Least, Request
  <1>3. pos.cost \in Nat /\ pos.margin \in Nat
    BY DEF Position
  <1>4. /\ ClosedCost(pos, r) \in Nat
        /\ ClosedCost(pos, r) <= pos.cost
        /\ r.quantity >= Abs(pos.quantity) => ClosedCost(pos, r) = pos.cost
    BY <1>1, <1>2, <1>3, ShareIsNat, ShareIsAtMostAll, ShareOfAll DEF ClosedCost
  <1>5. /\ ReleasedMargin(pos, r) \in Nat
        /\ ReleasedMargin(pos, r) <= pos.margin
        /\ r.quantity >= Abs(pos.quantity) => ReleasedMargin(pos, r) = pos.margin
    BY <1>1, <1>2, <1>3, ShareIsNat, ShareIsAtMostAll, ShareOfAll DEF ReleasedMargin
  <1>. QED  BY <1>1, <1>2, <1>4, <1>5

\* The profit of a closure is a number (of either sign).
LEMMA PnlIsInt ==
    ASSUME NEW pos \in Position, NEW r \in Request, NEW price \in Nat, Opposes(pos, r)
    PROVE  RealizedPnl(pos, r, price) \in Int
  <1>1. ClosedQuantity(pos, r) * price \in Nat /\ ClosedCost(pos, r) \in Nat
    BY ClosedParts, ProductIsNat
  <1>. QED  BY <1>1 DEF RealizedPnl

\* _update_position leaves a well-formed row, whichever branch it takes:
\* neither cost nor margin of the row becomes negative.
LEMMA UpdatedPositionType ==
    ASSUME NEW pos \in Position, NEW order \in Order, NEW price \in Nat
    PROVE  UpdatePosition(pos, order, price) \in Position
  <1>. DEFINE r == order.request
  <1>1. /\ r \in Request
        /\ r.quantity \in Nat \ {0}
        /\ order.margin \in Nat
        /\ Signed(r) \in Int
        /\ r.quantity * price \in Nat
    BY ProductIsNat DEF Order, Request, Signed
  <1>2. /\ pos.quantity \in Int
        /\ pos.cost \in Nat
        /\ pos.margin \in Nat
        /\ pos.realized \in Int
        /\ Abs(pos.quantity) \in Nat
    BY DEF Position, Abs
  <1>3. Reopened(pos, order, price) \in Position
    <2>1. (IF pos.row = "absent" THEN "today" ELSE pos.row) \in {"absent", "today", "earlier"}
      BY DEF Position
    <2>. QED  BY <2>1, <1>1, <1>2 DEF Reopened, Position
  <1>4. Enlarged(pos, order, price) \in Position
    BY <1>1, <1>2 DEF Enlarged, Position
  <1>5. CASE Opposes(pos, r) /\ r.quantity <= Abs(pos.quantity)
    <2>1. Reduced(pos, order, price) \in Position
      BY <1>1, <1>2, <1>5, ClosedParts, PnlIsInt DEF Reduced, Position
    <2>. QED  BY <2>1, <1>1, <1>2, <1>3, <1>5 DEF UpdatePosition
  <1>6. CASE Opposes(pos, r) /\ r.quantity > Abs(pos.quantity)
    <2>. DEFINE excess == r.quantity - Abs(pos.quantity)
    <2>1. excess \in Nat
      BY <1>1, <1>2, <1>6
    <2>2. excess * price \in Nat /\ Share(order.margin, excess, r.quantity) \in Nat
      BY <2>1, <1>1, ProductIsNat, ShareIsNat
    <2>3. RealizedPnl(pos, r, price) \in Int
      BY <1>1, <1>6, PnlIsInt
    <2>4. (IF r.action = "BUY" THEN excess ELSE -excess) \in Int
      BY <2>1
    <2>5. pos.realized + RealizedPnl(pos, r, price) \in Int
      BY <2>3, <1>2
    <2>6. Reversed(pos, order, price) \in Position
      BY <2>1, <2>2, <2>4, <2>5 DEF Reversed, Position
    <2>. QED  BY <2>6, <1>1, <1>2, <1>3, <1>6 DEF UpdatePosition
  <1>7. CASE ~Opposes(pos, r)
    BY <1>3, <1>4, <1>7 DEF UpdatePosition
  <1>. QED  BY <1>1, <1>2, <1>5, <1>6, <1>7

\* The margin of the open rows can be summed.
LEMMA PositionMarginIsInt ==
    ASSUME NEW ps \in [Products -> Position]
    PROVE  PositionMargin(ps) \in Int
  BY DEF PositionMargin, OpenMargin, Position

\* Releasing margin with a profit moves available + used by the profit.
LEMMA SettledFunds ==
    ASSUME NEW f \in Funds, NEW pos \in Position, NEW order \in Order, NEW price \in Nat
    PROVE  /\ SettleFunds(f, pos, order, price) \in Funds
           /\ SettleFunds(f, pos, order, price).available
                 + SettleFunds(f, pos, order, price).used
                 - SettleFunds(f, pos, order, price).realized
              = f.available + f.used - f.realized
  <1>1. order.request \in Request
    BY DEF Order
  <1>2. CASE Opposes(pos, order.request)
    <2>. DEFINE amount == ReleasedMargin(pos, order.request)
                pnl    == RealizedPnl(pos, order.request, price)
    <2>1. amount \in Int /\ pnl \in Int
      BY <1>1, <1>2, ClosedParts, PnlIsInt
    <2>2. f.available \in Int /\ f.used \in Int /\ f.realized \in Int
      BY DEF Funds
    <2>. HIDE DEF amount, pnl
    <2>3. /\ ReleaseMargin(f, amount, pnl) \in Funds
          /\ ReleaseMargin(f, amount, pnl).available
               = f.available + amount + pnl
          /\ ReleaseMargin(f, amount, pnl).used = f.used - amount
          /\ ReleaseMargin(f, amount, pnl).realized = f.realized + pnl
      BY <2>1, <2>2 DEF ReleaseMargin, Funds
    <2>4. /\ ReleaseMargin(f, amount, pnl) \in Funds
          /\ ReleaseMargin(f, amount, pnl).available
               + ReleaseMargin(f, amount, pnl).used
               - ReleaseMargin(f, amount, pnl).realized
             = f.available + f.used - f.realized
      BY <2>1, <2>2, <2>3
    <2>5. SettleFunds(f, pos, order, price) \in {f, ReleaseMargin(f, amount, pnl)}
      BY DEF SettleFunds, amount, pnl
    <2>. QED  BY <2>4, <2>5
  <1>3. CASE ~Opposes(pos, order.request)
    BY <1>3 DEF SettleFunds
  <1>. QED  BY <1>2, <1>3

\* reconcile_margin moves money between available and used only.
LEMMA ReconciledFunds ==
    ASSUME NEW f \in Funds, NEW ps \in [Products -> Position]
    PROVE  /\ ReconcileMargin(f, ps) \in Funds
           /\ ReconcileMargin(f, ps).used = PositionMargin(ps)
           /\ ReconcileMargin(f, ps).realized = f.realized
           /\ ReconcileMargin(f, ps).available + ReconcileMargin(f, ps).used
                 = f.available + f.used
  <1>. DEFINE m == PositionMargin(ps)
  <1>1. m \in Int
    BY PositionMarginIsInt
  <1>2. f.available \in Int /\ f.used \in Int /\ f.realized \in Int
    BY DEF Funds
  <1>. HIDE DEF m
  <1>3. ReconcileMargin(f, ps) = [available |-> f.available + (f.used - m),
                                    used      |-> m,
                                    realized  |-> f.realized]
    BY DEF ReconcileMargin, m
  <1>4. /\ ReconcileMargin(f, ps) \in Funds
        /\ ReconcileMargin(f, ps).available = f.available + (f.used - m)
        /\ ReconcileMargin(f, ps).used = m
        /\ ReconcileMargin(f, ps).realized = f.realized
    BY <1>1, <1>2, <1>3 DEF Funds
  <1>. QED  BY <1>1, <1>2, <1>4 DEF m

-----------------------------------------------------------------------------
(* Every step is a fill, a booking, a settlement, a reset or a tick.       *)

\* The row of o trades: it was new or open, and the funds row f0 the trade
\* starts from has at most had margin blocked.
Fills(o, order, f0, price) ==
    /\ orders[o].status \in {"none", "open"}
    /\ f0.available + f0.used = funds.available + funds.used
    /\ f0.realized = funds.realized
    /\ ExecuteOrder(o, order, f0, price)

\* The row of o is written without a trade, and margin moves at most between
\* available and used.
Books(o, row, f) ==
    /\ orders[o].status \in {"none", "open"}
    /\ row.status # "complete"
    /\ f.available + f.used = funds.available + funds.used
    /\ f.realized = funds.realized
    /\ orders' = [orders EXCEPT ![o] = row]
    /\ funds' = f
    /\ UNCHANGED <<positions, holding, session, invested, cashflow>>

SomeFill == \E o \in OrderIds, order \in Order, f0 \in Funds, price \in Nat :
                Fills(o, order, f0, price)

SomeBooking == \E o \in OrderIds, row \in Order, f \in Funds : Books(o, row, f)

Tick == SquareOffTime \/ Midnight \/ MarketOpening

\* What TypeOK says of single rows.
LEMMA RowTypes ==
    ASSUME TypeOK
    PROVE  /\ funds \in Funds
           /\ \A p \in Products : positions[p] \in Position
           /\ \A o \in OrderIds :
                 orders[o].status \in {"open", "complete", "cancelled", "rejected"}
                     => orders[o] \in Order
           /\ \A o \in OrderIds : orders[o].status \in Statuses \cup {"none"}
  BY DEF TypeOK, NoOrder, Order, Statuses

\* Blocking and releasing margin without profit keeps available + used.
LEMMA MovedMargin ==
    ASSUME NEW f \in Funds, NEW amount \in Int
    PROVE  /\ BlockMargin(f, amount) \in Funds
           /\ BlockMargin(f, amount).available + BlockMargin(f, amount).used
                 = f.available + f.used
           /\ BlockMargin(f, amount).realized = f.realized
           /\ ReleaseMargin(f, amount, 0) \in Funds
           /\ ReleaseMargin(f, amount, 0).available + ReleaseMargin(f, amount, 0).used
                 = f.available + f.used
           /\ ReleaseMargin(f, amount, 0).realized = f.realized
  BY DEF BlockMargin, ReleaseMargin, Funds

\* place_order never computes a negative margin, also for an order that
\* reduces or reverses a position.
LEMMA MarginForOrderIsNat ==
    ASSUME TypeOK, NEW r \in Request, NEW basis \in Nat
    PROVE  MarginForOrder(r, basis) \in Nat
  <1>. DEFINE held == Abs(positions[r.product].quantity)
  <1>0. positions[r.product] \in Position
    BY RowTypes DEF Request
  <1>1. r.quantity \in Nat /\ held \in Nat
    BY <1>0 DEF Request, Position, Abs
  <1>2. r.quantity > held => r.quantity - held \in Nat
    BY <1>1
  <1>3. MarginRequired(r, r.quantity, basis) \in Nat
    BY <1>1, MarginIsNat
  <1>4. r.quantity > held => MarginRequired(r, r.quantity - held, basis) \in Nat
    BY <1>2, MarginIsNat
  <1>. QED  BY <1>1, <1>3, <1>4 DEF MarginForOrder

\* A margin is computed from a price or from nothing.
LEMMA BasisIsPrice ==
    ASSUME NEW r \in Request, NEW quote \in Quotes, NEW basis \in BasisPrices(r, quote)
    PROVE  basis \in Prices \cup {0}
  BY DEF Request, Quotes, BasisPrices

\* place_order stores a well-formed row.
LEMMA StoredOrderType ==
    ASSUME NEW r \in Request, NEW basis \in Prices \cup {0},
           NEW margin \in Nat, NEW status \in Statuses
    PROVE  /\ StoredOrder(r, basis, margin, status) \in Order
           /\ StoredOrder(r, basis, margin, status).status = status
  <1>1. [r EXCEPT !.price = basis] \in Request
    BY DEF Request
  <1>. QED  BY <1>1 DEF StoredOrder, Order

\* The funds row after place_order blocked (or did not block) its margin.
LEMMA BlockedFunds ==
    ASSUME TypeOK, NEW r \in Request, NEW margin \in Nat
    PROVE  /\ FundsAfterBlock(r, margin) \in Funds
           /\ FundsAfterBlock(r, margin).available + FundsAfterBlock(r, margin).used
                 = funds.available + funds.used
           /\ FundsAfterBlock(r, margin).realized = funds.realized
  <1>1. FundsAfterBlock(r, margin) \in {funds, BlockMargin(funds, margin)}
    BY DEF FundsAfterBlock
  <1>2. funds \in Funds /\ margin \in Int
    BY RowTypes
  <1>3. /\ BlockMargin(funds, margin) \in Funds
        /\ BlockMargin(funds, margin).available + BlockMargin(funds, margin).used
              = funds.available + funds.used
        /\ BlockMargin(funds, margin).realized = funds.realized
    BY <1>2, MovedMargin
  <1>. QED  BY <1>1, <1>2, <1>3

\* place_order books a row, or fills one.
LEMMA PlaceOrderKind ==
    ASSUME TypeOK, NEW o \in OrderIds, NEW r \in Request, NEW quote \in Quotes,
           PlaceOrder(o, r, quote)
    PROVE  SomeFill \/ SomeBooking
  <1>1. CASE PlaceRejectedOrder(o, r, quote)
    <2>1. PICK basis \in BasisPrices(r, quote) :
             orders' = [orders EXCEPT ![o] = StoredOrder(r, basis, 0, "rejected")]
      BY <1>1 DEF PlaceRejectedOrder
    <2>2. Books(o, StoredOrder(r, basis, 0, "rejected"), funds)
      BY <1>1, <2>1, BasisIsPrice, StoredOrderType, RowTypes
      DEF PlaceRejectedOrder, Books, Statuses
    <2>. QED  BY <2>2, BasisIsPrice, StoredOrderType, RowTypes DEF SomeBooking, Statuses
  <1>2. CASE PlaceRestingOrder(o, r, quote)
    <2>1. PICK basis \in BasisPrices(r, quote) :
             LET margin == MarginForOrder(r, basis)
             IN  /\ funds'  = FundsAfterBlock(r, margin)
                 /\ orders' = [orders EXCEPT ![o] = StoredOrder(r, basis, margin, "open")]
      BY <1>2 DEF PlaceRestingOrder
    <2>. DEFINE margin == MarginForOrder(r, basis)
                row    == StoredOrder(r, basis, margin, "open")
                f      == FundsAfterBlock(r, margin)
    <2>2. basis \in Prices \cup {0} /\ margin \in Nat
      BY BasisIsPrice, MarginForOrderIsNat
    <2>3. row \in Order /\ row.status = "open"
      BY <2>2, StoredOrderType DEF Statuses
    <2>4. f \in Funds /\ f.available + f.used = funds.available + funds.used
                     /\ f.realized = funds.realized
      BY <2>2, BlockedFunds
    <2>5. Books(o, row, f)
      BY <1>2, <2>1, <2>3, <2>4 DEF PlaceRestingOrder, Books
    <2>. QED  BY <2>3, <2>4, <2>5 DEF SomeBooking
  <1>3. CASE PlaceAndExecuteOrder(o, r, quote)
    <2>1. PICK basis \in BasisPrices(r, quote), price \in PlacementFillPrices(r, quote) :
             LET margin == MarginForOrder(r, basis)
             IN  ExecuteOrder(o, StoredOrder(r, basis, margin, "open"),
                              FundsAfterBlock(r, margin), price)
      BY <1>3 DEF PlaceAndExecuteOrder
    <2>. DEFINE margin == MarginForOrder(r, basis)
                row    == StoredOrder(r, basis, margin, "open")
                f      == FundsAfterBlock(r, margin)
    <2>2. basis \in Prices \cup {0} /\ margin \in Nat
      BY BasisIsPrice, MarginForOrderIsNat
    <2>6. price \in Nat
      BY DEF PlacementFillPrices, Quotes
    <2>3. row \in Order
      BY <2>2, StoredOrderType DEF Statuses
    <2>4. f \in Funds /\ f.available + f.used = funds.available + funds.used
                     /\ f.realized = funds.realized
      BY <2>2, BlockedFunds
    <2>5. Fills(o, row, f, price)
      BY <1>3, <2>1, <2>4 DEF PlaceAndExecuteOrder, Fills
    <2>. QED  BY <2>3, <2>4, <2>5, <2>6 DEF SomeFill
  <1>. QED  BY <1>1, <1>2, <1>3 DEF PlaceOrder


\* close_position sends a well-formed MARKET order.
LEMMA CloseRequestType ==
    ASSUME TypeOK, NEW p \in Products, positions[p].quantity # 0
    PROVE  CloseRequest(p) \in Request
  <1>1. positions[p] \in Position
    BY RowTypes
  <1>2. Abs(positions[p].quantity) \in Nat \ {0}
    BY <1>1 DEF Position, Abs
  <1>. QED  BY <1>2 DEF CloseRequest, Request

\* modify_order leaves a well-formed order.
LEMMA ModifiedRequestType ==
    ASSUME NEW r \in Request, NEW q \in Nat \ {0},
           NEW price \in Quotes, NEW trigger \in Quotes
    PROVE  ModifiedRequest(r, q, price, trigger) \in Request
  BY DEF ModifiedRequest, Request, Quotes

\* cancel_order never gives back a negative margin.
LEMMA MarginGivenBackIsNat ==
    ASSUME NEW order \in Order, NEW quote \in Quotes
    PROVE  MarginGivenBack(order, quote) \in Nat
  <1>. DEFINE price == IF order.request.price # 0 THEN order.request.price ELSE quote
  <1>0. order.request \in Request /\ order.margin \in Nat
    BY DEF Order
  <1>1. order.request.quantity \in Nat /\ price \in Nat
    <2>1. order.request.quantity \in Nat /\ order.request.price \in Prices \cup {0}
      BY <1>0 DEF Request
    <2>2. price \in Prices \cup {0}
      BY <2>1 DEF Quotes
    <2>. HIDE DEF price
    <2>. QED  BY <2>1, <2>2
  <1>2. MarginRequired(order.request, order.request.quantity, price) \in Nat
    BY <1>0, <1>1, MarginIsNat
  <1>. QED  BY <1>0, <1>2 DEF MarginGivenBack

\* Every step of the ledger is of one of five kinds, so an argument about
\* the steps has five cases however many calls there are.
LEMMA StepKinds ==
    ASSUME TypeOK, Next
    PROVE  SomeFill \/ SomeBooking \/ ProcessT1Settlement \/ ResetFunds \/ Tick
  <1>1. CASE \E o \in OrderIds, r \in Requests, quote \in Quotes : PlaceOrder(o, r, quote)
    <2>1. PICK o \in OrderIds, r \in Requests, quote \in Quotes : PlaceOrder(o, r, quote)
      BY <1>1
    <2>2. r \in Request
      BY DEF Requests, Request
    <2>. QED  BY <2>1, <2>2, PlaceOrderKind
  <1>2. CASE \E o \in OrderIds, p \in Products, quote \in Quotes : ClosePosition(o, p, quote)
    BY <1>2, CloseRequestType, PlaceOrderKind DEF ClosePosition
  <1>3. CASE \E o \in OrderIds, price, trigger \in Quotes :
                \E q \in Quantities \cup {orders[o].request.quantity} :
                   ModifyOrder(o, q, price, trigger)
    <2>1. PICK o \in OrderIds, price \in Quotes, trigger \in Quotes :
              \E q \in Quantities \cup {orders[o].request.quantity} :
                 ModifyOrder(o, q, price, trigger)
      BY <1>3
    <2>2. PICK q \in Quantities \cup {orders[o].request.quantity} :
              ModifyOrder(o, q, price, trigger)
      BY <2>1
    <2>3. orders[o] \in Order
      BY <2>2, RowTypes DEF ModifyOrder
    <2>4. q \in Nat \ {0} /\ orders[o].request \in Request
      BY <2>3 DEF Order, Request
    <2>. DEFINE row == [request |-> ModifiedRequest(orders[o].request, q, price, trigger),
                        status  |-> "open",
                        margin  |-> orders[o].margin]
    <2>5. row \in Order
      BY <2>3, <2>4, ModifiedRequestType DEF Order, Statuses
    <2>6. Books(o, row, funds)
      BY <2>2 DEF ModifyOrder, Books
    <2>. QED  BY <2>5, <2>6, RowTypes DEF SomeBooking
  <1>4. CASE \E o \in OrderIds, quote \in Quotes : CancelOrder(o, quote)
    <2>1. PICK o \in OrderIds, quote \in Quotes : CancelOrder(o, quote)
      BY <1>4
    <2>2. orders[o] \in Order
      BY <2>1, RowTypes DEF CancelOrder
    <2>. DEFINE row == [orders[o] EXCEPT !.status = "cancelled"]
                f   == ReleaseMargin(funds, MarginGivenBack(orders[o], quote), 0)
    <2>3. row \in Order /\ row.status = "cancelled"
      BY <2>2 DEF Order, Statuses
    <2>4. orders' = [orders EXCEPT ![o] = row]
      BY <2>1 DEF CancelOrder
    <2>5. f \in Funds /\ f.available + f.used = funds.available + funds.used
                     /\ f.realized = funds.realized
      <3>1. MarginGivenBack(orders[o], quote) \in Int /\ funds \in Funds
        BY <2>2, MarginGivenBackIsNat, RowTypes
      <3>. QED  BY <3>1, MovedMargin
    <2>6. Books(o, row, f)
      BY <2>1, <2>3, <2>4, <2>5 DEF CancelOrder, Books
    <2>. QED  BY <2>3, <2>5, <2>6 DEF SomeBooking
  <1>5. CASE \E o \in OrderIds, ltp \in Prices : ProcessOrder(o, ltp)
    <2>1. PICK o \in OrderIds, ltp \in Prices : ProcessOrder(o, ltp)
      BY <1>5
    <2>2. orders[o] \in Order
      BY <2>1, RowTypes DEF ProcessOrder
    <2>3. PICK price \in EngineFillPrices(orders[o].request, ltp) :
              ExecuteOrder(o, orders[o], funds, price)
      BY <2>1 DEF ProcessOrder
    <2>4. price \in Nat
      BY <2>2 DEF EngineFillPrices, Order, Request
    <2>5. Fills(o, orders[o], funds, price)
      BY <2>1, <2>3 DEF ProcessOrder, Fills
    <2>. QED  BY <2>2, <2>4, <2>5, RowTypes DEF SomeFill
  <1>6. CASE SquareOffTime \/ Midnight \/ MarketOpening
    BY <1>6 DEF Tick
  <1>. QED  BY <1>1, <1>2, <1>3, <1>4, <1>5, <1>6 DEF Next

-----------------------------------------------------------------------------
(* Type correctness.                                                       *)

\* A fill keeps the types.
LEMMA FillKeepsType ==
    ASSUME TypeOK, SomeFill
    PROVE  TypeOK'
  <1>1. PICK o \in OrderIds, order \in Order, f0 \in Funds, price \in Nat :
            Fills(o, order, f0, price)
    BY DEF SomeFill
  <1>. DEFINE p   == order.request.product
              pos == positions[p]
              ps  == [positions EXCEPT ![p] = UpdatePosition(pos, order, price)]
  <1>2. order.request \in Request /\ p \in Products /\ pos \in Position
    BY RowTypes DEF Order, Request
  <1>3. [order EXCEPT !.status = "complete"] \in Order
    BY DEF Order, Statuses
  <1>4. orders' \in [OrderIds -> Order \cup {NoOrder}]
    BY <1>1, <1>3 DEF Fills, ExecuteOrder, TypeOK
  <1>5. ps \in [Products -> Position]
    BY <1>2, UpdatedPositionType DEF TypeOK
  <1>6. positions' = ps
    BY <1>1 DEF Fills, ExecuteOrder
  <1>7. funds' \in Funds
    <2>1. SettleFunds(f0, pos, order, price) \in Funds
      BY <1>2, SettledFunds
    <2>2. ReconcileMargin(SettleFunds(f0, pos, order, price), ps) \in Funds
      BY <1>5, <2>1, ReconciledFunds
    <2>. QED  BY <1>1, <2>2 DEF Fills, ExecuteOrder
  <1>8. cashflow' \in [Products -> Int]
    <2>1. Signed(order.request) \in Int
      BY <1>2 DEF Signed, Request
    <2>2. cashflow[p] - Signed(order.request) * price \in Int
      <3>1. cashflow[p] \in Int
        BY <1>2 DEF TypeOK
      <3>2. Signed(order.request) * price \in Int
        BY <2>1, ProductIsInt
      <3>. QED  BY <3>1, <3>2
    <2>3. cashflow' = [cashflow EXCEPT ![p] = cashflow[p] - Signed(order.request) * price]
      BY <1>1 DEF Fills, ExecuteOrder
    <2>. QED  BY <1>2, <2>2, <2>3 DEF TypeOK
  <1>9. UNCHANGED <<holding, session, invested>>
    BY <1>1 DEF Fills, ExecuteOrder
  <1>. QED  BY <1>4, <1>5, <1>6, <1>7, <1>8, <1>9 DEF TypeOK

\* Placing, modifying and cancelling keep the types.
LEMMA BookingKeepsType ==
    ASSUME TypeOK, SomeBooking
    PROVE  TypeOK'
  BY DEF SomeBooking, Books, TypeOK

\* T+1 settlement keeps the types: a holding never has a negative cost.
LEMMA SettlementKeepsType ==
    ASSUME TypeOK, ProcessT1Settlement
    PROVE  TypeOK'
  <1>. DEFINE pos == positions["CNC"]
  <1>1. /\ pos \in Position
        /\ pos.quantity \in Int
        /\ pos.cost \in Nat
        /\ holding.quantity \in Int
        /\ holding.cost \in Nat
        /\ invested \in Int
        /\ funds \in Funds
    BY RowTypes DEF ProcessT1Settlement, Position, TypeOK
  <1>2. /\ holding' \in [quantity : Int, cost : Nat]
        /\ funds' \in Funds
        /\ invested' \in Int
    <2>1. CASE pos.quantity = 0
      <3>1. UNCHANGED <<holding, funds, invested>>
        BY <2>1 DEF ProcessT1Settlement
      <3>. QED  BY <3>1 DEF TypeOK
    <2>2. CASE pos.quantity # 0 /\ SettleIntoHolding(pos)
      <3>1. /\ Abs(holding.quantity + pos.quantity) \in Nat
            /\ Abs(holding.quantity) + Abs(pos.quantity) \in Nat \ {0}
        BY <2>2, <1>1 DEF Abs
      <3>2. Share(holding.cost + pos.cost, Abs(holding.quantity + pos.quantity),
                  Abs(holding.quantity) + Abs(pos.quantity)) \in Nat
        <4>1. holding.cost + pos.cost \in Nat
          BY <1>1
        <4>. QED  BY <3>1, <4>1, ShareIsNat
      <3>6. holding.quantity + pos.quantity \in Int
        BY <1>1
      <3>7. holding' = [quantity |-> holding.quantity + pos.quantity,
                        cost |-> Share(holding.cost + pos.cost,
                                       Abs(holding.quantity + pos.quantity),
                                       Abs(holding.quantity) + Abs(pos.quantity))]
        BY <2>2 DEF SettleIntoHolding
      <3>3. holding' \in [quantity : Int, cost : Nat]
        BY <3>2, <3>6, <3>7
      <3>4. TransferMarginToHoldings(funds, pos.cost) \in Funds
        BY <1>1 DEF TransferMarginToHoldings, Funds
      <3>5. invested' \in Int
        BY <2>2, <1>1 DEF SettleIntoHolding
      <3>. QED  BY <2>2, <3>3, <3>4, <3>5 DEF SettleIntoHolding
    <2>3. CASE pos.quantity # 0 /\ SettleSaleFromHolding(pos)
      <3>1. /\ Abs(holding.quantity + pos.quantity) \in Nat
            /\ Abs(holding.quantity) \in Nat \ {0}
        BY <2>3, <1>1 DEF Abs, SettleSaleFromHolding
      <3>2. Share(holding.cost, Abs(holding.quantity + pos.quantity),
                  Abs(holding.quantity)) \in Nat
        BY <3>1, <1>1, ShareIsNat
      <3>3. holding' \in [quantity : Int, cost : Nat]
        BY <2>3, <3>2, <1>1 DEF SettleSaleFromHolding
      <3>4. CreditSaleProceeds(funds, pos.cost) \in Funds
        BY <1>1 DEF CreditSaleProceeds, Funds
      <3>5. invested' \in Int
        BY <2>3, <1>1 DEF SettleSaleFromHolding
      <3>. QED  BY <2>3, <3>3, <3>4, <3>5 DEF SettleSaleFromHolding
    <2>. QED  BY <2>1, <2>2, <2>3 DEF ProcessT1Settlement
  <1>3. positions' \in [Products -> Position]
    BY DEF ProcessT1Settlement, TypeOK, NoPosition, Position
  <1>. QED  BY <1>2, <1>3 DEF ProcessT1Settlement, TypeOK

\* A reset keeps the types.
LEMMA ResetKeepsType ==
    ASSUME TypeOK, ResetFunds
    PROVE  TypeOK'
  BY DEF ResetFunds, TypeOK, NoPosition, Position, Funds

\* The clock keeps the types.
LEMMA TickKeepsType ==
    ASSUME TypeOK, Tick
    PROVE  TypeOK'
  <1>1. CASE SquareOffTime \/ MarketOpening
    BY <1>1 DEF SquareOffTime, MarketOpening, TypeOK, Sessions
  <1>2. CASE Midnight
    <2>1. \A p \in Products :
              /\ positions[p] \in Position
              /\ [positions[p] EXCEPT !.row = "earlier"] \in Position
      BY RowTypes DEF Position
    <2>2. positions' \in [Products -> Position]
      BY <1>2, <2>1 DEF Midnight
    <2>. QED  BY <1>2, <2>2 DEF Midnight, TypeOK, Sessions
  <1>. QED  BY <1>1, <1>2 DEF Tick

\* The state always has the types the columns promise: in particular neither
\* the margin nor the cost of a position row, nor the margin stored with an
\* order, ever becomes negative, whatever the order of fills, partial closes
\* and reversals.
THEOREM LedgerType == Spec => []TypeOK
  <1>1. Init => TypeOK
    BY DEF Init, TypeOK, NoPosition, Position, Funds, Sessions
  <1>2. TypeOK /\ [Next]_vars => TypeOK'
    <2>1. ASSUME TypeOK, Next PROVE TypeOK'
      BY <2>1, StepKinds, FillKeepsType, BookingKeepsType, SettlementKeepsType,
         ResetKeepsType, TickKeepsType
    <2>2. ASSUME TypeOK, UNCHANGED vars PROVE TypeOK'
      BY <2>2 DEF vars, TypeOK
    <2>. QED  BY <2>1, <2>2
  <1>. QED  BY <1>1, <1>2, PTL DEF Spec

-----------------------------------------------------------------------------
(* Conservation of cash.                                                   *)

\* Every call keeps the cash equation.
LEMMA StepKeepsCash ==
    ASSUME TypeOK, CashConserved, Next
    PROVE  CashConserved'
  <1>1. /\ funds \in Funds /\ funds.available \in Int /\ funds.used \in Int
        /\ funds.realized \in Int /\ invested \in Int /\ Capital \in Int
    BY DEF TypeOK, Funds
  <1>2. CASE SomeFill
    <2>1. PICK o \in OrderIds, order \in Order, f0 \in Funds, price \in Nat :
              Fills(o, order, f0, price)
      BY <1>2 DEF SomeFill
    <2>. DEFINE p   == order.request.product
                pos == positions[p]
                ps  == [positions EXCEPT ![p] = UpdatePosition(pos, order, price)]
                f1  == SettleFunds(f0, pos, order, price)
                f2  == ReconcileMargin(f1, ps)
    <2>2. order.request \in Request /\ p \in Products /\ pos \in Position
      BY RowTypes DEF Order, Request
    <2>3. ps \in [Products -> Position]
      BY <2>2, UpdatedPositionType DEF TypeOK
    <2>4. f1 \in Funds /\ f1.available + f1.used - f1.realized
                            = f0.available + f0.used - f0.realized
      BY <2>2, SettledFunds
    <2>5. /\ f2 \in Funds
          /\ f2.realized = f1.realized
          /\ f2.available + f2.used = f1.available + f1.used
      BY <2>3, <2>4, ReconciledFunds
    <2>6. funds' = f2 /\ invested' = invested
      BY <2>1 DEF Fills, ExecuteOrder
    <2>7. /\ f0.available + f0.used = funds.available + funds.used
          /\ f0.realized = funds.realized
      BY <2>1 DEF Fills
    <2>8. /\ f0.available \in Int /\ f0.used \in Int /\ f0.realized \in Int
          /\ f1.available \in Int /\ f1.used \in Int /\ f1.realized \in Int
          /\ f2.available \in Int /\ f2.used \in Int /\ f2.realized \in Int
      BY <2>4, <2>5 DEF Funds
    <2>. HIDE DEF p, pos, ps, f1, f2
    <2>. QED  BY <1>1, <2>4, <2>5, <2>6, <2>7, <2>8 DEF CashConserved
  <1>3. CASE SomeBooking
    <2>1. PICK o \in OrderIds, row \in Order, f \in Funds : Books(o, row, f)
      BY <1>3 DEF SomeBooking
    <2>. QED  BY <2>1 DEF Books, CashConserved
  <1>4. CASE ProcessT1Settlement
    <2>. DEFINE pos == positions["CNC"]
    <2>1. pos.cost \in Int
      BY <1>4, RowTypes DEF ProcessT1Settlement, Position
    <2>2. CASE UNCHANGED <<holding, funds, invested>>
      BY <2>2 DEF CashConserved
    <2>3. CASE SettleIntoHolding(pos)
      BY <1>1, <2>1, <2>3 DEF SettleIntoHolding, TransferMarginToHoldings, CashConserved, Funds
    <2>4. CASE SettleSaleFromHolding(pos)
      BY <1>1, <2>1, <2>4 DEF SettleSaleFromHolding, CreditSaleProceeds, CashConserved, Funds
    <2>. QED  BY <1>4, <2>2, <2>3, <2>4 DEF ProcessT1Settlement
  <1>5. CASE ResetFunds
    BY <1>1, <1>5 DEF ResetFunds, CashConserved
  <1>6. CASE Tick
    BY <1>6 DEF Tick, SquareOffTime, Midnight, MarketOpening, CashConserved
  <1>. QED  BY <1>2, <1>3, <1>4, <1>5, <1>6, StepKinds

\* No sequence of calls creates or destroys cash: what reconcile_margin moves
\* out of used_margin is exactly what it adds to available_balance, a profit
\* enters the balance once, and a settlement takes cash into the holding.
THEOREM CashIsConserved == Spec => []CashConserved
  <1>1. Init => CashConserved
    BY DEF Init, CashConserved
  <1>2. TypeOK /\ CashConserved /\ [Next]_vars => CashConserved'
    <2>1. ASSUME CashConserved, UNCHANGED vars PROVE CashConserved'
      BY <2>1 DEF vars, CashConserved
    <2>. QED  BY <2>1, StepKeepsCash
  <1>. QED  BY <1>1, <1>2, LedgerType, PTL DEF Spec

-----------------------------------------------------------------------------
(* Closed rows and the realized profit of a row.                           *)

Clean(pos) == pos.quantity = 0 => pos.margin = 0 /\ pos.cost = 0

\* _update_position leaves a row that is open or clean.
LEMMA UpdatedPositionIsClean ==
    ASSUME NEW pos \in Position, NEW order \in Order, NEW price \in Nat
    PROVE  Clean(UpdatePosition(pos, order, price))
  <1>. DEFINE r == order.request
  <1>1. r \in Request /\ r.quantity \in Nat \ {0} /\ r.action \in {"BUY", "SELL"}
    BY DEF Order, Request
  <1>2. pos.quantity \in Int /\ pos.cost \in Nat /\ pos.margin \in Nat
    BY DEF Position
  <1>3. CASE pos.quantity = 0
    <2>1. UpdatePosition(pos, order, price) = Reopened(pos, order, price)
      BY <1>3 DEF UpdatePosition, Opposes
    <2>2. Signed(r) # 0
      BY <1>1 DEF Signed
    <2>. QED  BY <2>1, <2>2 DEF Reopened, Clean
  <1>4. CASE pos.quantity # 0 /\ ~Opposes(pos, r)
    BY <1>1, <1>2, <1>4 DEF UpdatePosition, Enlarged, Opposes, Signed, Clean
  <1>5. CASE Opposes(pos, r) /\ r.quantity <= Abs(pos.quantity)
    <2>1. UpdatePosition(pos, order, price) = Reduced(pos, order, price)
      <3>1. pos.quantity # 0
        BY <1>2, <1>5 DEF Opposes
      <3>2. ~(r.quantity > Abs(pos.quantity))
        BY <1>1, <1>2, <1>5 DEF Abs
      <3>. QED  BY <1>5, <3>1, <3>2 DEF UpdatePosition
    <2>2. pos.quantity + Signed(r) = 0 => r.quantity >= Abs(pos.quantity)
      BY <1>1, <1>2, <1>5 DEF Opposes, Signed, Abs
    <2>3. r.quantity >= Abs(pos.quantity) =>
              ClosedCost(pos, r) = pos.cost /\ ReleasedMargin(pos, r) = pos.margin
      BY <1>1, <1>5, ClosedParts
    <2>. QED  BY <1>2, <2>1, <2>2, <2>3 DEF Reduced, Clean
  <1>6. CASE Opposes(pos, r) /\ r.quantity > Abs(pos.quantity)
    <2>1. UpdatePosition(pos, order, price) = Reversed(pos, order, price)
      BY <1>1, <1>2, <1>6 DEF UpdatePosition, Opposes, Abs
    <2>2. r.quantity - Abs(pos.quantity) \in Nat \ {0}
      BY <1>1, <1>2, <1>6 DEF Abs
    <2>. QED  BY <2>1, <2>2 DEF Reversed, Clean
  <1>7. Abs(pos.quantity) \in Int
    BY <1>2 DEF Abs
  <1>. QED  BY <1>1, <1>3, <1>4, <1>5, <1>6, <1>7

\* Every call keeps closed rows clean.
LEMMA StepKeepsClean ==
    ASSUME TypeOK, FlatHasNoMargin, Next
    PROVE  FlatHasNoMargin'
  <1>. SUFFICES ASSUME NEW q \in Products PROVE Clean(positions'[q])
    BY DEF FlatHasNoMargin, Clean
  <1>1. Clean(positions[q])
    BY DEF FlatHasNoMargin, Clean
  <1>2. CASE SomeFill
    <2>1. PICK o \in OrderIds, order \in Order, f0 \in Funds, price \in Nat :
              Fills(o, order, f0, price)
      BY <1>2 DEF SomeFill
    <2>. DEFINE p == order.request.product
    <2>2. p \in Products /\ positions[p] \in Position
      BY RowTypes DEF Order, Request
    <2>3. positions' = [positions EXCEPT ![p] = UpdatePosition(positions[p], order, price)]
      BY <2>1 DEF Fills, ExecuteOrder
    <2>4. Clean(UpdatePosition(positions[p], order, price))
      BY <2>2, UpdatedPositionIsClean
    <2>. HIDE DEF p
    <2>. QED  BY <1>1, <2>2, <2>3, <2>4 DEF TypeOK
  <1>3. CASE SomeBooking
    BY <1>1, <1>3 DEF SomeBooking, Books
  <1>4. CASE ProcessT1Settlement
    BY <1>1, <1>4 DEF ProcessT1Settlement, TypeOK, NoPosition, Clean
  <1>5. CASE ResetFunds
    BY <1>5 DEF ResetFunds, NoPosition, Clean
  <1>6. CASE Tick
    <2>1. CASE SquareOffTime \/ MarketOpening
      BY <1>1, <2>1 DEF SquareOffTime, MarketOpening
    <2>2. CASE Midnight
      <3>1. /\ positions[q] \in Position
            /\ [positions[q] EXCEPT !.row = "earlier"].quantity = positions[q].quantity
            /\ [positions[q] EXCEPT !.row = "earlier"].margin = positions[q].margin
            /\ [positions[q] EXCEPT !.row = "earlier"].cost = positions[q].cost
        BY RowTypes DEF Position
      <3>. QED  BY <1>1, <2>2, <3>1 DEF Midnight, Clean
    <2>. QED  BY <1>6, <2>1, <2>2 DEF Tick
  <1>. QED  BY <1>2, <1>3, <1>4, <1>5, <1>6, StepKinds

\* A position that is closed, however it came to be closed, keeps no margin
\* blocked and no cost: the shares _update_position releases along the way
\* add up to everything that was put in.
THEOREM ClosedPositionIsClean == Spec => []FlatHasNoMargin
  <1>1. Init => FlatHasNoMargin
    BY DEF Init, FlatHasNoMargin, NoPosition
  <1>2. TypeOK /\ FlatHasNoMargin /\ [Next]_vars => FlatHasNoMargin'
    <2>1. ASSUME FlatHasNoMargin, UNCHANGED vars PROVE FlatHasNoMargin'
      BY <2>1 DEF vars, FlatHasNoMargin
    <2>. QED  BY <2>1, StepKeepsClean
  <1>. QED  BY <1>1, <1>2, LedgerType, PTL DEF Spec

\* _update_position keeps the books of a row: averaging, closing and reversing
\* change realized profit and open cost by exactly the cash of the trade.
LEMMA UpdatedPositionIsBooked ==
    ASSUME NEW pos \in Position, NEW order \in Order, NEW price \in Nat, NEW cash \in Int,
           Clean(pos), pos.realized = cash + SignedCost(pos)
    PROVE  UpdatePosition(pos, order, price).realized
              = (cash - Signed(order.request) * price)
                  + SignedCost(UpdatePosition(pos, order, price))
  <1>. DEFINE r     == order.request
              n     == r.quantity
              value == n * price
              new   == UpdatePosition(pos, order, price)
  <1>1. r \in Request /\ n \in Nat \ {0} /\ r.action \in {"BUY", "SELL"}
    BY DEF Order, Request
  <1>2. /\ pos.quantity \in Int /\ pos.cost \in Nat /\ pos.margin \in Nat
        /\ pos.realized \in Int /\ Abs(pos.quantity) \in Nat
    BY DEF Position, Abs
  <1>3. value \in Int /\ price \in Int
    BY <1>1, ProductIsInt
  <1>4. Signed(r) * price = IF r.action = "BUY" THEN value ELSE -value
    BY <1>1, ProductOfNegation DEF Signed
  <1>5. CASE pos.quantity = 0
    <2>1. new = Reopened(pos, order, price)
      BY <1>5 DEF UpdatePosition, Opposes
    <2>2. pos.cost = 0 /\ SignedCost(pos) = 0
      BY <1>5 DEF Clean, SignedCost
    <2>3. new.realized = pos.realized /\ new.quantity = Signed(r) /\ new.cost = value
      BY <2>1 DEF Reopened
    <2>4. SignedCost(new) = IF r.action = "BUY" THEN value ELSE -value
      BY <2>3, <1>1 DEF SignedCost, Signed
    <2>. HIDE DEF value, new
    <2>. QED  BY <1>2, <1>3, <1>4, <2>2, <2>3, <2>4 DEF new
  <1>6. CASE pos.quantity # 0 /\ ~Opposes(pos, r)
    <2>1. new = Enlarged(pos, order, price)
      BY <1>6 DEF UpdatePosition
    <2>2. /\ new.realized = pos.realized
          /\ new.quantity = pos.quantity + Signed(r)
          /\ new.cost = pos.cost + value
      BY <2>1 DEF Enlarged
    <2>3. /\ pos.quantity > 0 => r.action = "BUY" /\ pos.quantity + Signed(r) > 0
          /\ pos.quantity < 0 => r.action = "SELL" /\ ~(pos.quantity + Signed(r) > 0)
      BY <1>1, <1>2, <1>6 DEF Opposes, Signed
    <2>. HIDE DEF value, new
    <2>. QED  BY <1>2, <1>3, <1>4, <1>6, <2>2, <2>3 DEF SignedCost, new
  <1>7. CASE Opposes(pos, r) /\ n <= Abs(pos.quantity)
    <2>. DEFINE closed == ClosedCost(pos, r)
                pnl    == RealizedPnl(pos, r, price)
    <2>1. new = Reduced(pos, order, price)
      <3>1. pos.quantity # 0
        BY <1>2, <1>7 DEF Opposes
      <3>2. ~(n > Abs(pos.quantity))
        BY <1>1, <1>2, <1>7
      <3>. QED  BY <1>7, <3>1, <3>2 DEF UpdatePosition
    <2>2. /\ new.realized = pos.realized + pnl
          /\ new.quantity = pos.quantity + Signed(r)
          /\ new.cost = pos.cost - closed
      BY <2>1 DEF Reduced
    <2>3. closed \in Nat /\ (n >= Abs(pos.quantity) => closed = pos.cost)
      BY <1>1, <1>7, ClosedParts
    <2>4. pnl = IF pos.quantity > 0 THEN value - closed ELSE closed - value
      BY <1>1, <1>2, <1>7 DEF RealizedPnl, ClosedQuantity, Least
    <2>5. /\ pos.quantity > 0 => r.action = "SELL" /\ pos.quantity + Signed(r) >= 0
          /\ ~(pos.quantity > 0) => r.action = "BUY" /\ pos.quantity + Signed(r) <= 0
          /\ pos.quantity + Signed(r) = 0 => n >= Abs(pos.quantity)
      BY <1>1, <1>2, <1>7 DEF Opposes, Signed, Abs
    <2>6. pos.quantity + Signed(r) \in Int
      BY <1>1, <1>2 DEF Signed
    <2>. HIDE DEF value, new, closed, pnl
    <2>. QED  BY <1>2, <1>3, <1>4, <2>2, <2>3, <2>4, <2>5, <2>6 DEF SignedCost, new
  <1>8. CASE Opposes(pos, r) /\ n > Abs(pos.quantity)
    <2>. DEFINE held   == Abs(pos.quantity)
                excess == n - held
                pnl    == RealizedPnl(pos, r, price)
    <2>1. new = Reversed(pos, order, price)
      BY <1>1, <1>2, <1>8 DEF UpdatePosition, Opposes
    <2>2. /\ new.realized = pos.realized + pnl
          /\ new.quantity = IF r.action = "BUY" THEN excess ELSE -excess
          /\ new.cost = excess * price
      BY <2>1 DEF Reversed
    <2>3. excess \in Nat \ {0} /\ held \in Nat
      BY <1>1, <1>2, <1>8
    <2>4. excess * price = value - held * price /\ held * price \in Int
      BY <1>1, <1>3, <2>3, ProductOfSum, ProductIsInt
    <2>5. pnl = IF pos.quantity > 0 THEN held * price - pos.cost
                                    ELSE pos.cost - held * price
      <3>1. ClosedQuantity(pos, r) = held /\ ClosedCost(pos, r) = pos.cost
        BY <1>1, <1>2, <1>8, ClosedParts
      <3>. QED  BY <3>1 DEF RealizedPnl
    <2>6. /\ pos.quantity > 0 => r.action = "SELL"
          /\ ~(pos.quantity > 0) => r.action = "BUY"
      BY <1>2, <1>8 DEF Opposes
    <2>7. SignedCost(new) = IF r.action = "BUY" THEN excess * price ELSE -(excess * price)
      BY <2>2, <2>3, <1>1 DEF SignedCost
    <2>8. pos.realized = cash + (IF pos.quantity > 0 THEN pos.cost ELSE -pos.cost)
      BY DEF SignedCost
    <2>9. excess * price \in Int
      BY <2>3, <1>3, ProductIsInt
    <2>. DEFINE heldValue == held * price
                excessValue == excess * price
    <2>. HIDE DEF value, new, pnl, held, excess, heldValue, excessValue
    <2>10. /\ excessValue = value - heldValue /\ heldValue \in Int /\ excessValue \in Int
           /\ pnl = IF pos.quantity > 0 THEN heldValue - pos.cost ELSE pos.cost - heldValue
           /\ SignedCost(new) = IF r.action = "BUY" THEN excessValue ELSE -excessValue
      BY <2>4, <2>5, <2>7, <2>9 DEF heldValue, excessValue
    <2>. QED  BY <1>2, <1>3, <1>4, <2>2, <2>6, <2>8, <2>10 DEF new
  <1>. QED  BY <1>1, <1>2, <1>5, <1>6, <1>7, <1>8

Booked(pos, cash) == pos.realized = cash + SignedCost(pos)

\* Every call keeps the books of every row.
LEMMA StepKeepsBooked ==
    ASSUME TypeOK, FlatHasNoMargin, RealizedMatchesTrades, Next
    PROVE  RealizedMatchesTrades'
  <1>. SUFFICES ASSUME NEW q \in Products PROVE Booked(positions'[q], cashflow'[q])
    BY DEF RealizedMatchesTrades, Booked, SignedCost
  <1>1. Booked(positions[q], cashflow[q])
    BY DEF RealizedMatchesTrades, Booked
  <1>2. CASE SomeFill
    <2>1. PICK o \in OrderIds, order \in Order, f0 \in Funds, price \in Nat :
              Fills(o, order, f0, price)
      BY <1>2 DEF SomeFill
    <2>. DEFINE p    == order.request.product
                new  == UpdatePosition(positions[p], order, price)
                cash == cashflow[p] - Signed(order.request) * price
    <2>2. p \in Products /\ positions[p] \in Position /\ cashflow[p] \in Int
      BY RowTypes DEF Order, Request, TypeOK
    <2>3. /\ positions' = [positions EXCEPT ![p] = new]
          /\ cashflow' = [cashflow EXCEPT ![p] = cash]
      BY <2>1 DEF Fills, ExecuteOrder
    <2>4. /\ Clean(positions[p])
          /\ positions[p].realized = cashflow[p] + SignedCost(positions[p])
      BY <2>2 DEF FlatHasNoMargin, RealizedMatchesTrades, Clean
    <2>5. Booked(new, cash)
      BY <2>2, <2>4, UpdatedPositionIsBooked DEF Booked
    <2>. HIDE DEF p, new, cash
    <2>. QED  BY <1>1, <2>2, <2>3, <2>5 DEF TypeOK
  <1>3. CASE SomeBooking
    BY <1>1, <1>3 DEF SomeBooking, Books
  <1>4. CASE ProcessT1Settlement
    BY <1>1, <1>4 DEF ProcessT1Settlement, TypeOK, NoPosition, Booked, SignedCost
  <1>5. CASE ResetFunds
    BY <1>5 DEF ResetFunds, NoPosition, Booked, SignedCost
  <1>6. CASE Tick
    <2>1. CASE SquareOffTime \/ MarketOpening
      BY <1>1, <2>1 DEF SquareOffTime, MarketOpening
    <2>2. CASE Midnight
      <3>1. /\ positions[q] \in Position
            /\ [positions[q] EXCEPT !.row = "earlier"].quantity = positions[q].quantity
            /\ [positions[q] EXCEPT !.row = "earlier"].realized = positions[q].realized
            /\ [positions[q] EXCEPT !.row = "earlier"].cost = positions[q].cost
        BY RowTypes DEF Position
      <3>. QED  BY <1>1, <2>2, <3>1 DEF Midnight, Booked, SignedCost
    <2>. QED  BY <1>6, <2>1, <2>2 DEF Tick
  <1>. QED  BY <1>2, <1>3, <1>4, <1>5, <1>6, StepKinds

\* The realized profit of a position is what its trades took in plus what the
\* open quantity cost, through averaging, partial closure, reversal and
\* reopening, for every sequence of trades at any price.
THEOREM RealizedProfitIsRight == Spec => []RealizedMatchesTrades
  <1>1. Init => RealizedMatchesTrades
    BY DEF Init, RealizedMatchesTrades, NoPosition, SignedCost
  <1>2. /\ TypeOK /\ FlatHasNoMargin /\ RealizedMatchesTrades /\ [Next]_vars
        => RealizedMatchesTrades'
    <2>1. ASSUME RealizedMatchesTrades, UNCHANGED vars PROVE RealizedMatchesTrades'
      BY <2>1 DEF vars, RealizedMatchesTrades
    <2>. QED  BY <2>1, StepKeepsBooked
  <1>. QED  BY <1>1, <1>2, LedgerType, ClosedPositionIsClean, PTL DEF Spec

-----------------------------------------------------------------------------
(* What a step may never do.                                               *)

\* A complete, cancelled or rejected row is never written again.
THEOREM TerminalOrdersStay == Spec => TerminalOrderIsFinal
  <1>. DEFINE Kept == \A o \in OrderIds :
                          orders[o].status \in Terminal => orders'[o] = orders[o]
  <1>1. ASSUME TypeOK, [Next]_vars PROVE Kept
    <2>1. CASE SomeFill
      BY <2>1 DEF SomeFill, Fills, ExecuteOrder, TypeOK, Terminal
    <2>2. CASE SomeBooking
      BY <2>2 DEF SomeBooking, Books, TypeOK, Terminal
    <2>3. CASE UNCHANGED orders
      BY <2>3
    <2>4. ProcessT1Settlement \/ ResetFunds \/ Tick \/ UNCHANGED vars => UNCHANGED orders
      BY DEF ProcessT1Settlement, ResetFunds, Tick, SquareOffTime, Midnight, MarketOpening, vars
    <2>. QED  BY <1>1, <2>1, <2>2, <2>3, <2>4, StepKinds
  <1>2. TypeOK /\ [Next]_vars => [Kept]_vars
    BY <1>1
  <1>. QED  BY <1>2, LedgerType, PTL DEF Spec, TerminalOrderIsFinal

\* Whenever an order fills, used_margin is left equal to the margin of the
\* open positions.
THEOREM FillsReconcile == Spec => FillReconcilesMargin
  <1>. DEFINE Reconciled == \A o \in OrderIds :
                  Completes(o) => funds'.used = PositionMargin(positions')
  <1>1. ASSUME TypeOK, [Next]_vars PROVE Reconciled
    <2>1. CASE SomeFill
      <3>1. PICK o \in OrderIds, order \in Order, f0 \in Funds, price \in Nat :
                Fills(o, order, f0, price)
        BY <2>1 DEF SomeFill
      <3>. QED  BY <3>1 DEF Fills, ExecuteOrder, ReconcileMargin
    <2>2. CASE SomeBooking
      BY <2>2 DEF SomeBooking, Books, TypeOK, Completes
    <2>3. CASE UNCHANGED orders
      BY <2>3 DEF Completes
    <2>4. ProcessT1Settlement \/ ResetFunds \/ Tick \/ UNCHANGED vars => UNCHANGED orders
      BY DEF ProcessT1Settlement, ResetFunds, Tick, SquareOffTime, Midnight, MarketOpening, vars
    <2>. QED  BY <1>1, <2>1, <2>2, <2>3, <2>4, StepKinds
  <1>2. TypeOK /\ [Next]_vars => [Reconciled]_vars
    BY <1>1
  <1>. QED  BY <1>2, LedgerType, PTL DEF Spec, FillReconcilesMargin

\* Steps that are neither a fill nor a booking complete nothing.
LEMMA OnlyFillsComplete ==
    ASSUME TypeOK, [Next]_vars, ~SomeFill, NEW o \in OrderIds
    PROVE  ~Completes(o)
  <1>1. CASE SomeBooking
    BY <1>1 DEF SomeBooking, Books, TypeOK, Completes
  <1>2. CASE UNCHANGED orders
    BY <1>2 DEF Completes
  <1>3. ProcessT1Settlement \/ ResetFunds \/ Tick \/ UNCHANGED vars => UNCHANGED orders
    BY DEF ProcessT1Settlement, ResetFunds, Tick, SquareOffTime, Midnight, MarketOpening, vars
  <1>. QED  BY <1>1, <1>2, <1>3, StepKinds

\* Only an order that trades against the position realizes a profit.
LEMMA RealizedGain ==
    ASSUME NEW pos \in Position, NEW order \in Order, NEW price \in Nat
    PROVE  UpdatePosition(pos, order, price).realized - pos.realized
              = IF Opposes(pos, order.request)
                THEN RealizedPnl(pos, order.request, price) ELSE 0
  <1>. DEFINE r == order.request
  <1>1. /\ r \in Request /\ r.quantity \in Nat /\ pos.realized \in Int
        /\ pos.quantity \in Int /\ Abs(pos.quantity) \in Nat
    BY DEF Order, Request, Position, Abs
  <1>2. CASE Opposes(pos, r)
    <2>. DEFINE pnl == RealizedPnl(pos, r, price)
    <2>1. pnl \in Int
      BY <1>1, <1>2, PnlIsInt
    <2>2. UpdatePosition(pos, order, price)
             \in {Reduced(pos, order, price), Reversed(pos, order, price)}
      BY <1>1, <1>2 DEF UpdatePosition, Opposes
    <2>3. UpdatePosition(pos, order, price).realized = pos.realized + pnl
      BY <2>2 DEF Reduced, Reversed
    <2>. HIDE DEF pnl
    <2>4. UpdatePosition(pos, order, price).realized - pos.realized = pnl
      BY <1>1, <2>1, <2>3
    <2>. QED  BY <1>2, <2>4 DEF pnl
  <1>3. CASE ~Opposes(pos, r)
    <2>1. UpdatePosition(pos, order, price)
             \in {Reopened(pos, order, price), Enlarged(pos, order, price)}
      BY <1>3 DEF UpdatePosition
    <2>2. UpdatePosition(pos, order, price).realized = pos.realized
      BY <2>1 DEF Reopened, Enlarged
    <2>. QED  BY <1>1, <1>3, <2>2
  <1>. QED  BY <1>2, <1>3

\* The profit of a fill reaches the funds row, unless the position had no
\* margin to release.
THEOREM ProfitsAreBooked == Spec => ProfitBookedOnce
  <1>. DEFINE Once(o) ==
                 LET r == orders'[o].request
                     p == r.product
                 IN  \/ funds'.realized - funds.realized
                            = positions'[p].realized - positions[p].realized
                     \/ /\ funds'.realized = funds.realized
                        /\ ReleasedMargin(positions[p], r) = 0
  <1>1. ASSUME TypeOK, [Next]_vars, NEW o \in OrderIds, Completes(o) PROVE Once(o)
    <2>1. SomeFill
      BY <1>1, OnlyFillsComplete
    <2>2. PICK q \in OrderIds, order \in Order, f0 \in Funds, price \in Nat :
              Fills(q, order, f0, price)
      BY <2>1 DEF SomeFill
    <2>. DEFINE r   == order.request
                p   == r.product
                pos == positions[p]
                new == UpdatePosition(pos, order, price)
                pnl == RealizedPnl(pos, r, price)
                ps  == [positions EXCEPT ![p] = new]
                f1  == SettleFunds(f0, pos, order, price)
    <2>3. /\ orders' = [orders EXCEPT ![q] = [order EXCEPT !.status = "complete"]]
          /\ positions' = ps
          /\ funds' = ReconcileMargin(f1, ps)
          /\ f0.realized = funds.realized
      BY <2>2 DEF Fills, ExecuteOrder
    <2>4. q = o
      BY <1>1, <2>3 DEF Completes, TypeOK
    <2>5. orders'[o].request = r /\ r \in Request /\ p \in Products /\ pos \in Position
      BY <1>1, <2>3, <2>4, RowTypes DEF TypeOK, Order, Request
    <2>6. positions'[p] = new
      BY <1>1, <2>3, <2>5 DEF TypeOK
    <2>7. funds'.realized = f1.realized
      BY <2>3 DEF ReconcileMargin
    <2>8. new.realized - pos.realized = IF Opposes(pos, r) THEN pnl ELSE 0
      BY <2>5, RealizedGain
    <2>9. funds.realized \in Int
      BY <1>1 DEF TypeOK, Funds
    <2>10. f1.realized = IF Opposes(pos, r) /\ ReleasedMargin(pos, r) > 0
                         THEN funds.realized + pnl ELSE funds.realized
      BY <2>3 DEF SettleFunds, ReleaseMargin
    <2>11. Opposes(pos, r) => pnl \in Int /\ ReleasedMargin(pos, r) \in Nat
      BY <2>5, ClosedParts, PnlIsInt
    <2>. HIDE DEF new, pnl, f1
    <2>12. \/ funds'.realized - funds.realized = new.realized - pos.realized
           \/ funds'.realized = funds.realized /\ ReleasedMargin(pos, r) = 0
      <3>1. CASE Opposes(pos, r) /\ ReleasedMargin(pos, r) > 0
        BY <2>7, <2>8, <2>9, <2>10, <2>11, <3>1
      <3>2. CASE Opposes(pos, r) /\ ReleasedMargin(pos, r) = 0
        BY <2>7, <2>10, <3>2
      <3>3. CASE ~Opposes(pos, r)
        BY <2>7, <2>8, <2>9, <2>10, <3>3
      <3>. QED  BY <2>11, <3>1, <3>2, <3>3
    <2>. QED  BY <2>5, <2>6, <2>12
  <1>2. TypeOK /\ [Next]_vars => [\A o \in OrderIds : Completes(o) => Once(o)]_vars
    BY <1>1
  <1>. QED  BY <1>2, LedgerType, PTL DEF Spec, ProfitBookedOnce

\* Every branch of _update_position moves the quantity by the order's.
LEMMA QuantityFollowsOrder ==
    ASSUME NEW pos \in Position, NEW order \in Order, NEW price \in Nat
    PROVE  UpdatePosition(pos, order, price).quantity
              = pos.quantity + Signed(order.request)
  <1>. DEFINE r == order.request
  <1>1. /\ r \in Request /\ r.quantity \in Nat \ {0} /\ r.action \in {"BUY", "SELL"}
        /\ pos.quantity \in Int
    BY DEF Order, Request, Position
  <1>2. CASE pos.quantity = 0
    <2>1. UpdatePosition(pos, order, price) = Reopened(pos, order, price)
      BY <1>2 DEF UpdatePosition, Opposes
    <2>. QED  BY <1>1, <1>2, <2>1 DEF Reopened, Signed
  <1>3. CASE Opposes(pos, r) /\ r.quantity > Abs(pos.quantity)
    <2>1. UpdatePosition(pos, order, price) = Reversed(pos, order, price)
      BY <1>1, <1>3 DEF UpdatePosition, Opposes, Abs
    <2>. QED  BY <1>1, <1>3, <2>1 DEF Reversed, Signed, Opposes, Abs
  <1>4. CASE pos.quantity # 0 /\ ~(Opposes(pos, r) /\ r.quantity > Abs(pos.quantity))
    <2>1. UpdatePosition(pos, order, price)
             \in {Reduced(pos, order, price), Enlarged(pos, order, price)}
      BY <1>4 DEF UpdatePosition
    <2>. QED  BY <2>1 DEF Reduced, Enlarged
  <1>. QED  BY <1>2, <1>3, <1>4 DEF Opposes

\* Shares move by trades only, through settlement into the holding and sales
\* out of it as well.
THEOREM SharesMoveByTrades == Spec => SharesFollowTrades
  <1>. DEFINE Kept(p) == Shares(positions', holding', p) = Shares(positions, holding, p)
              Follows(p) ==
                 IF \E o \in OrderIds : Trades(o, p)
                 THEN \E o \in OrderIds :
                         /\ \A x \in OrderIds : Trades(x, p) <=> x = o
                         /\ Shares(positions', holding', p) =
                               Shares(positions, holding, p) + Signed(orders'[o].request)
                 ELSE Kept(p)
  <1>1. ASSUME TypeOK, [Next]_vars, ~ResetFunds, NEW q \in Products PROVE Follows(q)
    <2>0. positions[q] \in Position /\ positions[q].quantity \in Int /\ holding.quantity \in Int
      BY <1>1, RowTypes DEF Position, TypeOK
    <2>a. ~SomeFill /\ Kept(q) => Follows(q)
      BY <1>1, OnlyFillsComplete DEF Trades
    <2>1. CASE SomeFill
      <3>1. PICK o \in OrderIds, order \in Order, f0 \in Funds, price \in Nat :
                Fills(o, order, f0, price)
        BY <2>1 DEF SomeFill
      <3>. DEFINE p   == order.request.product
                  pos == positions[p]
                  new == UpdatePosition(pos, order, price)
      <3>2. /\ orders' = [orders EXCEPT ![o] = [order EXCEPT !.status = "complete"]]
            /\ positions' = [positions EXCEPT ![p] = new]
            /\ holding' = holding /\ orders[o].status # "complete"
        BY <3>1 DEF Fills, ExecuteOrder
      <3>3. p \in Products /\ pos \in Position /\ Signed(order.request) \in Int
        BY <1>1, RowTypes DEF Order, Request, Signed
      <3>4. new.quantity = pos.quantity + Signed(order.request)
        BY <3>3, QuantityFollowsOrder
      <3>5. Completes(o) /\ orders'[o].request = order.request
        BY <1>1, <3>2 DEF Completes, TypeOK, Order
      <3>8. \A x \in OrderIds : Completes(x) => x = o
        BY <1>1, <3>2 DEF Completes, TypeOK
      <3>. HIDE DEF new
      <3>6. CASE q = p
        <4>1. positions'[q] = new
          BY <1>1, <3>2, <3>3, <3>6 DEF TypeOK
        <4>2. Shares(positions', holding', q)
                 = Shares(positions, holding, q) + Signed(order.request)
          BY <2>0, <3>2, <3>3, <3>4, <3>6, <4>1 DEF Shares
        <4>3. \A x \in OrderIds : Trades(x, q) <=> x = o
          BY <3>5, <3>6, <3>8 DEF Trades
        <4>. QED  BY <3>5, <4>2, <4>3
      <3>7. CASE q # p
        <4>1. Kept(q)
          BY <1>1, <3>2, <3>7 DEF TypeOK, Shares
        <4>2. \A x \in OrderIds : ~Trades(x, q)
          BY <3>5, <3>7, <3>8 DEF Trades
        <4>. QED  BY <4>1, <4>2
      <3>. QED  BY <3>6, <3>7
    <2>2. CASE ~SomeFill /\ UNCHANGED <<positions, holding>>
      BY <2>2, <2>a DEF Shares
    <2>3. CASE ~SomeFill /\ ProcessT1Settlement
      <3>. DEFINE pos == positions["CNC"]
      <3>1. /\ positions' = [positions EXCEPT !["CNC"] = NoPosition]
            /\ "CNC" \in Products
        BY <2>3 DEF ProcessT1Settlement
      <3>2. holding'.quantity = holding.quantity + pos.quantity
        <4>1. pos.quantity \in Int /\ holding.quantity \in Int
          BY <1>1, <3>1, RowTypes DEF Position, TypeOK
        <4>2. CASE pos.quantity = 0
          BY <2>3, <4>1, <4>2 DEF ProcessT1Settlement
        <4>3. CASE SettleIntoHolding(pos)
          BY <4>3 DEF SettleIntoHolding
        <4>4. CASE SettleSaleFromHolding(pos)
          BY <4>4 DEF SettleSaleFromHolding
        <4>. QED  BY <2>3, <4>2, <4>3, <4>4 DEF ProcessT1Settlement
      <3>3. CASE q = "CNC"
        <4>1. Kept(q)
          BY <1>1, <2>0, <3>1, <3>2, <3>3 DEF Shares, NoPosition, TypeOK
        <4>. QED  BY <2>3, <2>a, <4>1
      <3>4. CASE q # "CNC"
        <4>1. Kept(q)
          BY <1>1, <3>1, <3>4 DEF Shares, TypeOK
        <4>. QED  BY <2>3, <2>a, <4>1
      <3>. QED  BY <3>3, <3>4
    <2>5. CASE ~SomeFill /\ Midnight
      <3>1. positions'[q].quantity = positions[q].quantity /\ holding' = holding
        BY <2>0, <2>5 DEF Midnight, Position
      <3>. QED  BY <2>5, <2>a, <3>1 DEF Shares
    <2>6. SomeBooking \/ SquareOffTime \/ MarketOpening \/ UNCHANGED vars
             => UNCHANGED <<positions, holding>>
      BY DEF SomeBooking, Books, SquareOffTime, MarketOpening, vars
    <2>. QED  BY <1>1, <2>1, <2>2, <2>3, <2>5, <2>6, StepKinds DEF Tick
  <1>2. TypeOK /\ [Next]_vars => [ResetFunds \/ \A p \in Products : Follows(p)]_vars
    BY <1>1
  <1>. QED  BY <1>2, LedgerType, PTL DEF Spec, SharesFollowTrades

\* Placing an order that then waits leaves no overdraft behind.
LEMMA RestingIsCovered ==
    ASSUME TypeOK, NEW o \in OrderIds, NEW r \in Request, NEW quote \in Quotes,
           PlaceRestingOrder(o, r, quote)
    PROVE  funds'.available >= 0 \/ funds' = funds
  <1>1. PICK basis \in BasisPrices(r, quote) :
           /\ Affordable(r, MarginForOrder(r, basis))
           /\ funds' = FundsAfterBlock(r, MarginForOrder(r, basis))
    BY DEF PlaceRestingOrder
  <1>. DEFINE margin == MarginForOrder(r, basis)
  <1>2. margin \in Nat
    BY BasisIsPrice, MarginForOrderIsNat
  <1>. HIDE DEF margin
  <1>3. funds \in Funds /\ funds.available \in Int /\ funds.used \in Int
    BY DEF TypeOK, Funds
  <1>4. Affordable(r, margin) /\ funds' = FundsAfterBlock(r, margin)
    BY <1>1 DEF margin
  <1>5. CASE ~BlocksMargin(r)
    BY <1>4, <1>5 DEF FundsAfterBlock
  <1>6. CASE BlocksMargin(r) /\ margin > 0
    <2>1. margin <= funds.available /\ funds'.available = funds.available - margin
      BY <1>4, <1>6 DEF Affordable, FundsAfterBlock, BlockMargin
    <2>. QED  BY <1>2, <1>3, <2>1
  <1>7. CASE BlocksMargin(r) /\ margin = 0
    <2>1. funds' = [available |-> funds.available - 0, used |-> funds.used + 0,
                    realized |-> funds.realized]
      BY <1>4, <1>7 DEF FundsAfterBlock, BlockMargin
    <2>2. funds' = [available |-> funds.available, used |-> funds.used,
                    realized |-> funds.realized]
      BY <1>3, <2>1
    <2>. QED  BY <1>3, <2>2 DEF Funds
  <1>. QED  BY <1>2, <1>5, <1>6, <1>7

\* Booking an order that then waits never overdraws the account, whatever the
\* leverage, the product and the position it is placed against.
THEOREM RestingIsAffordable == Spec => RestingOrderIsAffordable
  <1>. DEFINE Rests(o) == orders[o].status = "none" /\ orders'[o].status = "open"
              Covered  == funds'.available >= 0 \/ funds' = funds
  <1>1. ASSUME TypeOK, NEW o \in OrderIds, Rests(o),
               NEW q \in OrderIds, NEW r \in Request, NEW quote \in Quotes, PlaceOrder(q, r, quote)
        PROVE  Covered
    <2>1. CASE PlaceRestingOrder(q, r, quote)
      BY <1>1, <2>1, RestingIsCovered
    <2>2. CASE PlaceRejectedOrder(q, r, quote)
      <3>1. orders' \in [OrderIds -> Order \cup {NoOrder}] /\ orders'[q].status = "rejected"
            /\ \A x \in OrderIds \ {q} : orders'[x] = orders[x]
        <4>1. PICK basis \in BasisPrices(r, quote) :
                 orders' = [orders EXCEPT ![q] = StoredOrder(r, basis, 0, "rejected")]
          BY <2>2 DEF PlaceRejectedOrder
        <4>2. /\ StoredOrder(r, basis, 0, "rejected") \in Order
              /\ StoredOrder(r, basis, 0, "rejected").status = "rejected"
          BY BasisIsPrice, StoredOrderType DEF Statuses
        <4>. QED  BY <1>1, <4>1, <4>2 DEF TypeOK
      <3>. QED  BY <1>1, <3>1
    <2>3. CASE PlaceAndExecuteOrder(q, r, quote)
      <3>1. PICK order, f0, price : ExecuteOrder(q, order, f0, price)
        BY <2>3 DEF PlaceAndExecuteOrder
      <3>. QED  BY <1>1, <3>1, <2>3 DEF ExecuteOrder, TypeOK, PlaceAndExecuteOrder
    <2>. QED  BY <1>1, <2>1, <2>2, <2>3 DEF PlaceOrder
  <1>2. ASSUME TypeOK, [Next]_vars, NEW o \in OrderIds, Rests(o) PROVE Covered
    <2>1. CASE \E q \in OrderIds, r \in Requests, quote \in Quotes : PlaceOrder(q, r, quote)
      <3>1. \A r \in Requests : r \in Request
        BY DEF Requests, Request
      <3>. QED  BY <1>1, <1>2, <2>1, <3>1
    <2>2. CASE \E q \in OrderIds, p \in Products, quote \in Quotes : ClosePosition(q, p, quote)
      BY <1>1, <1>2, <2>2, CloseRequestType DEF ClosePosition
    <2>3. CASE \E q \in OrderIds : orders[q].status = "open" /\
                  \A x \in OrderIds \ {q} : orders'[x] = orders[x]
      BY <1>2, <2>3
    <2>4. CASE \E q \in OrderIds, price, trigger \in Quotes :
                  \E n \in Quantities \cup {orders[q].request.quantity} :
                     ModifyOrder(q, n, price, trigger)
      BY <1>2, <2>3, <2>4 DEF ModifyOrder, TypeOK
    <2>5. CASE \E q \in OrderIds, quote \in Quotes : CancelOrder(q, quote)
      BY <1>2, <2>3, <2>5 DEF CancelOrder, TypeOK
    <2>6. CASE \E q \in OrderIds, ltp \in Prices : ProcessOrder(q, ltp)
      BY <1>2, <2>3, <2>6 DEF ProcessOrder, ExecuteOrder, TypeOK
    <2>7. CASE UNCHANGED orders
      BY <1>2, <2>7
    <2>8. ProcessT1Settlement \/ ResetFunds \/ SquareOffTime \/ Midnight \/ MarketOpening
             \/ UNCHANGED vars => UNCHANGED orders
      BY DEF ProcessT1Settlement, ResetFunds, SquareOffTime, Midnight, MarketOpening, vars
    <2>. QED  BY <1>2, <2>1, <2>2, <2>4, <2>5, <2>6, <2>7, <2>8 DEF Next
  <1>3. TypeOK /\ [Next]_vars => [\A o \in OrderIds : Rests(o) => Covered]_vars
    BY <1>2
  <1>. QED  BY <1>3, LedgerType, PTL DEF Spec, RestingOrderIsAffordable

=============================================================================
