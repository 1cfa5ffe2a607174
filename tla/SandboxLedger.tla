---------------------------- MODULE SandboxLedger ----------------------------
(***************************************************************************)
(* The analyzer-mode ledger of one user trading one instrument: the funds  *)
(* row, the orders, one position row per product, and the delivery holding *)
(* (src/sandbox/order_manager.py, execution_engine.py, fund_manager.py and *)
(* the settlement of holdings_manager.py).                                 *)
(*                                                                         *)
(* Every action is one call of a manager method run to completion, so this *)
(* module says what the accounting promises when calls do not overlap;     *)
(* OrderRace breaks the same calls at their commits and interleaves them.  *)
(*                                                                         *)
(* Money is an integer number of the smallest unit.  A position carries    *)
(* cost = |quantity| * average_price instead of the average itself.        *)
(*                                                                         *)
(* An operator named Faulty... is no part of the model: it is the next     *)
(* definition with a plausible bug, which the properties must detect.      *)
(***************************************************************************)
EXTENDS Integers

CONSTANTS OrderIds,     \* identifiers the user may still consume (bounds a run)
          Products,     \* products allowed for the instrument's exchange
          OrderTypes,   \* price types the user submits (a close is a MARKET order)
          Quantities,   \* quantities a request may carry (multiples of the lot)
          Prices,       \* prices a quote, a limit or a trigger may take
          Leverage,     \* leverage of <<product, action>>
          Capital,      \* starting_capital
          AutoReset     \* reset_day is configured (it is "Never" by default)

Actions    == {"BUY", "SELL"}
PriceTypes == {"MARKET", "LIMIT", "SL", "SL-M"}

ASSUME LedgerAssumption ==
    /\ Products \subseteq {"CNC", "NRML", "MIS"}
    /\ OrderTypes \subseteq PriceTypes
    /\ Quantities \subseteq Nat \ {0}
    /\ Prices \subseteq Nat \ {0}
    /\ Leverage \in [Products \X Actions -> Nat \ {0}]
    /\ Capital \in Nat
    /\ AutoReset \in BOOLEAN

VARIABLES orders,      \* sandbox_orders, by order id
          positions,   \* sandbox_positions, by product
          holding,     \* sandbox_holdings of the instrument
          funds,       \* sandbox_funds
          session,     \* where the clock stands in the MIS trading day
          invested,    \* history: net cash moved from funds into the holding
          cashflow     \* history: per product, sale value minus purchase value

vars == <<orders, positions, holding, funds, session, invested, cashflow>>

Statuses == {"open", "complete", "cancelled", "rejected"}
Terminal == {"complete", "cancelled", "rejected"}
Sessions == {"open", "closed", "night"}

\* A price or trigger of 0 stands for the column being NULL.
Request == [product  : Products,
            action   : Actions,
            type     : PriceTypes,
            quantity : Nat \ {0},
            price    : Prices \cup {0},
            trigger  : Prices \cup {0}]

Order == [request : Request, status : Statuses, margin : Nat]

\* Filler for an order id not used yet.
NoOrder == [request |-> [product |-> "none", action |-> "BUY", type |-> "MARKET",
                         quantity |-> 1, price |-> 0, trigger |-> 0],
            status  |-> "none",
            margin  |-> 0]

Position == [row      : {"absent", "today", "earlier"},
             quantity : Int,
             cost     : Nat,
             margin   : Nat,
             realized : Int]

NoPosition == [row |-> "absent", quantity |-> 0, cost |-> 0,
               margin |-> 0, realized |-> 0]

Funds == [available : Int, used : Int, realized : Int]

Abs(n)  == IF n < 0 THEN -n ELSE n
Least(m, n) == IF m <= n THEN m ELSE n

\* The part-th share out of whole of an amount, as Decimal division then
\* multiplication computes it, rounded down to the smallest unit.
Share(amount, part, whole) == (amount * part) \div whole

Signed(r) == IF r.action = "BUY" THEN r.quantity ELSE -r.quantity

\* r trades against the open position pos.
Opposes(pos, r) == \/ pos.quantity > 0 /\ r.action = "SELL"
                   \/ pos.quantity < 0 /\ r.action = "BUY"

-----------------------------------------------------------------------------
(* FundManager: each operator is the funds row after the call.             *)

MarginRequired(r, quantity, price) ==
    (quantity * price) \div Leverage[<<r.product, r.action>>]

BlockMargin(f, amount) ==
    [available |-> f.available - amount,
     used      |-> f.used + amount,
     realized  |-> f.realized]

ReleaseMargin(f, amount, pnl) ==
    [available |-> f.available + amount + pnl,
     used      |-> f.used - amount,
     realized  |-> f.realized + pnl]

TransferMarginToHoldings(f, amount) == [f EXCEPT !.used = @ - amount]

CreditSaleProceeds(f, amount) == [f EXCEPT !.available = @ + amount]

\* Margin of the open position rows; closed rows are not counted.
OpenMargin(ps, p) ==
    IF p \in Products /\ ps[p].quantity # 0 THEN ps[p].margin ELSE 0

PositionMargin(ps) ==
    OpenMargin(ps, "CNC") + OpenMargin(ps, "NRML") + OpenMargin(ps, "MIS")

FaultyReconcileUsedOnly(f, ps) == [f EXCEPT !.used = PositionMargin(ps)]

\* reconcile_margin(auto_fix=True): used_margin becomes what the positions
\* hold, and the difference, of either sign, moves to available_balance.
ReconcileMargin(f, ps) ==
    [available |-> f.available + (f.used - PositionMargin(ps)),
     used      |-> PositionMargin(ps),
     realized  |-> f.realized]

-----------------------------------------------------------------------------
(* ExecutionEngine: when an order trades, and what a trade does.           *)

\* The price conditions of _process_order; place_order applies the same ones.
Triggered(r, ltp) ==
    LET withinLimit == IF r.action = "BUY" THEN ltp <= r.price ELSE ltp >= r.price
        pastTrigger == IF r.action = "BUY" THEN ltp >= r.trigger ELSE ltp <= r.trigger
    IN  CASE r.type = "MARKET" -> TRUE
          [] r.type = "LIMIT"  -> withinLimit
          [] r.type = "SL"     -> pastTrigger /\ withinLimit
          [] r.type = "SL-M"   -> pastTrigger

\* A MARKET order fills at the ask or the bid, any price of the quote; a
\* resting LIMIT order at its limit, everything else at the last price.
EngineFillPrices(r, ltp) ==
    CASE r.type = "MARKET" -> Prices
      [] r.type = "LIMIT"  -> {r.price}
      [] OTHER             -> {ltp}

\* On placement a marketable LIMIT order gets the last price instead.
PlacementFillPrices(r, ltp) == IF r.type = "MARKET" THEN Prices ELSE {ltp}

Reopened(pos, order, price) ==
    [row      |-> IF pos.row = "absent" THEN "today" ELSE pos.row,
     quantity |-> Signed(order.request),
     cost     |-> order.request.quantity * price,
     margin   |-> order.margin,
     realized |-> pos.realized]

Enlarged(pos, order, price) ==
    [row      |-> pos.row,
     quantity |-> pos.quantity + Signed(order.request),
     cost     |-> pos.cost + order.request.quantity * price,
     margin   |-> pos.margin + order.margin,
     realized |-> pos.realized]

\* Quantity, cost and margin of pos that an opposite order takes out.
ClosedQuantity(pos, r) == Least(r.quantity, Abs(pos.quantity))
ClosedCost(pos, r)     == Share(pos.cost, ClosedQuantity(pos, r), Abs(pos.quantity))
ReleasedMargin(pos, r) == Share(pos.margin, ClosedQuantity(pos, r), Abs(pos.quantity))

FaultyRealizedPnl(pos, r, price) ==
    IF pos.quantity > 0
    THEN r.quantity * price - ClosedCost(pos, r)
    ELSE ClosedCost(pos, r) - r.quantity * price

RealizedPnl(pos, r, price) ==
    IF pos.quantity > 0
    THEN ClosedQuantity(pos, r) * price - ClosedCost(pos, r)
    ELSE ClosedCost(pos, r) - ClosedQuantity(pos, r) * price

FaultyReduced(pos, order, price) ==
    [row      |-> pos.row,
     quantity |-> pos.quantity + Signed(order.request),
     cost     |-> pos.cost - ClosedCost(pos, order.request),
     margin   |-> pos.margin,
     realized |-> pos.realized + RealizedPnl(pos, order.request, price)]

\* Partial and complete closure: a complete one takes out everything.
Reduced(pos, order, price) ==
    [row      |-> pos.row,
     quantity |-> pos.quantity + Signed(order.request),
     cost     |-> pos.cost - ClosedCost(pos, order.request),
     margin   |-> pos.margin - ReleasedMargin(pos, order.request),
     realized |-> pos.realized + RealizedPnl(pos, order.request, price)]

Reversed(pos, order, price) ==
    LET excess == order.request.quantity - Abs(pos.quantity)
    IN  [row      |-> pos.row,
         quantity |-> IF order.request.action = "BUY" THEN excess ELSE -excess,
         cost     |-> excess * price,
         margin   |-> Share(order.margin, excess, order.request.quantity),
         realized |-> pos.realized + RealizedPnl(pos, order.request, price)]

UpdatePosition(pos, order, price) ==
    CASE pos.quantity = 0 -> Reopened(pos, order, price)
      [] Opposes(pos, order.request) /\ order.request.quantity <= Abs(pos.quantity)
                          -> Reduced(pos, order, price)
      [] Opposes(pos, order.request) /\ order.request.quantity > Abs(pos.quantity)
                          -> Reversed(pos, order, price)
      [] OTHER            -> Enlarged(pos, order, price)

FaultySettleFunds(f, pos, order, price) ==
    IF /\ Opposes(pos, order.request)
       /\ ReleasedMargin(pos, order.request) > 0
    THEN ReleaseMargin(f, ReleasedMargin(pos, order.request),
                       UpdatePosition(pos, order, price).realized)
    ELSE f

\* The profit reaches the funds row only together with a margin release.
SettleFunds(f, pos, order, price) ==
    IF /\ Opposes(pos, order.request)
       /\ ReleasedMargin(pos, order.request) > 0
    THEN ReleaseMargin(f, ReleasedMargin(pos, order.request),
                       RealizedPnl(pos, order.request, price))
    ELSE f

\* _execute_order: the trade, the order, the position, the margin release
\* and the reconciliation that closes _update_position.  f0 is the funds row
\* when it starts (placement has just blocked the margin).
ExecuteOrder(o, order, f0, price) ==
    LET p   == order.request.product
        pos == positions[p]
        ps  == [positions EXCEPT ![p] = UpdatePosition(pos, order, price)]
    IN  /\ orders'    = [orders EXCEPT ![o] = [order EXCEPT !.status = "complete"]]
        /\ positions' = ps
        /\ funds'     = ReconcileMargin(SettleFunds(f0, pos, order, price), ps)
        /\ cashflow'  = [cashflow EXCEPT ![p] = @ - Signed(order.request) * price]
        /\ UNCHANGED <<holding, session, invested>>

-----------------------------------------------------------------------------
(* OrderManager                                                            *)

\* Fields that do not apply to a price type are dropped, so a request never
\* carries them; prices that apply are positive (_validate_order).
ValidRequest(r) ==
    /\ (r.price # 0)   <=> (r.type \in {"LIMIT", "SL"})
    /\ (r.trigger # 0) <=> (r.type \in {"SL", "SL-M"})

\* From square-off time until the next opening an MIS order is accepted only
\* if its side is opposite to an open position.
AcceptedAtThisHour(r) ==
    (r.product = "MIS" /\ session # "open") => Opposes(positions[r.product], r)

\* Shares a CNC SELL may refer to: the long position plus the holding.
Deliverable ==
    (IF positions["CNC"].quantity > 0 THEN positions["CNC"].quantity ELSE 0)
    + (IF holding.quantity > 0 THEN holding.quantity ELSE 0)

LacksShares(r) ==
    r.product = "CNC" /\ r.action = "SELL" /\ r.quantity > Deliverable

\* The prices margin may be computed from.  quote = 0 means no usable quote:
\* a MARKET order then falls back on the last price of the position row.
BasisPrices(r, quote) ==
    CASE r.type = "MARKET" /\ quote > 0 -> {quote}
      [] r.type = "MARKET" /\ quote = 0 ->
             IF positions[r.product].row = "absent" THEN {} ELSE Prices
      [] r.type = "LIMIT" -> {r.price}
      [] r.type \in {"SL", "SL-M"} -> {r.trigger}

\* An order against the position needs margin for its excess only.
MarginForOrder(r, basis) ==
    LET held == Abs(positions[r.product].quantity)
    IN  IF ~Opposes(positions[r.product], r)
        THEN MarginRequired(r, r.quantity, basis)
        ELSE IF r.quantity <= held
             THEN 0
             ELSE MarginRequired(r, r.quantity - held, basis)

\* Everything but a CNC SELL of owned shares blocks what it needs.
BlocksMargin(r) == r.action = "BUY" \/ r.product \in {"MIS", "NRML"}

FundsAfterBlock(r, margin) ==
    IF BlocksMargin(r) THEN BlockMargin(funds, margin) ELSE funds

\* A MARKET order stores the price its margin came from.
StoredOrder(r, basis, margin, status) ==
    [request |-> IF r.type = "MARKET" THEN [r EXCEPT !.price = basis] ELSE r,
     status  |-> status,
     margin  |-> margin]

FaultyAffordable(r, margin) ==
    (BlocksMargin(r) /\ margin > 0) => margin <= funds.available + funds.used

\* check_margin_available: an order that needs no margin is not checked.
Affordable(r, margin) ==
    (BlocksMargin(r) /\ margin > 0) => margin <= funds.available

\* A CNC SELL without the shares leaves a rejected order for the audit trail.
PlaceRejectedOrder(o, r, quote) ==
    /\ orders[o].status = "none"
    /\ AcceptedAtThisHour(r)
    /\ LacksShares(r)
    /\ \E basis \in BasisPrices(r, quote) :
          orders' = [orders EXCEPT ![o] = StoredOrder(r, basis, 0, "rejected")]
    /\ UNCHANGED <<positions, holding, funds, session, invested, cashflow>>

\* The order is booked and waits: its price conditions are not met, or there
\* was no quote to test them (nor to fill a MARKET order).
PlaceRestingOrder(o, r, quote) ==
    /\ orders[o].status = "none"
    /\ AcceptedAtThisHour(r)
    /\ ~LacksShares(r)
    /\ quote = 0 \/ ~Triggered(r, quote)
    /\ \E basis \in BasisPrices(r, quote) :
          LET margin == MarginForOrder(r, basis)
          IN  /\ Affordable(r, margin)
              /\ funds'  = FundsAfterBlock(r, margin)
              /\ orders' = [orders EXCEPT ![o] = StoredOrder(r, basis, margin, "open")]
    /\ UNCHANGED <<positions, holding, session, invested, cashflow>>

\* The order is booked and traded in the same call.
PlaceAndExecuteOrder(o, r, quote) ==
    /\ orders[o].status = "none"
    /\ AcceptedAtThisHour(r)
    /\ ~LacksShares(r)
    /\ quote > 0
    /\ Triggered(r, quote)
    /\ \E basis \in BasisPrices(r, quote), price \in PlacementFillPrices(r, quote) :
          LET margin == MarginForOrder(r, basis)
          IN  /\ Affordable(r, margin)
              /\ ExecuteOrder(o, StoredOrder(r, basis, margin, "open"),
                              FundsAfterBlock(r, margin), price)

PlaceOrder(o, r, quote) ==
    \/ PlaceRejectedOrder(o, r, quote)
    \/ PlaceRestingOrder(o, r, quote)
    \/ PlaceAndExecuteOrder(o, r, quote)

\* close_position: a MARKET order for the whole position, the other way.
CloseRequest(p) ==
    [product  |-> p,
     action   |-> IF positions[p].quantity > 0 THEN "SELL" ELSE "BUY",
     type     |-> "MARKET",
     quantity |-> Abs(positions[p].quantity),
     price    |-> 0,
     trigger  |-> 0]

ClosePosition(o, p, quote) ==
    /\ positions[p].quantity # 0
    /\ PlaceOrder(o, CloseRequest(p), quote)

\* New quantity, and new price or trigger where the type has one (0 keeps
\* the old one).  The blocked margin stays what it was.
ModifiedRequest(r, quantity, price, trigger) ==
    [product  |-> r.product,
     action   |-> r.action,
     type     |-> r.type,
     quantity |-> quantity,
     price    |-> IF price # 0 THEN price ELSE r.price,
     trigger  |-> IF trigger # 0 THEN trigger ELSE r.trigger]

FaultyModifyOrder(o, quantity, price, trigger) ==
    /\ orders[o].status \in {"open", "cancelled"}
    /\ price # 0 => orders[o].request.type \in {"LIMIT", "SL"}
    /\ trigger # 0 => orders[o].request.type \in {"SL", "SL-M"}
    /\ orders' = [orders EXCEPT ![o].status = "open",
                     ![o].request = ModifiedRequest(@, quantity, price, trigger)]
    /\ UNCHANGED <<positions, holding, funds, session, invested, cashflow>>

ModifyOrder(o, quantity, price, trigger) ==
    /\ orders[o].status = "open"
    /\ price # 0 => orders[o].request.type \in {"LIMIT", "SL"}
    /\ trigger # 0 => orders[o].request.type \in {"SL", "SL-M"}
    /\ orders' = [orders EXCEPT ![o] =
          [request |-> ModifiedRequest(orders[o].request, quantity, price, trigger),
           status  |-> "open",
           margin  |-> orders[o].margin]]
    /\ UNCHANGED <<positions, holding, funds, session, invested, cashflow>>

\* What cancel_order gives back: the margin stored with the order; without
\* one, a margin recomputed from the order as if all of it had been blocked
\* (an SL-M order has no price, so from the quote; 0 releases nothing).
MarginGivenBack(order, quote) ==
    IF order.margin > 0
    THEN order.margin
    ELSE IF BlocksMargin(order.request)
         THEN MarginRequired(order.request, order.request.quantity,
                             IF order.request.price # 0 THEN order.request.price
                             ELSE quote)
         ELSE 0

CancelOrder(o, quote) ==
    /\ orders[o].status = "open"
    /\ orders' = [orders EXCEPT ![o].status = "cancelled"]
    /\ funds' = ReleaseMargin(funds, MarginGivenBack(orders[o], quote), 0)
    /\ UNCHANGED <<positions, holding, session, invested, cashflow>>

\* One open order meets one quote in the engine.
ProcessOrder(o, ltp) ==
    /\ orders[o].status = "open"
    /\ Triggered(orders[o].request, ltp)
    /\ \E price \in EngineFillPrices(orders[o].request, ltp) :
          ExecuteOrder(o, orders[o], funds, price)

-----------------------------------------------------------------------------
(* Settlement, reset and the clock                                         *)

FaultySettleIntoHolding(pos) ==
    /\ holding.quantity # 0 => pos.quantity > 0
    /\ holding'  = [quantity |-> pos.quantity, cost |-> holding.cost + pos.cost]
    /\ funds'    = TransferMarginToHoldings(funds, pos.cost)
    /\ invested' = invested + pos.cost

\* A CNC position becomes (part of) the holding: its cost leaves used_margin.
\* With an existing holding the average is over |holding| + |position|.
SettleIntoHolding(pos) ==
    LET quantity == holding.quantity + pos.quantity
        shares   == Abs(holding.quantity) + Abs(pos.quantity)
    IN  /\ holding.quantity # 0 => pos.quantity > 0
        /\ holding'  = [quantity |-> quantity,
                        cost |-> Share(holding.cost + pos.cost, Abs(quantity), shares)]
        /\ funds'    = TransferMarginToHoldings(funds, pos.cost)
        /\ invested' = invested + pos.cost

\* A short CNC position is a sale out of the holding: proceeds are credited.
SettleSaleFromHolding(pos) ==
    LET quantity == holding.quantity + pos.quantity
    IN  /\ holding.quantity # 0
        /\ pos.quantity < 0
        /\ holding'  = [quantity |-> quantity,
                        cost |-> Share(holding.cost, Abs(quantity), Abs(holding.quantity))]
        /\ funds'    = CreditSaleProceeds(funds, pos.cost)
        /\ invested' = invested - pos.cost

\* process_t1_settlement: the CNC row of an earlier day is settled and deleted.
ProcessT1Settlement ==
    /\ "CNC" \in Products
    /\ positions["CNC"].row = "earlier"
    /\ IF positions["CNC"].quantity = 0
       THEN UNCHANGED <<holding, funds, invested>>
       ELSE \/ SettleIntoHolding(positions["CNC"])
            \/ SettleSaleFromHolding(positions["CNC"])
    /\ positions' = [positions EXCEPT !["CNC"] = NoPosition]
    /\ cashflow'  = [cashflow EXCEPT !["CNC"] = 0]
    /\ UNCHANGED <<orders, session>>

\* _reset_funds: back to the starting capital, positions and holdings are
\* deleted, orders are not touched.
ResetFunds ==
    /\ AutoReset
    /\ funds'     = [available |-> Capital, used |-> 0, realized |-> 0]
    /\ positions' = [p \in Products |-> NoPosition]
    /\ holding'   = [quantity |-> 0, cost |-> 0]
    /\ invested'  = 0
    /\ cashflow'  = [p \in Products |-> 0]
    /\ UNCHANGED <<orders, session>>

\* Square-off time, then midnight, then the opening at 09:00.  At midnight
\* the rows created today become rows of an earlier day.
SquareOffTime ==
    /\ session = "open"
    /\ session' = "closed"
    /\ UNCHANGED <<orders, positions, holding, funds, invested, cashflow>>

Midnight ==
    /\ session = "closed"
    /\ session' = "night"
    /\ positions' = [p \in Products |->
                        IF positions[p].row = "today"
                        THEN [positions[p] EXCEPT !.row = "earlier"]
                        ELSE positions[p]]
    /\ UNCHANGED <<orders, holding, funds, invested, cashflow>>

MarketOpening ==
    /\ session = "night"
    /\ session' = "open"
    /\ UNCHANGED <<orders, positions, holding, funds, invested, cashflow>>

\* The requests a user may submit.
Requests == {r \in [product  : Products,
                    action   : Actions,
                    type     : OrderTypes,
                    quantity : Quantities,
                    price    : Prices \cup {0},
                    trigger  : Prices \cup {0}] : ValidRequest(r)}

Quotes == Prices \cup {0}

Init ==
    /\ orders    = [o \in OrderIds |-> NoOrder]
    /\ positions = [p \in Products |-> NoPosition]
    /\ holding   = [quantity |-> 0, cost |-> 0]
    /\ funds     = [available |-> Capital, used |-> 0, realized |-> 0]
    /\ session   = "open"
    /\ invested  = 0
    /\ cashflow  = [p \in Products |-> 0]

Next ==
    \/ \E o \in OrderIds, r \in Requests, quote \in Quotes : PlaceOrder(o, r, quote)
    \/ \E o \in OrderIds, p \in Products, quote \in Quotes : ClosePosition(o, p, quote)
    \/ \E o \in OrderIds, price, trigger \in Quotes :
          \E q \in Quantities \cup {orders[o].request.quantity} :
             ModifyOrder(o, q, price, trigger)
    \/ \E o \in OrderIds, quote \in Quotes : CancelOrder(o, quote)
    \/ \E o \in OrderIds, ltp \in Prices : ProcessOrder(o, ltp)
    \/ ProcessT1Settlement
    \/ ResetFunds
    \/ SquareOffTime
    \/ Midnight
    \/ MarketOpening

Spec == Init /\ [][Next]_vars

-----------------------------------------------------------------------------
(* Properties                                                              *)

\* Every row holds values of its column's kind; blocked margins and costs
\* are never negative, balances may be.
TypeOK ==
    /\ orders \in [OrderIds -> Order \cup {NoOrder}]
    /\ positions \in [Products -> Position]
    /\ holding \in [quantity : Int, cost : Nat]
    /\ funds \in Funds
    /\ session \in Sessions
    /\ invested \in Int
    /\ cashflow \in [Products -> Int]

\* No call creates or destroys cash: what is available plus what is blocked
\* is the capital plus the realized profit, less what sits in the holding.
CashConserved ==
    funds.available + funds.used = Capital + funds.realized - invested

SignedCost(pos) == IF pos.quantity > 0 THEN pos.cost ELSE -pos.cost

\* The netting of _update_position keeps books: through opening, averaging,
\* partial closure, reversal and reopening, the realized profit of a row is
\* what its trades took in plus what its open quantity cost.
RealizedMatchesTrades ==
    \A p \in Products :
        positions[p].realized = cashflow[p] + SignedCost(positions[p])

\* A closed row keeps neither margin nor cost, whatever sequence of fills
\* and modifications led to it.
FlatHasNoMargin ==
    \A p \in Products :
        positions[p].quantity = 0 => positions[p].margin = 0 /\ positions[p].cost = 0

Completes(o) == orders[o].status # "complete" /\ orders'[o].status = "complete"

\* After every fill used_margin is exactly the margin of the open positions
\* (validate_margin_consistency has nothing to report).
FillReconcilesMargin ==
    [][\A o \in OrderIds :
          Completes(o) => funds'.used = PositionMargin(positions')]_vars

\* A complete, cancelled or rejected order is never touched again: not by a
\* modification, a later quote, the square-off or a reset.
TerminalOrderIsFinal ==
    [][\A o \in OrderIds :
          orders[o].status \in Terminal => orders'[o] = orders[o]]_vars

Shares(ps, h, p) == ps[p].quantity + (IF p = "CNC" THEN h.quantity ELSE 0)

Trades(o, p) == Completes(o) /\ orders'[o].request.product = p

\* Shares move only by trades, and by every trade: a fill changes position
\* plus holding by exactly the signed quantity of its order and of no other;
\* settlement, cancellation, modification and the clock change nothing.  Only
\* a reset may drop what there is.
SharesFollowTrades ==
    [][ResetFunds \/
       \A p \in Products :
          IF \E o \in OrderIds : Trades(o, p)
          THEN \E o \in OrderIds :
                  /\ \A x \in OrderIds : Trades(x, p) <=> x = o
                  /\ Shares(positions', holding', p) =
                        Shares(positions, holding, p) + Signed(orders'[o].request)
          ELSE Shares(positions', holding', p) = Shares(positions, holding, p)]_vars

\* Booking an order that then waits never overdraws the account.
RestingOrderIsAffordable ==
    [][\A o \in OrderIds :
          orders[o].status = "none" /\ orders'[o].status = "open"
              => funds'.available >= 0 \/ funds' = funds]_vars

\* A fill books its profit in the funds row too, except when the position it
\* closed had no margin to release.
ProfitBookedOnce ==
    [][\A o \in OrderIds :
          Completes(o) =>
              LET r == orders'[o].request
                  p == r.product
              IN  \/ funds'.realized - funds.realized
                         = positions'[p].realized - positions[p].realized
                  \/ /\ funds'.realized = funds.realized
                     /\ ReleasedMargin(positions[p], r) = 0]_vars

=============================================================================
