-------------------------------- MODULE Orders --------------------------------
(***************************************************************************)
(* Placing, paying, cancelling and expiring orders.                        *)
(*                                                                         *)
(* A request handler reads rows, awaits, and then commits one database     *)
(* transaction (Postgres, READ COMMITTED).  A handler is therefore several *)
(* actions here: what it read is a snapshot in req[p] that may be stale    *)
(* when its transaction, one atomic action, runs.  Increments and          *)
(* conditional updates act on the current row, never on the snapshot.      *)
(*                                                                         *)
(* Left out: prices (an order's total is any value of Totals), ownership   *)
(* checks, notifications, status history, discount codes.                  *)
(***************************************************************************)
EXTENDS Integers, Functions

CONSTANTS
    Users,            \* customers
    Variants,         \* product variants
    Products,
    ProductOf,        \* the product each variant belongs to
    InitialStock,     \* units of each variant on the shelf at the start
    Balances,         \* wallet balances a customer may start with (a debt is negative)
    Totals,           \* what an order may cost
    PaymentMethods,   \* the payment methods customers choose
    Quantities,       \* how many units one addItem call may ask for
    OrderIds,         \* 1..n, handed out in order
    Requests,         \* handlers of HTTP requests that can be in flight together
    Job,              \* the expire-stale-orders job
    AdminStatuses,    \* statuses the admin panel is used to write
    MaxSold,          \* bound on totalSold
    Nobody            \* no user, no order

ASSUME ConstantsOK ==
    /\ ProductOf \in [Variants -> Products]
    /\ InitialStock \in [Variants -> Nat]
    /\ Balances \subseteq Int
    /\ Totals \subseteq Nat
    /\ Quantities \subseteq Nat \ {0}
    /\ OrderIds \subseteq Nat
    /\ MaxSold \in Nat
    /\ Job \notin Requests
    /\ Nobody \notin Users \cup OrderIds

VARIABLES
    stock,            \* ProductVariant.stock
    isInStock,        \* Product.isInStock, the denormalised flag listings filter on
    totalSold,        \* Product.totalSold, kept per variant
    cart,             \* cart[u][v]: quantity of v in u's cart
    wallet,           \* Wallet.balance
    order,            \* the Order row with its transactions and cancellation
    captured,         \* orders whose customer has paid on the gateway's page
    req               \* the handlers in flight

vars == <<stock, isInStock, totalSold, cart, wallet, order, captured, req>>
-------------------------------------------------------------------------------
Statuses == {"PENDING_PAYMENT", "PROCESSING", "SHIPPED", "DELIVERED", "CANCELLED",
             "RETURN_REQUESTED", "RETURNED", "REFUNDED", "FAILED"}

ASSUME AdminStatusesOK == AdminStatuses \subseteq Statuses

CANCELLABLE_STATUSES == {"PENDING_PAYMENT", "PROCESSING"}

Methods == {"GATEWAY", "WALLET", "MIXED", "FREIGHT_COLLECT"}

ASSUME PaymentMethodsOK == PaymentMethods \subseteq Methods

Items == [Variants -> Nat]

NoItems == [v \in Variants |-> 0]

\* walletPaid is the PURCHASE row of the wallet ledger, walletRefund the sum of
\* the REFUND rows; payment and refId belong to the ORDER_PAYMENT transaction,
\* gatewayRefund counts REFUND transactions; cancelled: an OrderCancellation
\* row exists.
Order == [status : Statuses \cup {"none"}, user : Users \cup {Nobody}, items : Items,
          method : Methods, total : Nat, walletPaid : Nat, gatewayDue : Nat, paidAt : BOOLEAN,
          payment : {"none", "PENDING", "FAILED", "SUCCESS"},
          refId : {"none", "session", "receipt"},
          cancelled : BOOLEAN, walletRefund : Nat, gatewayRefund : Nat]

NoOrder == [status |-> "none", user |-> Nobody, items |-> NoItems,
            method |-> "GATEWAY", total |-> 0, walletPaid |-> 0, gatewayDue |-> 0, paidAt |-> FALSE,
            payment |-> "none", refId |-> "none",
            cancelled |-> FALSE, walletRefund |-> 0, gatewayRefund |-> 0]

Exists(o) == order[o].status # "none"

Phases == {"idle", "pricing", "placing", "recompute", "writeAggregates",
           "initiating", "claiming", "verifying", "confirmed",
           "cancelling", "setStatus"}

\* What a handler has read so far.  order: the row it works on; user, items,
\* method: the cart and the input of createOrder; total, walletPortion: the
\* amounts it computed; paidAt, status, wasDelivered: snapshots of the row;
\* inStock: what recomputeProductAggregates saw.
Request == [phase : Phases, order : OrderIds \cup {Nobody}, user : Users \cup {Nobody},
            items : Items, method : Methods, total : Nat, walletPortion : Int,
            paidAt : BOOLEAN, status : Statuses, wasDelivered : BOOLEAN,
            inStock : SUBSET Products]

Idle == [phase |-> "idle", order |-> Nobody, user |-> Nobody,
         items |-> NoItems, method |-> "GATEWAY", total |-> 0, walletPortion |-> 0,
         paidAt |-> FALSE, status |-> "PENDING_PAYMENT", wasDelivered |-> FALSE,
         inStock |-> {}]

Handlers == Requests \cup {Job}

In(p, phase) == req[p].phase = phase

Lesser(a, b) == IF a <= b THEN a ELSE b

StockedProducts == {ProductOf[v] : v \in {w \in Variants : stock[w] > 0}}

Init ==
    /\ stock = InitialStock
    /\ isInStock = [pr \in Products |-> pr \in StockedProducts]
    /\ totalSold = [v \in Variants |-> 0]
    /\ cart = [u \in Users |-> NoItems]
    /\ wallet \in [Users -> Balances]
    /\ order = [o \in OrderIds |-> NoOrder]
    /\ captured = {}
    /\ req = [p \in Handlers |-> Idle]
-------------------------------------------------------------------------------
(***************************************************************************)
(* The cart.  addItem caps the line at the stock it sees.                  *)
(***************************************************************************)
AddItem(u, v, quantity) ==
    /\ stock[v] > 0
    /\ cart' = [cart EXCEPT ![u][v] = Lesser(@ + quantity, stock[v])]
    /\ UNCHANGED <<stock, isInStock, totalSold, wallet, order, captured, req>>

(***************************************************************************)
(* createOrder: read the cart, compute the amounts, place the order.       *)
(***************************************************************************)
\* A line is available while its variant has any stock at all.
CreateOrder(p, u, method) ==
    /\ In(p, "idle")
    /\ cart[u] # NoItems
    /\ \A v \in Variants : cart[u][v] > 0 => stock[v] > 0
    /\ req' = [req EXCEPT ![p] = [Idle EXCEPT !.phase = "pricing", !.user = u,
                                              !.items = cart[u], !.method = method]]
    /\ UNCHANGED <<stock, isInStock, totalSold, cart, wallet, order, captured>>

\* Faulty: MIXED hands the wallet the whole balance.
WalletPortionUncapped(method, balance, total) ==
    CASE method = "WALLET" -> total
      [] method = "MIXED"  -> balance
      [] OTHER             -> 0

\* The part of the total the wallet pays, of the balance read now.
WalletPortion(method, balance, total) ==
    CASE method = "WALLET" -> total
      [] method = "MIXED"  -> Lesser(balance, total)
      [] OTHER             -> 0

PriceOrder(p, total) ==
    LET r == req[p]
        balance == wallet[r.user]
    IN  /\ In(p, "pricing")
        /\ r.method = "WALLET" => balance >= total
        /\ req' = [req EXCEPT ![p].phase = "placing", ![p].total = total,
                              ![p].walletPortion = WalletPortion(r.method, balance, total)]
        /\ UNCHANGED <<stock, isInStock, totalSold, cart, wallet, order, captured>>

\* Faulty: a plain decrement.
CanReserveUnchecked(items) == TRUE

\* updateMany where stock >= quantity: the units are there when they are taken.
CanReserve(items) == \A v \in Variants : items[v] <= stock[v]

\* Faulty: the debit is dropped when the balance no longer covers it.
WalletDebitIfCovered(r) ==
    IF r.walletPortion > 0 /\ wallet[r.user] >= r.walletPortion THEN r.walletPortion ELSE 0

\* The ledger row and the decrement are skipped unless the portion is positive.
WalletDebit(r) == IF r.walletPortion > 0 THEN r.walletPortion ELSE 0

GatewayPortion(r) == IF r.method = "FREIGHT_COLLECT" THEN 0 ELSE r.total - r.walletPortion

\* Faulty: freight-collect orders count as paid.
NothingDueNow(r) == GatewayPortion(r) = 0

IsFullyPaidNow(r) == r.method # "FREIGHT_COLLECT" /\ GatewayPortion(r) = 0

NewOrder(r) ==
    [NoOrder EXCEPT
        !.status = IF r.method = "FREIGHT_COLLECT" \/ IsFullyPaidNow(r)
                   THEN "PROCESSING" ELSE "PENDING_PAYMENT",
        !.user = r.user,
        !.items = r.items,
        !.method = r.method,
        !.total = r.total,
        !.walletPaid = WalletDebit(r),
        !.gatewayDue = GatewayPortion(r),
        !.paidAt = IsFullyPaidNow(r),
        !.payment = IF GatewayPortion(r) > 0 THEN "PENDING" ELSE "none"]

\* The next value of the autoincrement key.
NextId(o) == ~Exists(o) /\ \A i \in OrderIds : i < o => Exists(i)

\* The transaction of createOrder; it empties the whole cart, lines added since
\* it was read included.
PlaceOrder(p, o) ==
    LET r == req[p]
    IN  /\ In(p, "placing")
        /\ NextId(o)
        /\ CanReserve(r.items)
        /\ stock' = [v \in Variants |-> stock[v] - r.items[v]]
        /\ order' = [order EXCEPT ![o] = NewOrder(r)]
        /\ wallet' = [wallet EXCEPT ![r.user] = @ - WalletDebit(r)]
        /\ cart' = [cart EXCEPT ![r.user] = NoItems]
        /\ req' = [req EXCEPT ![p] = [Idle EXCEPT !.phase = "recompute", !.order = o]]
        /\ UNCHANGED <<isInStock, totalSold, captured>>

(***************************************************************************)
(* recomputeProductAggregates, awaited after the transaction by placing    *)
(* and cancelling: read the variants, then write the flag.                 *)
(***************************************************************************)
Affected(o) == {ProductOf[v] : v \in {w \in Variants : order[o].items[w] > 0}}

RecomputeRead(p) ==
    /\ In(p, "recompute")
    /\ req' = [req EXCEPT ![p].phase = "writeAggregates",
                          ![p].inStock = StockedProducts \cap Affected(req[p].order)]
    /\ UNCHANGED <<stock, isInStock, totalSold, cart, wallet, order, captured>>

RecomputeWrite(p) ==
    /\ In(p, "writeAggregates")
    /\ isInStock' = [pr \in Products |-> IF pr \in Affected(req[p].order)
                                         THEN pr \in req[p].inStock ELSE isInStock[pr]]
    /\ req' = [req EXCEPT ![p] = Idle]
    /\ UNCHANGED <<stock, totalSold, cart, wallet, order, captured>>
-------------------------------------------------------------------------------
(***************************************************************************)
(* Paying at the gateway.                                                  *)
(***************************************************************************)
Payable(o) == order[o].status = "PENDING_PAYMENT" /\ order[o].payment = "PENDING"

InitiateOrderPayment(p, o) ==
    /\ In(p, "idle")
    /\ Payable(o)
    /\ req' = [req EXCEPT ![p] = [Idle EXCEPT !.phase = "initiating", !.order = o]]
    /\ UNCHANGED <<stock, isInStock, totalSold, cart, wallet, order, captured>>

\* The gateway opened a session: its reference overwrites refId, whatever became
\* of the payment meanwhile, and the customer is redirected.
InitiateAnswer(p) ==
    /\ In(p, "initiating")
    /\ order' = [order EXCEPT ![req[p].order].refId = "session"]
    /\ req' = [req EXCEPT ![p] = Idle]
    /\ UNCHANGED <<stock, isInStock, totalSold, cart, wallet, captured>>

\* The customer pays on the gateway's page, at any time once redirected there.
CustomerPays(o) ==
    /\ order[o].refId # "none"
    /\ o \notin captured
    /\ captured' = captured \cup {o}
    /\ UNCHANGED <<stock, isInStock, totalSold, cart, wallet, order, req>>

\* verifyOrderPayment asks for a PENDING transaction; of the order it asks only
\* who owns it.
VerifyOrderPayment(p, o) ==
    /\ In(p, "idle")
    /\ order[o].payment = "PENDING"
    /\ req' = [req EXCEPT ![p] = [Idle EXCEPT !.phase = "claiming", !.order = o]]
    /\ UNCHANGED <<stock, isInStock, totalSold, cart, wallet, order, captured>>

\* Faulty: the PENDING row read before is trusted.
ClaimableUnchecked(o) == TRUE

\* The compare-and-swap PENDING -> FAILED; a request that loses it bails out.
Claimable(o) == order[o].payment = "PENDING"

ClaimPayment(p) ==
    LET o == req[p].order
    IN  /\ In(p, "claiming")
        /\ IF Claimable(o)
           THEN /\ order' = [order EXCEPT ![o].payment = "FAILED"]
                /\ req' = [req EXCEPT ![p].phase = "verifying"]
           ELSE /\ req' = [req EXCEPT ![p] = Idle]
                /\ UNCHANGED order
        /\ UNCHANGED <<stock, isInStock, totalSold, cart, wallet, captured>>

\* Faulty: the parameters the customer came back with are believed.
GatewayConfirmsAnything(o) == TRUE

\* The gateway confirms only money it holds.
GatewayConfirms(o) == o \in captured

GatewayAnswer(p) ==
    /\ In(p, "verifying")
    /\ \/ /\ GatewayConfirms(req[p].order)
          /\ req' = [req EXCEPT ![p].phase = "confirmed"]
       \/ req' = [req EXCEPT ![p] = Idle]
    /\ UNCHANGED <<stock, isInStock, totalSold, cart, wallet, order, captured>>

\* The order becomes PROCESSING whatever its status is by now.
VerifyCommit(p) ==
    /\ In(p, "confirmed")
    /\ order' = [order EXCEPT ![req[p].order] =
                    [@ EXCEPT !.payment = "SUCCESS", !.refId = "receipt",
                              !.status = "PROCESSING", !.paidAt = TRUE]]
    /\ req' = [req EXCEPT ![p] = Idle]
    /\ UNCHANGED <<stock, isInStock, totalSold, cart, wallet, captured>>
-------------------------------------------------------------------------------
(***************************************************************************)
(* Cancelling, by the customer, by an admin or by the job.                 *)
(***************************************************************************)
StartCancellation(p, o) ==
    /\ In(p, "idle")
    /\ req' = [req EXCEPT ![p] = [Idle EXCEPT !.phase = "cancelling", !.order = o,
                                              !.paidAt = order[o].paidAt]]
    /\ UNCHANGED <<stock, isInStock, totalSold, cart, wallet, order, captured>>

\* cancelOrder, cancelOrderAdmin, and CANCELLED chosen in the admin's status list.
CancelOrder(p, o) == order[o].status \in CANCELLABLE_STATUSES /\ StartCancellation(p, o)

\* Faulty: orders whose payment failed are passed over.
AwaitsPayment(o) == Payable(o)

\* An unpaid order is stale at some time or other.
Stale(o) == order[o].status = "PENDING_PAYMENT"

\* One round of the job's loop.
ExpireStaleOrder(o) == Stale(o) /\ StartCancellation(Job, o)

\* Faulty: no unique constraint.
CancellableAgain(o) == TRUE

\* orderId is unique among the OrderCancellation rows.
NotYetCancelled(o) == ~order[o].cancelled

\* The wallet part comes back only if the order had been paid when it was read;
\* the gateway part is registered as a refund the finance team owes.
CancelledOrder(o, paidAt) ==
    [order[o] EXCEPT
        !.status = "CANCELLED",
        !.cancelled = TRUE,
        !.walletRefund = IF paidAt THEN @ + order[o].walletPaid ELSE @,
        !.gatewayRefund = IF paidAt /\ order[o].payment = "SUCCESS" THEN @ + 1 ELSE @]

PerformCancellation(p) ==
    LET o == req[p].order
        new == CancelledOrder(o, req[p].paidAt)
    IN  /\ In(p, "cancelling")
        /\ NotYetCancelled(o)
        /\ stock' = [v \in Variants |-> stock[v] + order[o].items[v]]
        /\ wallet' = [wallet EXCEPT ![order[o].user] =
                            @ + new.walletRefund - order[o].walletRefund]
        /\ order' = [order EXCEPT ![o] = new]
        /\ req' = [req EXCEPT ![p] = [Idle EXCEPT !.phase = "recompute", !.order = o]]
        /\ UNCHANGED <<isInStock, totalSold, cart, captured>>

\* The unique constraint rolls a second cancellation back.
CancellationConflict(p) ==
    /\ In(p, "cancelling")
    /\ ~NotYetCancelled(req[p].order)
    /\ req' = [req EXCEPT ![p] = Idle]
    /\ UNCHANGED <<stock, isInStock, totalSold, cart, wallet, order, captured>>
-------------------------------------------------------------------------------
(***************************************************************************)
(* updateOrderStatusAdmin writes any status.  CANCELLED on an order that   *)
(* is not CANCELLED takes the path of CancelOrder instead.                 *)
(***************************************************************************)
\* Faulty: only an order that was SHIPPED is counted.
ShippedThenDelivered(o, status) == status = "DELIVERED" /\ order[o].status = "SHIPPED"

WasDelivered(o, status) == status = "DELIVERED" /\ order[o].status # "DELIVERED"

UpdateOrderStatusAdmin(p, o, status) ==
    /\ In(p, "idle")
    /\ Exists(o)
    /\ status = "CANCELLED" => order[o].status = "CANCELLED"
    /\ req' = [req EXCEPT ![p] =
                [Idle EXCEPT !.phase = "setStatus", !.order = o, !.status = status,
                             !.wasDelivered = WasDelivered(o, status)]]
    /\ UNCHANGED <<stock, isInStock, totalSold, cart, wallet, order, captured>>

SoldBy(p) == IF req[p].wasDelivered THEN order[req[p].order].items ELSE NoItems

WriteOrderStatus(p) ==
    /\ In(p, "setStatus")
    /\ \A v \in Variants : totalSold[v] + SoldBy(p)[v] <= MaxSold
    /\ order' = [order EXCEPT ![req[p].order].status = req[p].status]
    /\ totalSold' = [v \in Variants |-> totalSold[v] + SoldBy(p)[v]]
    /\ req' = [req EXCEPT ![p] = Idle]
    /\ UNCHANGED <<stock, isInStock, cart, wallet, captured>>

(***************************************************************************)
(* A handler that throws, loses its database or dies with its process: it  *)
(* leaves behind what it had committed, and nothing of what it had not.    *)
(***************************************************************************)
Fail(p) ==
    /\ ~In(p, "idle")
    /\ req' = [req EXCEPT ![p] = Idle]
    /\ UNCHANGED <<stock, isInStock, totalSold, cart, wallet, order, captured>>
-------------------------------------------------------------------------------
Step(p) ==
    \/ RecomputeRead(p) \/ RecomputeWrite(p)
    \/ PerformCancellation(p) \/ CancellationConflict(p)
    \/ Fail(p)

Handle(p) ==
    \/ \E u \in Users, method \in PaymentMethods : CreateOrder(p, u, method)
    \/ \E total \in Totals : PriceOrder(p, total)
    \/ \E o \in OrderIds : PlaceOrder(p, o)
    \/ \E o \in OrderIds : InitiateOrderPayment(p, o)
    \/ InitiateAnswer(p)
    \/ \E o \in OrderIds : VerifyOrderPayment(p, o)
    \/ ClaimPayment(p)
    \/ GatewayAnswer(p)
    \/ VerifyCommit(p)
    \/ \E o \in OrderIds : CancelOrder(p, o)
    \/ \E o \in OrderIds, status \in AdminStatuses : UpdateOrderStatusAdmin(p, o, status)
    \/ WriteOrderStatus(p)

Next ==
    \/ \E u \in Users, v \in Variants, q \in Quantities : AddItem(u, v, q)
    \/ \E o \in OrderIds : CustomerPays(o)
    \/ \E o \in OrderIds : ExpireStaleOrder(o)
    \/ \E p \in Requests : Handle(p)
    \/ \E p \in Handlers : Step(p)

Spec == Init /\ [][Next]_vars

\* The scheduler runs the job for ever, each round visits every stale order, and
\* its transaction does not fail every time.  Nothing is assumed of customers,
\* admins, the gateway or HTTP requests.
JobFairness ==
    /\ \A o \in OrderIds : SF_vars(ExpireStaleOrder(o))
    /\ SF_vars(PerformCancellation(Job))
    /\ WF_vars(CancellationConflict(Job))
    /\ WF_vars(RecomputeRead(Job))
    /\ WF_vars(RecomputeWrite(Job))

FairSpec == Spec /\ JobFairness
-------------------------------------------------------------------------------
(***************************************************************************)
(* Properties.                                                             *)
(***************************************************************************)

\* Every row and every handler in flight has its shape.
TypeOK ==
    /\ stock \in [Variants -> Int]
    /\ isInStock \in [Products -> BOOLEAN]
    /\ totalSold \in [Variants -> Nat]
    /\ cart \in [Users -> Items]
    /\ wallet \in [Users -> Int]
    /\ order \in [OrderIds -> Order]
    /\ captured \subseteq OrderIds
    /\ req \in [Handlers -> Request]

\* However many checkouts race for the last unit, and whatever their carts said
\* when they were read, no variant is sold below zero: the conditional
\* decrement of createOrder's transaction.
StockNeverNegative == \A v \in Variants : stock[v] >= 0

\* A request of verifyOrderPayment past its claim.
Holds(p, o) == req[p].phase \in {"verifying", "confirmed"} /\ req[p].order = o

\* verifyOrderPayment's compare-and-swap: among double-clicks and retries one
\* request at most talks to the gateway about an order, and while it does the
\* transaction reads FAILED.
OneClaimHolder ==
    \A o \in OrderIds, p \in Requests :
        Holds(p, o) => /\ order[o].payment = "FAILED"
                       /\ \A q \in Requests : Holds(q, o) => q = p

\* Cancelling gives back at most what was paid, once, however customer, admin
\* and job race: the wallet part whole or not at all, the gateway part only for
\* a payment that succeeded (performCancellation).
RefundsMatchPayments ==
    \A o \in OrderIds :
        /\ order[o].walletRefund \in {0, order[o].walletPaid}
        /\ order[o].walletRefund > 0 => order[o].cancelled
        /\ order[o].gatewayRefund \in {0, 1}
        /\ order[o].gatewayRefund = 1 => /\ order[o].payment = "SUCCESS"
                                         /\ order[o].cancelled

\* An order counts as paid exactly when its gateway part, if it has one, was
\* verified, and that only for money the gateway captured.
PaidOrdersAreSettled ==
    \A o \in OrderIds :
        /\ order[o].paidAt =>
              order[o].method # "FREIGHT_COLLECT"
              /\ (order[o].gatewayDue = 0 \/ order[o].payment = "SUCCESS")
        /\ order[o].payment = "SUCCESS" => order[o].paidAt /\ o \in captured

\* Wallet and gateway together cover the total of a prepaid order, whatever the
\* balance became between the check and the debit.
NeverUndercharged ==
    \A o \in OrderIds :
        order[o].method # "FREIGHT_COLLECT" =>
            order[o].walletPaid + order[o].gatewayDue >= order[o].total

\* Units of v in a set of orders.
UnitsIn(orders, v) == SumFunctionOnSet([o \in OrderIds |-> order[o].items[v]], orders)

\* Every unit is on the shelf or belongs to exactly one order that was not
\* cancelled: createOrder, performCancellation.
StockConserved ==
    \A v \in Variants :
        stock[v] + UnitsIn({o \in OrderIds : Exists(o) /\ ~order[o].cancelled}, v)
            = InitialStock[v]

\* totalSold never misses a delivered order: updateOrderStatusAdmin decides from
\* a stale row whether to count it.
SoldCoversDelivered ==
    \A v \in Variants :
        UnitsIn({o \in OrderIds : order[o].status = "DELIVERED"}, v) <= totalSold[v]

\* What an order did to the shelf.
ReservationOf(o) ==
    [state |-> IF ~Exists(o) THEN "none"
               ELSE IF order[o].cancelled THEN "released" ELSE "held",
     items |-> order[o].items]

Reservation == INSTANCE StockReservation
    WITH shelf <- stock, reservation <- [o \in OrderIds |-> ReservationOf(o)]

\* Placing and cancelling are a stock reservation: all lines or none, released
\* whole and at most once.  No payment, admin or job step touches the shelf.
ReservationSpec == Reservation!Spec

\* How far an order's gateway payment has come.
PaymentState(o) ==
    CASE order[o].payment = "none" -> "none"
      [] order[o].payment = "PENDING" -> "open"
      [] order[o].payment = "SUCCESS" -> "settled"
      [] OTHER -> IF \E p \in Requests : Holds(p, o) THEN "claimed" ELSE "dropped"

Payment == INSTANCE Settlement
    WITH Payments <- OrderIds, state <- [o \in OrderIds |-> PaymentState(o)]

\* Paying at the gateway is a settlement: claimed once, applied once, never after
\* it failed, and only for captured money.
PaymentSpec == Payment!Spec

\* The stock an abandoned checkout holds is not locked for ever: an unpaid order
\* is paid, moved on, or cancelled by the job (expire-stale-orders.job.ts).
UnpaidOrdersAreReleased ==
    \A o \in OrderIds :
        (order[o].status = "PENDING_PAYMENT" /\ ~order[o].cancelled)
            ~> (order[o].status # "PENDING_PAYMENT" \/ order[o].cancelled)
-------------------------------------------------------------------------------
(***************************************************************************)
(* What comments, messages and documents say and the code does not do.     *)
(***************************************************************************)

\* An order that is being fulfilled still owns its units (order.service.ts
\* 33-38, expire-stale-orders.job.ts 6-10: two customers cannot order the last
\* unit).
FulfilledOrdersHoldStock ==
    \A o \in OrderIds :
        order[o].status \in {"PROCESSING", "SHIPPED", "DELIVERED"} => ~order[o].cancelled

\* Cancelling before shipment returns stock and money (README.md 48).
CancellationReturnsMoney ==
    \A o \in OrderIds :
        order[o].status = "CANCELLED" /\ order[o].cancelled =>
            /\ order[o].walletRefund = order[o].walletPaid
            /\ order[o].payment = "SUCCESS" => order[o].gatewayRefund = 1

\* "The payment failed; you can try again" (order-payment.service.ts 115):
\* while an order waits for payment and nobody is verifying one, there is a
\* PENDING transaction to pay.
FailedPaymentCanBeRetried ==
    \A o \in OrderIds :
        order[o].status = "PENDING_PAYMENT" /\ (\A p \in Requests : ~Holds(p, o))
            => order[o].payment = "PENDING"
===============================================================================
