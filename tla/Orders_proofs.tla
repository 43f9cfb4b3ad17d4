---------------------------- MODULE Orders_proofs ----------------------------
(***************************************************************************)
(* Proofs about Orders, for any number of customers, variants, orders and  *)
(* concurrent requests: its safety; that every step is a step, or none, of *)
(* what the shop promises about stock and about gateway payments; what     *)
(* adds up over all orders.                                                *)
(***************************************************************************)
EXTENDS Orders, Sums_proofs

\* Phases in which a handler works on an order it has read or placed.
WorkPhases == {"recompute", "writeAggregates", "initiating", "claiming", "verifying",
               "confirmed", "cancelling", "setStatus"}

\* What the phases say about a handler's locals.
LocalsOK ==
    \A p \in Handlers :
        /\ req[p].phase \in WorkPhases => req[p].order \in OrderIds
        /\ req[p].phase \in {"pricing", "placing"} => req[p].user \in Users
        /\ req[p].phase = "placing" => req[p].walletPortion <= req[p].total

Typing == TypeOK /\ LocalsOK

LEMMA TypingInit == Init => Typing
  <1> SUFFICES ASSUME Init PROVE Typing
    OBVIOUS
  <1> USE ConstantsOK
  <1>1. NoItems \in Items
    BY DEF NoItems, Items
  <1>2. NoOrder \in Order
    BY <1>1 DEF NoOrder, Order, Methods
  <1>3. Idle \in Request
    BY <1>1 DEF Idle, Request, Phases, Methods, Statuses
  <1>4. TypeOK
    <2>1. stock \in [Variants -> Int] /\ totalSold \in [Variants -> Nat]
      BY DEF Init
    <2>2. isInStock \in [Products -> BOOLEAN]
      BY DEF Init
    <2>3. cart \in [Users -> Items] /\ order \in [OrderIds -> Order]
          /\ req \in [Handlers -> Request]
      BY <1>1, <1>2, <1>3 DEF Init
    <2>4. wallet \in [Users -> Int] /\ captured \subseteq OrderIds
      BY DEF Init
    <2> QED
      BY <2>1, <2>2, <2>3, <2>4 DEF TypeOK
  <1>5. LocalsOK
    BY DEF Init, LocalsOK, Idle, WorkPhases
  <1> QED
    BY <1>4, <1>5 DEF Typing

\* A handler's new locals keep the typing if they are well typed themselves.
LEMMA NewLocals ==
  ASSUME Typing, NEW p \in Handlers, NEW r \in Request,
         req' = [req EXCEPT ![p] = r],
         r.phase \in WorkPhases => r.order \in OrderIds,
         r.phase \in {"pricing", "placing"} => r.user \in Users,
         r.phase = "placing" => r.walletPortion <= r.total
  PROVE  req' \in [Handlers -> Request] /\ LocalsOK'
  BY DEF Typing, TypeOK, LocalsOK

LEMMA IdleTyped == Idle \in Request /\ Idle.phase = "idle" /\ NoItems \in Items
  BY DEF Idle, Request, Phases, Methods, Statuses, NoItems, Items

\* What a handler does after it has idled or reached its last step.
LEMMA BackToIdle ==
  ASSUME Typing, NEW p \in Handlers, req' = [req EXCEPT ![p] = Idle]
  PROVE  req' \in [Handlers -> Request] /\ LocalsOK'
  BY IdleTyped, NewLocals DEF WorkPhases

LEMMA NewOrderTyped ==
  ASSUME NEW r \in Request, r.user \in Users, WalletDebit(r) \in Nat, GatewayPortion(r) \in Nat
  PROVE  NewOrder(r) \in Order
  <1> DEFINE status == IF r.method = "FREIGHT_COLLECT" \/ IsFullyPaidNow(r)
                       THEN "PROCESSING" ELSE "PENDING_PAYMENT"
             payment == IF GatewayPortion(r) > 0 THEN "PENDING" ELSE "none"
             paidAt == IsFullyPaidNow(r)
  <1>1. status \in Statuses /\ payment \in {"none", "PENDING"}
    BY DEF Statuses
  <1>2. paidAt \in BOOLEAN
    BY DEF IsFullyPaidNow
  <1>3. r.items \in Items /\ r.method \in Methods /\ r.total \in Nat
    BY DEF Request
  <1>4. NewOrder(r) = [NoOrder EXCEPT !.status = status, !.user = r.user, !.items = r.items,
                       !.method = r.method, !.total = r.total, !.walletPaid = WalletDebit(r),
                       !.gatewayDue = GatewayPortion(r), !.paidAt = paidAt,
                       !.payment = payment]
    BY DEF NewOrder
  <1>5. NoOrder \in Order
    BY IdleTyped DEF NoOrder, Order, Methods
  <1> HIDE DEF status, payment, paidAt
  <1> QED
    BY <1>1, <1>2, <1>3, <1>4, <1>5 DEF Order

\* A balance stays an integer, whoever owns the wallet.
LEMMA WalletChange ==
  ASSUME NEW w \in [Users -> Int], NEW u, NEW a \in Nat, NEW b \in Nat
  PROVE  [w EXCEPT ![u] = @ + a - b] \in [Users -> Int]
  <1> DEFINE x == w[u] + a - b
  <1>1. \A y \in Users : [w EXCEPT ![u] = x][y] \in Int
    <2> TAKE y \in Users
    <2>1. CASE y = u
      BY <2>1
    <2>2. CASE y # u
      BY <2>2
    <2> QED
      BY <2>1, <2>2
  <1> HIDE DEF x
  <1>2. [w EXCEPT ![u] = x] \in [Users -> Int]
    BY <1>1
  <1> QED
    BY <1>2 DEF x

LEMMA TypingNext == Typing /\ [Next]_vars => Typing'
  <1> SUFFICES ASSUME Typing, [Next]_vars PROVE Typing'
    OBVIOUS
  <1> USE ConstantsOK, PaymentMethodsOK, AdminStatusesOK DEF Typing
  <1>1. ASSUME NEW u \in Users, NEW v \in Variants, NEW q \in Quantities, AddItem(u, v, q)
        PROVE  Typing'
    <2>1. Lesser(cart[u][v] + q, stock[v]) \in Nat
      BY <1>1 DEF AddItem, TypeOK, Items, Lesser
    <2>2. cart' \in [Users -> Items]
      BY <1>1, <2>1 DEF AddItem, TypeOK, Items
    <2> QED
      BY <1>1, <2>2 DEF AddItem, TypeOK, LocalsOK
  <1>2. ASSUME NEW o \in OrderIds, CustomerPays(o) PROVE Typing'
    BY <1>2 DEF CustomerPays, TypeOK, LocalsOK
  <1>3. ASSUME NEW p \in Handlers, NEW o \in OrderIds, StartCancellation(p, o)
        PROVE  Typing'
    <2> DEFINE r == [Idle EXCEPT !.phase = "cancelling", !.order = o, !.paidAt = order[o].paidAt]
    <2>1. r \in Request /\ r.phase = "cancelling" /\ r.order = o
      BY IdleTyped DEF TypeOK, Order, Request, Phases
    <2>2. req' \in [Handlers -> Request] /\ LocalsOK'
      BY <1>3, <2>1, NewLocals DEF StartCancellation
    <2> QED
      BY <1>3, <2>2 DEF StartCancellation, TypeOK
  <1>4. ASSUME NEW o \in OrderIds, ExpireStaleOrder(o) PROVE Typing'
    BY <1>3, <1>4 DEF ExpireStaleOrder, Handlers
  <1>5. ASSUME NEW p \in Requests, Handle(p) PROVE Typing'
    <2>0. p \in Handlers
      BY DEF Handlers
    <2>1. ASSUME NEW u \in Users, NEW method \in PaymentMethods, CreateOrder(p, u, method)
          PROVE  Typing'
      <3> DEFINE r == [Idle EXCEPT !.phase = "pricing", !.user = u,
                                   !.items = cart[u], !.method = method]
      <3>1. r \in Request /\ r.phase = "pricing" /\ r.user = u
        BY IdleTyped DEF TypeOK, Request, Phases
      <3>2. req' \in [Handlers -> Request] /\ LocalsOK'
        BY <2>0, <2>1, <3>1, NewLocals DEF CreateOrder, WorkPhases
      <3> QED
        BY <2>1, <3>2 DEF CreateOrder, TypeOK
    <2>2. ASSUME NEW total \in Totals, PriceOrder(p, total) PROVE Typing'
      <3> DEFINE portion == WalletPortion(req[p].method, wallet[req[p].user], total)
                 r == [req[p] EXCEPT !.phase = "placing", !.total = total,
                                     !.walletPortion = portion]
      <3>0. req[p] \in Request /\ req[p].user \in Users
        BY <2>0, <2>2 DEF PriceOrder, In, TypeOK, LocalsOK
      <3>1. portion \in Int /\ portion <= total
        BY <3>0 DEF WalletPortion, Lesser, TypeOK
      <3>2. r \in Request /\ r.phase = "placing" /\ r.user \in Users
            /\ r.walletPortion <= r.total
        BY <3>0, <3>1 DEF Request, Phases
      <3>3. req' = [req EXCEPT ![p] = r]
        BY <2>2 DEF PriceOrder
      <3>4. req' \in [Handlers -> Request] /\ LocalsOK'
        BY <2>0, <3>2, <3>3, NewLocals DEF WorkPhases
      <3> QED
        BY <2>2, <3>4 DEF PriceOrder, TypeOK
    <2>3. ASSUME NEW o \in OrderIds, PlaceOrder(p, o) PROVE Typing'
      <3> DEFINE r == [Idle EXCEPT !.phase = "recompute", !.order = o]
      <3>0. req[p] \in Request /\ req[p].user \in Users
            /\ req[p].walletPortion <= req[p].total
        BY <2>0, <2>3 DEF PlaceOrder, In, TypeOK, LocalsOK
      <3>1. WalletDebit(req[p]) \in Nat /\ GatewayPortion(req[p]) \in Nat
        BY <3>0 DEF WalletDebit, GatewayPortion, Request
      <3>2. NewOrder(req[p]) \in Order
        BY <3>0, <3>1, NewOrderTyped
      <3>3. stock' \in [Variants -> Int]
        BY <2>3, <3>0 DEF PlaceOrder, TypeOK, Request, Items
      <3>4. wallet' \in [Users -> Int] /\ cart' \in [Users -> Items]
            /\ order' \in [OrderIds -> Order]
        BY <2>3, <3>0, <3>1, <3>2, IdleTyped DEF PlaceOrder, TypeOK
      <3>5. r \in Request /\ r.phase = "recompute" /\ r.order = o
        BY IdleTyped DEF Request, Phases
      <3>6. req' \in [Handlers -> Request] /\ LocalsOK'
        BY <2>0, <2>3, <3>5, NewLocals DEF PlaceOrder
      <3> QED
        BY <2>3, <3>3, <3>4, <3>6 DEF PlaceOrder, TypeOK
    <2>4. ASSUME NEW o \in OrderIds, InitiateOrderPayment(p, o) PROVE Typing'
      <3> DEFINE r == [Idle EXCEPT !.phase = "initiating", !.order = o]
      <3>1. r \in Request /\ r.phase = "initiating" /\ r.order = o
        BY IdleTyped DEF Request, Phases
      <3>2. req' \in [Handlers -> Request] /\ LocalsOK'
        BY <2>0, <2>4, <3>1, NewLocals DEF InitiateOrderPayment
      <3> QED
        BY <2>4, <3>2 DEF InitiateOrderPayment, TypeOK
    <2>5. CASE InitiateAnswer(p)
      <3> DEFINE o == req[p].order
                 new == [order[o] EXCEPT !.refId = "session"]
      <3>0. o \in OrderIds /\ order[o] \in Order
        BY <2>0, <2>5 DEF InitiateAnswer, In, TypeOK, LocalsOK, WorkPhases
      <3>a. new \in Order
        BY <3>0 DEF Order
      <3>b. order' = [order EXCEPT ![o] = new]
        BY <2>5 DEF InitiateAnswer
      <3>1. order' \in [OrderIds -> Order]
        BY <3>a, <3>b DEF TypeOK
      <3>2. req' \in [Handlers -> Request] /\ LocalsOK'
        BY <2>0, <2>5, BackToIdle DEF InitiateAnswer
      <3> QED
        BY <2>5, <3>1, <3>2 DEF InitiateAnswer, TypeOK
    <2>6. ASSUME NEW o \in OrderIds, VerifyOrderPayment(p, o) PROVE Typing'
      <3> DEFINE r == [Idle EXCEPT !.phase = "claiming", !.order = o]
      <3>1. r \in Request /\ r.phase = "claiming" /\ r.order = o
        BY IdleTyped DEF Request, Phases
      <3>2. req' \in [Handlers -> Request] /\ LocalsOK'
        BY <2>0, <2>6, <3>1, NewLocals DEF VerifyOrderPayment
      <3> QED
        BY <2>6, <3>2 DEF VerifyOrderPayment, TypeOK
    <2>7. CASE ClaimPayment(p)
      <3>1. order' \in [OrderIds -> Order]
        BY <2>7 DEF ClaimPayment, TypeOK, Order
      <3>2. CASE req' = [req EXCEPT ![p] = Idle]
        BY <2>0, <2>7, <3>1, <3>2, BackToIdle DEF ClaimPayment, TypeOK
      <3>3. CASE req' = [req EXCEPT ![p].phase = "verifying"]
        <4> DEFINE r == [req[p] EXCEPT !.phase = "verifying"]
        <4>1. r \in Request /\ r.phase = "verifying" /\ r.order \in OrderIds
          <5>1. req[p] \in Request /\ req[p].order \in OrderIds
            BY <2>0, <2>7 DEF ClaimPayment, In, TypeOK, LocalsOK, WorkPhases
          <5> QED
            BY <5>1 DEF Request, Phases
        <4>2. req' \in [Handlers -> Request] /\ LocalsOK'
          BY <2>0, <3>3, <4>1, NewLocals
        <4> QED
          BY <2>7, <3>1, <4>2 DEF ClaimPayment, TypeOK
      <3> QED
        BY <2>7, <3>2, <3>3 DEF ClaimPayment
    <2>8. CASE GatewayAnswer(p)
      <3>1. CASE req' = [req EXCEPT ![p] = Idle]
        BY <2>0, <2>8, <3>1, BackToIdle DEF GatewayAnswer, TypeOK
      <3>2. CASE req' = [req EXCEPT ![p].phase = "confirmed"]
        <4> DEFINE r == [req[p] EXCEPT !.phase = "confirmed"]
        <4>1. r \in Request /\ r.phase = "confirmed" /\ r.order \in OrderIds
          BY <2>0, <2>8 DEF GatewayAnswer, In, TypeOK, LocalsOK, WorkPhases, Request, Phases
        <4>2. req' \in [Handlers -> Request] /\ LocalsOK'
          BY <2>0, <3>2, <4>1, NewLocals
        <4> QED
          BY <2>8, <4>2 DEF GatewayAnswer, TypeOK
      <3> QED
        BY <2>8, <3>1, <3>2 DEF GatewayAnswer
    <2>9. CASE VerifyCommit(p)
      <3> DEFINE o == req[p].order
                 new == [order[o] EXCEPT !.payment = "SUCCESS", !.refId = "receipt",
                                         !.status = "PROCESSING", !.paidAt = TRUE]
      <3>0. o \in OrderIds /\ order[o] \in Order
        BY <2>0, <2>9 DEF VerifyCommit, In, TypeOK, LocalsOK, WorkPhases
      <3>a. new \in Order
        BY <3>0 DEF Order, Statuses
      <3>b. order' = [order EXCEPT ![o] = new]
        BY <2>9 DEF VerifyCommit
      <3>1. order' \in [OrderIds -> Order]
        BY <3>a, <3>b DEF TypeOK
      <3>2. req' \in [Handlers -> Request] /\ LocalsOK'
        BY <2>0, <2>9, BackToIdle DEF VerifyCommit
      <3> QED
        BY <2>9, <3>1, <3>2 DEF VerifyCommit, TypeOK
    <2>10. ASSUME NEW o \in OrderIds, CancelOrder(p, o) PROVE Typing'
      BY <1>3, <2>0, <2>10 DEF CancelOrder
    <2>11. ASSUME NEW o \in OrderIds, NEW status \in AdminStatuses,
                  UpdateOrderStatusAdmin(p, o, status)
           PROVE  Typing'
      <3> DEFINE r == [Idle EXCEPT !.phase = "setStatus", !.order = o, !.status = status,
                                   !.wasDelivered = WasDelivered(o, status)]
      <3>1. r \in Request /\ r.phase = "setStatus" /\ r.order = o
        BY IdleTyped DEF Request, Phases, WasDelivered
      <3>2. req' \in [Handlers -> Request] /\ LocalsOK'
        BY <2>0, <2>11, <3>1, NewLocals DEF UpdateOrderStatusAdmin
      <3> QED
        BY <2>11, <3>2 DEF UpdateOrderStatusAdmin, TypeOK
    <2>12. CASE WriteOrderStatus(p)
      <3>0. req[p].order \in OrderIds /\ req[p] \in Request
        BY <2>0, <2>12 DEF WriteOrderStatus, In, TypeOK, LocalsOK, WorkPhases
      <3> DEFINE o == req[p].order
                 new == [order[o] EXCEPT !.status = req[p].status]
      <3>a. order[o] \in Order /\ req[p].status \in Statuses
        BY <3>0 DEF TypeOK, Request
      <3>b. new \in Order
        BY <3>a DEF Order
      <3>c. order' = [order EXCEPT ![o] = new]
        BY <2>12 DEF WriteOrderStatus
      <3>1. order' \in [OrderIds -> Order]
        BY <3>b, <3>c DEF TypeOK
      <3>2. SoldBy(p) \in Items
        BY <3>0, IdleTyped DEF SoldBy, TypeOK, Order
      <3>3. totalSold' \in [Variants -> Nat]
        BY <2>12, <3>2 DEF WriteOrderStatus, TypeOK, Items
      <3>4. req' \in [Handlers -> Request] /\ LocalsOK'
        BY <2>0, <2>12, BackToIdle DEF WriteOrderStatus
      <3> QED
        BY <2>12, <3>1, <3>3, <3>4 DEF WriteOrderStatus, TypeOK
    <2> QED
      BY <1>5, <2>1, <2>2, <2>3, <2>4, <2>5, <2>6, <2>7, <2>8, <2>9, <2>10, <2>11, <2>12
      DEF Handle
  <1>6. ASSUME NEW p \in Handlers, Step(p) PROVE Typing'
    <2>1. CASE RecomputeRead(p)
      <3> DEFINE r == [req[p] EXCEPT !.phase = "writeAggregates",
                                     !.inStock = StockedProducts \cap Affected(req[p].order)]
      <3>1. StockedProducts \in SUBSET Products
        BY DEF StockedProducts
      <3>2. r \in Request /\ r.phase = "writeAggregates" /\ r.order \in OrderIds
        <4>1. req[p] \in Request /\ req[p].order \in OrderIds
          BY <2>1 DEF RecomputeRead, In, TypeOK, LocalsOK, WorkPhases
        <4>2. StockedProducts \cap Affected(req[p].order) \in SUBSET Products
          BY <3>1
        <4> QED
          BY <4>1, <4>2 DEF Request, Phases
      <3>3. req' = [req EXCEPT ![p] = r]
        BY <2>1 DEF RecomputeRead
      <3>4. req' \in [Handlers -> Request] /\ LocalsOK'
        BY <3>2, <3>3, NewLocals
      <3> QED
        BY <2>1, <3>4 DEF RecomputeRead, TypeOK
    <2>2. CASE RecomputeWrite(p)
      <3>1. isInStock' \in [Products -> BOOLEAN]
        <4>1. \A pr \in Products : isInStock[pr] \in BOOLEAN
          BY DEF TypeOK
        <4>2. \A pr : (pr \in req[p].inStock) \in BOOLEAN
          OBVIOUS
        <4> QED
          BY <2>2, <4>1, <4>2, Zenon DEF RecomputeWrite
      <3>2. req' \in [Handlers -> Request] /\ LocalsOK'
        BY <2>2, BackToIdle DEF RecomputeWrite
      <3> QED
        BY <2>2, <3>1, <3>2 DEF RecomputeWrite, TypeOK
    <2>3. CASE PerformCancellation(p)
      <3> DEFINE o == req[p].order
                 new == CancelledOrder(o, req[p].paidAt)
                 r == [Idle EXCEPT !.phase = "recompute", !.order = o]
      <3>0. o \in OrderIds /\ order[o] \in Order
        BY <2>3 DEF PerformCancellation, In, TypeOK, LocalsOK, WorkPhases
      <3>1. new \in Order
        <4> DEFINE paid == req[p].paidAt
                   w == IF paid THEN order[o].walletRefund + order[o].walletPaid
                        ELSE order[o].walletRefund
                   g == IF paid /\ order[o].payment = "SUCCESS"
                        THEN order[o].gatewayRefund + 1 ELSE order[o].gatewayRefund
        <4>1. w \in Nat /\ g \in Nat
          BY <3>0 DEF Order
        <4>2. new = [order[o] EXCEPT !.status = "CANCELLED", !.cancelled = TRUE,
                                     !.walletRefund = w, !.gatewayRefund = g]
          BY DEF CancelledOrder
        <4> HIDE DEF w, g, new
        <4> QED
          BY <3>0, <4>1, <4>2 DEF Order, Statuses
      <3>2. stock' \in [Variants -> Int]
        BY <2>3, <3>0 DEF PerformCancellation, TypeOK, Order, Items
      <3>3. new.walletRefund \in Nat /\ order[o].walletRefund \in Nat
        BY <3>0, <3>1 DEF Order
      <3>4. wallet' \in [Users -> Int]
        <4> DEFINE u == order[o].user
        <4>1. wallet' = [wallet EXCEPT ![u] = @ + new.walletRefund - order[o].walletRefund]
          BY <2>3 DEF PerformCancellation
        <4>2. wallet \in [Users -> Int]
          BY DEF TypeOK
        <4> HIDE DEF new, o, u
        <4> QED
          BY <3>3, <4>1, <4>2, WalletChange
      <3>5. order' \in [OrderIds -> Order]
        BY <2>3, <3>0, <3>1 DEF PerformCancellation, TypeOK
      <3>6. r \in Request /\ r.phase = "recompute" /\ r.order = o
        BY <3>0, IdleTyped DEF Request, Phases
      <3>7. req' \in [Handlers -> Request] /\ LocalsOK'
        BY <2>3, <3>0, <3>6, NewLocals DEF PerformCancellation
      <3> QED
        BY <2>3, <3>2, <3>4, <3>5, <3>7 DEF PerformCancellation, TypeOK
    <2>4. CASE CancellationConflict(p)
      BY <2>4, BackToIdle DEF CancellationConflict, TypeOK
    <2>5. CASE Fail(p)
      BY <2>5, BackToIdle DEF Fail, TypeOK
    <2> QED
      BY <1>6, <2>1, <2>2, <2>3, <2>4, <2>5 DEF Step
  <1>7. CASE UNCHANGED vars
    BY <1>7 DEF vars, TypeOK, LocalsOK
  <1> QED
    BY <1>1, <1>2, <1>4, <1>5, <1>6, <1>7 DEF Next

\* Type correctness: every row and every handler keeps its shape for ever.
THEOREM TypeCorrectness == Spec => []TypeOK
  <1>1. Spec => []Typing
    BY TypingInit, TypingNext, PTL DEF Spec
  <1> QED
    BY <1>1, PTL DEF Typing
-------------------------------------------------------------------------------
(***************************************************************************)
(* The inductive invariant of the safety properties.                       *)
(***************************************************************************)

\* How the fields of an order hang together.
RecordsOK ==
    \A o \in OrderIds :
        /\ ~Exists(o) => order[o] = NoOrder
        /\ order[o].payment = "none" <=> order[o].gatewayDue = 0
        /\ order[o].method = "FREIGHT_COLLECT" => order[o].gatewayDue = 0
        /\ order[o].refId # "none" => order[o].payment # "none"
        /\ ~order[o].cancelled => order[o].walletRefund = 0 /\ order[o].gatewayRefund = 0

\* What a handler's phase says about the order it works on.
HandlersOK ==
    \A p \in Handlers :
        /\ req[p].phase \in WorkPhases => Exists(req[p].order)
        /\ req[p].phase \in {"initiating", "claiming"} => order[req[p].order].payment # "none"
        /\ req[p].phase = "confirmed" => req[p].order \in captured

IInv ==
    /\ Typing
    /\ RecordsOK
    /\ HandlersOK
    /\ StockNeverNegative
    /\ OneClaimHolder
    /\ RefundsMatchPayments
    /\ PaidOrdersAreSettled
    /\ NeverUndercharged

LEMMA IInvInit == Init => IInv
  <1> SUFFICES ASSUME Init PROVE IInv
    OBVIOUS
  <1> USE ConstantsOK
  <1>1. Typing
    BY TypingInit
  <1>2. \A o \in OrderIds : order[o] = NoOrder
    BY DEF Init
  <1>3. \A p \in Handlers : req[p].phase = "idle"
    BY DEF Init, Idle
  <1>4. RecordsOK /\ RefundsMatchPayments /\ PaidOrdersAreSettled /\ NeverUndercharged
    <2>1. NoOrder.status = "none" /\ NoOrder.payment = "none" /\ NoOrder.gatewayDue = 0
          /\ NoOrder.method = "GATEWAY" /\ NoOrder.refId = "none" /\ NoOrder.paidAt = FALSE
          /\ NoOrder.walletPaid = 0 /\ NoOrder.total = 0
          /\ NoOrder.walletRefund = 0 /\ NoOrder.gatewayRefund = 0
      BY DEF NoOrder
    <2>2. RecordsOK
      BY <1>2, <2>1 DEF RecordsOK, Exists
    <2>3. RefundsMatchPayments
      BY <1>2, <2>1 DEF RefundsMatchPayments
    <2>4. PaidOrdersAreSettled
      BY <1>2, <2>1 DEF PaidOrdersAreSettled
    <2>5. NeverUndercharged
      BY <1>2, <2>1 DEF NeverUndercharged
    <2> QED
      BY <2>2, <2>3, <2>4, <2>5
  <1>5. HandlersOK /\ OneClaimHolder
    BY <1>3 DEF HandlersOK, OneClaimHolder, Holds, WorkPhases, Handlers
  <1>6. StockNeverNegative
    BY DEF Init, StockNeverNegative
  <1> QED
    BY <1>1, <1>4, <1>5, <1>6 DEF IInv

\* A step that only changes the locals of one handler is harmless if the new
\* locals fit the order they name and claim nothing that was not held before.
LEMMA LocalStep ==
  ASSUME IInv, Typing',
         NEW p \in Handlers, NEW r \in Request,
         req' = [req EXCEPT ![p] = r],
         UNCHANGED <<stock, order, captured>>,
         r.phase \in WorkPhases => Exists(r.order),
         r.phase \in {"initiating", "claiming"} => order[r.order].payment # "none",
         r.phase = "confirmed" => r.order \in captured,
         r.phase \in {"verifying", "confirmed"} => Holds(p, r.order)
  PROVE  IInv'
  <1>0. req \in [Handlers -> Request]
    BY DEF IInv, Typing, TypeOK
  <1>1. RecordsOK' /\ RefundsMatchPayments' /\ PaidOrdersAreSettled' /\ NeverUndercharged'
        /\ StockNeverNegative'
    BY DEF IInv, RecordsOK, RefundsMatchPayments, PaidOrdersAreSettled, NeverUndercharged,
           StockNeverNegative, Exists
  <1>2. HandlersOK'
    BY <1>0 DEF IInv, HandlersOK, Exists
  <1>3. \A q \in Handlers, o \in OrderIds : Holds(q, o)' => Holds(q, o)
    BY <1>0 DEF Holds
  <1>4. OneClaimHolder'
    BY <1>3 DEF IInv, OneClaimHolder, Handlers
  <1> QED
    BY <1>1, <1>2, <1>4 DEF IInv

\* The same for a handler that returns.
LEMMA ReturnStep ==
  ASSUME IInv, Typing', NEW p \in Handlers, req' = [req EXCEPT ![p] = Idle],
         UNCHANGED <<stock, order, captured>>
  PROVE  IInv'
  BY IdleTyped, LocalStep DEF WorkPhases

\* A step that changes one order, and leaves its handler outside the claim,
\* keeps the handlers and the claims intact if the order exists afterwards, a
\* payment it had is still there, and nobody else's claim is disturbed.
LEMMA OrderStep ==
  ASSUME IInv, Typing',
         NEW p \in Requests \cup {Job}, NEW o \in OrderIds, NEW new, NEW r \in Request,
         order' = [order EXCEPT ![o] = new],
         req' = [req EXCEPT ![p] = r],
         captured' = captured,
         r.phase \in {"idle", "recompute"},
         r.phase = "recompute" => r.order = o,
         new.status # "none",
         order[o].payment # "none" => new.payment # "none",
         \/ new.payment = order[o].payment
         \/ \A q \in Requests : Holds(q, o) => q = p
  PROVE  HandlersOK' /\ OneClaimHolder'
  <1>0. /\ req \in [Handlers -> Request]
        /\ order \in [OrderIds -> Order]
        /\ p \in Handlers
    BY DEF IInv, Typing, TypeOK, Handlers
  <1>1. \A i \in OrderIds : order[i].status # "none" => order'[i].status # "none"
    BY <1>0
  <1>2. \A i \in OrderIds : order[i].payment # "none" => order'[i].payment # "none"
    BY <1>0
  <1>3. HandlersOK'
    <2> SUFFICES ASSUME NEW q \in Handlers
                 PROVE  /\ req'[q].phase \in WorkPhases =>
                                order'[req'[q].order].status # "none"
                        /\ req'[q].phase \in {"initiating", "claiming"} =>
                                order'[req'[q].order].payment # "none"
                        /\ req'[q].phase = "confirmed" => req'[q].order \in captured'
      BY DEF HandlersOK, Exists
    <2>1. CASE q = p
      <3>1. req'[q] = r
        BY <1>0, <2>1
      <3>2. order'[o] = new
        BY <1>0
      <3> QED
        BY <3>1, <3>2 DEF WorkPhases
    <2>2. CASE q # p
      <3>1. req'[q] = req[q]
        BY <1>0, <2>2
      <3>2. req[q].phase \in WorkPhases => req[q].order \in OrderIds
        BY DEF IInv, Typing, LocalsOK
      <3>3. /\ req[q].phase \in WorkPhases => order[req[q].order].status # "none"
            /\ req[q].phase \in {"initiating", "claiming"} =>
                    order[req[q].order].payment # "none"
            /\ req[q].phase = "confirmed" => req[q].order \in captured
        BY DEF IInv, HandlersOK, Exists
      <3>4. {"initiating", "claiming"} \subseteq WorkPhases
        BY DEF WorkPhases
      <3>5. req[q].phase \in WorkPhases => order'[req[q].order].status # "none"
        BY <1>1, <3>2, <3>3
      <3>6. req[q].phase \in {"initiating", "claiming"} =>
                    order'[req[q].order].payment # "none"
        BY <1>2, <3>2, <3>3, <3>4
      <3> QED
        BY <3>1, <3>3, <3>5, <3>6
    <2> QED
      BY <2>1, <2>2
  <1>4. \A q \in Requests, i \in OrderIds : Holds(q, i)' => Holds(q, i) /\ q # p
    BY <1>0 DEF Holds, Handlers
  <1>5. OneClaimHolder'
    <2> SUFFICES ASSUME NEW i \in OrderIds, NEW q \in Requests, Holds(q, i)'
                 PROVE  /\ order'[i].payment = "FAILED"
                        /\ \A s \in Requests : Holds(s, i)' => s = q
      BY DEF OneClaimHolder
    <2>1. Holds(q, i) /\ q # p
      BY <1>4
    <2>2. \A s \in Requests : Holds(s, i)' => s = q
      BY <1>4, <2>1 DEF IInv, OneClaimHolder
    <2>3. order[i].payment = "FAILED"
      BY <2>1 DEF IInv, OneClaimHolder
    <2>4. i = o => new.payment = order[o].payment
      BY <2>1
    <2>5. order'[i].payment = "FAILED"
      BY <1>0, <2>3, <2>4
    <2> QED
      BY <2>2, <2>5
  <1> QED
    BY <1>3, <1>5

\* What the invariant says of one order row, and of its money at the gateway.
Sound(x, isCaptured) ==
    /\ x.payment = "none" <=> x.gatewayDue = 0
    /\ x.method = "FREIGHT_COLLECT" => x.gatewayDue = 0
    /\ x.refId # "none" => x.payment # "none"
    /\ ~x.cancelled => x.walletRefund = 0 /\ x.gatewayRefund = 0
    /\ x.walletRefund \in {0, x.walletPaid}
    /\ x.gatewayRefund \in {0, 1}
    /\ x.gatewayRefund = 1 => x.payment = "SUCCESS"
    /\ x.paidAt => x.method # "FREIGHT_COLLECT" /\ (x.gatewayDue = 0 \/ x.payment = "SUCCESS")
    /\ x.payment = "SUCCESS" => x.paidAt /\ isCaptured
    /\ x.method # "FREIGHT_COLLECT" => x.walletPaid + x.gatewayDue >= x.total

LEMMA OrdersSound == IInv => \A o \in OrderIds : Sound(order[o], o \in captured)
  <1> SUFFICES ASSUME IInv, NEW o \in OrderIds PROVE Sound(order[o], o \in captured)
    OBVIOUS
  <1>1. order[o] \in Order
    BY DEF IInv, Typing, TypeOK
  <1> QED
    BY <1>1 DEF IInv, RecordsOK, RefundsMatchPayments, PaidOrdersAreSettled,
                NeverUndercharged, Sound, Order

\* Conversely, a step that leaves one sound row behind keeps the row properties.
LEMMA RowStep ==
  ASSUME IInv, Typing', NEW o \in OrderIds, NEW new \in Order,
         order' = [order EXCEPT ![o] = new], captured' = captured,
         new.status # "none",
         Sound(new, o \in captured)
  PROVE  RecordsOK' /\ RefundsMatchPayments' /\ PaidOrdersAreSettled' /\ NeverUndercharged'
  <1>1. /\ order \in [OrderIds -> Order]
        /\ order' \in [OrderIds -> Order]
    BY DEF IInv, Typing, TypeOK
  <1>2. \A i \in OrderIds : Sound(order'[i], i \in captured')
    <2> TAKE i \in OrderIds
    <2>1. CASE i = o
      BY <1>1, <2>1
    <2>2. CASE i # o
      BY <1>1, <2>2, OrdersSound
    <2> QED
      BY <2>1, <2>2
  <1>3. \A i \in OrderIds : order'[i].status = "none" => order'[i] = NoOrder
    BY <1>1 DEF IInv, RecordsOK, Exists
  <1>4. RecordsOK'
    BY <1>2, <1>3 DEF RecordsOK, Sound, Exists
  <1>5. RefundsMatchPayments'
    <2> SUFFICES ASSUME NEW i \in OrderIds
                 PROVE  /\ order'[i].walletRefund \in {0, order'[i].walletPaid}
                        /\ order'[i].walletRefund > 0 => order'[i].cancelled
                        /\ order'[i].gatewayRefund \in {0, 1}
                        /\ order'[i].gatewayRefund = 1 => /\ order'[i].payment = "SUCCESS"
                                                          /\ order'[i].cancelled
      BY DEF RefundsMatchPayments
    <2> QED
      BY <1>2 DEF Sound
  <1>6. PaidOrdersAreSettled'
    BY <1>2 DEF PaidOrdersAreSettled, Sound
  <1>7. NeverUndercharged'
    BY <1>2 DEF NeverUndercharged, Sound
  <1> QED
    BY <1>4, <1>5, <1>6, <1>7

\* Placing: the units are there, and the amounts of the new row add up.
LEMMA PlaceOrderSafe ==
  ASSUME IInv, Typing', NEW p \in Requests, NEW o \in OrderIds, PlaceOrder(p, o)
  PROVE  IInv'
  <1> DEFINE new == NewOrder(req[p])
             r == [Idle EXCEPT !.phase = "recompute", !.order = o]
  <1>0. /\ p \in Handlers /\ req[p] \in Request /\ req[p].user \in Users
        /\ req[p].walletPortion <= req[p].total
        /\ stock \in [Variants -> Int]
    BY DEF PlaceOrder, In, Handlers, IInv, Typing, TypeOK, LocalsOK
  <1>1. WalletDebit(req[p]) \in Nat /\ GatewayPortion(req[p]) \in Nat
    BY <1>0 DEF WalletDebit, GatewayPortion, Request
  <1>2. new \in Order
    BY <1>0, <1>1, NewOrderTyped
  <1>3. /\ new.status = IF req[p].method = "FREIGHT_COLLECT" \/ IsFullyPaidNow(req[p])
                        THEN "PROCESSING" ELSE "PENDING_PAYMENT"
        /\ new.method = req[p].method /\ new.total = req[p].total
        /\ new.walletPaid = WalletDebit(req[p]) /\ new.gatewayDue = GatewayPortion(req[p])
        /\ new.paidAt = IsFullyPaidNow(req[p])
        /\ new.payment = IF GatewayPortion(req[p]) > 0 THEN "PENDING" ELSE "none"
        /\ new.refId = "none" /\ new.walletRefund = 0 /\ new.gatewayRefund = 0
    BY DEF NewOrder, NoOrder
  <1>4. new.status # "none"
    BY <1>3
  <1>5. Sound(new, o \in captured)
    <2>1. req[p].total \in Nat /\ req[p].walletPortion \in Int
      BY <1>0 DEF Request
    <2>2. new.method # "FREIGHT_COLLECT" => new.walletPaid + new.gatewayDue >= new.total
      BY <1>3, <2>1 DEF WalletDebit, GatewayPortion
    <2>3. new.method = "FREIGHT_COLLECT" => new.gatewayDue = 0
      BY <1>3 DEF GatewayPortion
    <2>4. new.paidAt => new.method # "FREIGHT_COLLECT" /\ new.gatewayDue = 0
      BY <1>3 DEF IsFullyPaidNow
    <2>5. new.payment # "SUCCESS" /\ (new.payment = "none" <=> new.gatewayDue = 0)
      BY <1>1, <1>3
    <2> HIDE DEF new
    <2> QED
      BY <1>3, <2>2, <2>3, <2>4, <2>5 DEF Sound
  <1>6. /\ order' = [order EXCEPT ![o] = new] /\ captured' = captured
        /\ req' = [req EXCEPT ![p] = r]
        /\ ~Exists(o)
    BY DEF PlaceOrder, NextId
  <1>7. RecordsOK' /\ RefundsMatchPayments' /\ PaidOrdersAreSettled' /\ NeverUndercharged'
    BY <1>2, <1>4, <1>5, <1>6, RowStep
  <1>8. order[o].payment = "none" /\ \A q \in Requests : ~Holds(q, o)
    <2>1. order[o].payment = "none"
      BY <1>6 DEF IInv, RecordsOK, NoOrder
    <2> QED
      BY <2>1 DEF IInv, OneClaimHolder
  <1>9. HandlersOK' /\ OneClaimHolder'
    <2>1. r \in Request /\ r.phase = "recompute" /\ r.order = o
      BY IdleTyped DEF Request, Phases
    <2> HIDE DEF new, r
    <2> QED
      BY <1>4, <1>6, <1>8, <2>1, OrderStep
  <1>10. StockNeverNegative'
    BY <1>0 DEF PlaceOrder, CanReserve, StockNeverNegative, IInv, Request, Items
  <1> QED
    BY <1>7, <1>9, <1>10 DEF IInv

\* Cancelling: the units and the refunds belong to an order not cancelled yet.
LEMMA PerformCancellationSafe ==
  ASSUME IInv, Typing', NEW p \in Handlers, PerformCancellation(p)
  PROVE  IInv'
  <1> DEFINE o == req[p].order
             new == CancelledOrder(o, req[p].paidAt)
             r == [Idle EXCEPT !.phase = "recompute", !.order = o]
  <1>0. /\ o \in OrderIds /\ order[o] \in Order
        /\ order \in [OrderIds -> Order] /\ order' \in [OrderIds -> Order]
        /\ stock \in [Variants -> Int]
    BY DEF PerformCancellation, In, IInv, Typing, TypeOK, LocalsOK, WorkPhases
  <1>1. /\ order' = [order EXCEPT ![o] = new] /\ captured' = captured
        /\ req' = [req EXCEPT ![p] = r]
        /\ ~order[o].cancelled
    BY DEF PerformCancellation, NotYetCancelled
  <1>2. new \in Order
    BY <1>0, <1>1
  <1>3. Sound(order[o], o \in captured)
    BY <1>0, OrdersSound
  <1>4. /\ new.status = "CANCELLED" /\ new.cancelled
        /\ new.payment = order[o].payment /\ new.gatewayDue = order[o].gatewayDue
        /\ new.method = order[o].method /\ new.refId = order[o].refId
        /\ new.paidAt = order[o].paidAt /\ new.walletPaid = order[o].walletPaid
        /\ new.total = order[o].total
        /\ new.walletRefund \in {order[o].walletRefund,
                                 order[o].walletRefund + order[o].walletPaid}
        /\ \/ new.gatewayRefund = order[o].gatewayRefund
           \/ /\ order[o].payment = "SUCCESS"
              /\ new.gatewayRefund = order[o].gatewayRefund + 1
    BY <1>0 DEF CancelledOrder, Order
  <1>5. Sound(new, o \in captured)
    <2>1. /\ order[o].walletRefund = 0 /\ order[o].gatewayRefund = 0
          /\ order[o].walletPaid \in Nat
      BY <1>0, <1>1, <1>3 DEF Sound, Order
    <2> HIDE DEF new
    <2> QED
      BY <1>3, <1>4, <2>1 DEF Sound
  <1>6. RecordsOK' /\ RefundsMatchPayments' /\ PaidOrdersAreSettled' /\ NeverUndercharged'
    <2> HIDE DEF new, o
    <2> QED
      BY <1>0, <1>1, <1>2, <1>4, <1>5, RowStep
  <1>7. HandlersOK' /\ OneClaimHolder'
    <2>1. r \in Request /\ r.phase = "recompute" /\ r.order = o
      BY <1>0, IdleTyped DEF Request, Phases
    <2> HIDE DEF new, r, o
    <2> QED
      BY <1>0, <1>1, <1>4, <2>1, OrderStep DEF Handlers
  <1>8. StockNeverNegative'
    BY <1>0 DEF PerformCancellation, StockNeverNegative, IInv, Order, Items
  <1> QED
    BY <1>6, <1>7, <1>8 DEF IInv

\* Claiming: nobody else can be past a claim of a PENDING payment.
LEMMA ClaimPaymentSafe ==
  ASSUME IInv, Typing', NEW p \in Requests, ClaimPayment(p)
  PROVE  IInv'
  <1> DEFINE o == req[p].order
             new == [order[o] EXCEPT !.payment = "FAILED"]
             r == [req[p] EXCEPT !.phase = "verifying"]
  <1>0. /\ p \in Handlers /\ req[p].phase = "claiming" /\ req[p] \in Request
        /\ o \in OrderIds /\ order[o] \in Order
        /\ order \in [OrderIds -> Order] /\ req \in [Handlers -> Request]
    BY DEF ClaimPayment, In, Handlers, IInv, Typing, TypeOK, LocalsOK, WorkPhases
  <1>1. CASE ~Claimable(o)
    BY <1>0, <1>1, ReturnStep DEF ClaimPayment
  <1>2. CASE Claimable(o)
    <2>1. /\ order' = [order EXCEPT ![o] = new] /\ req' = [req EXCEPT ![p] = r]
          /\ captured' = captured /\ stock' = stock
          /\ order[o].payment = "PENDING"
      BY <1>2 DEF ClaimPayment, Claimable
    <2>2. Exists(o)
      BY <1>0 DEF IInv, HandlersOK, WorkPhases
    <2>3. Sound(order[o], o \in captured)
      BY <1>0, OrdersSound
    <2>4. new \in Order /\ new.status # "none" /\ Sound(new, o \in captured)
      BY <1>0, <2>1, <2>2, <2>3 DEF Order, Sound, Exists
    <2>5. RecordsOK' /\ RefundsMatchPayments' /\ PaidOrdersAreSettled' /\ NeverUndercharged'
      BY <1>0, <2>1, <2>4, RowStep
    <2>6. \A q \in Requests : ~Holds(q, o)
      BY <1>0, <2>1 DEF IInv, OneClaimHolder
    <2>7. /\ \A q \in Handlers : q # p => req'[q] = req[q]
          /\ req'[p].phase = "verifying" /\ req'[p].order = o
          /\ \A i \in OrderIds : i # o => order'[i] = order[i]
          /\ order'[o].payment = "FAILED" /\ order'[o].status = order[o].status
      BY <1>0, <2>1 DEF Request, Order
    <2>8. HandlersOK'
      <3> SUFFICES ASSUME NEW q \in Handlers
                   PROVE  /\ req'[q].phase \in WorkPhases =>
                                order'[req'[q].order].status # "none"
                          /\ req'[q].phase \in {"initiating", "claiming"} =>
                                order'[req'[q].order].payment # "none"
                          /\ req'[q].phase = "confirmed" => req'[q].order \in captured'
        BY DEF HandlersOK, Exists
      <3>1. CASE q = p
        BY <2>2, <2>7, <3>1 DEF Exists
      <3>2. CASE q # p
        <4>1. req[q].phase \in WorkPhases => req[q].order \in OrderIds
          BY DEF IInv, Typing, LocalsOK
        <4> QED
          BY <2>1, <2>7, <3>2, <4>1 DEF IInv, HandlersOK, Exists, WorkPhases
      <3> QED
        BY <3>1, <3>2
    <2>9. OneClaimHolder'
      <3> SUFFICES ASSUME NEW i \in OrderIds, NEW q \in Requests, Holds(q, i)'
                   PROVE  /\ order'[i].payment = "FAILED"
                          /\ \A s \in Requests : Holds(s, i)' => s = q
        BY DEF OneClaimHolder
      <3>1. \A s \in Requests : s # p => (Holds(s, i)' <=> Holds(s, i))
        BY <2>7 DEF Holds, Handlers
      <3>2. Holds(p, i)' <=> i = o
        BY <2>7 DEF Holds
      <3>3. CASE i = o
        BY <2>6, <2>7, <3>1, <3>3
      <3>4. CASE i # o
        BY <2>7, <3>1, <3>2, <3>4 DEF IInv, OneClaimHolder
      <3> QED
        BY <3>3, <3>4
    <2> QED
      BY <2>1, <2>5, <2>8, <2>9 DEF IInv, StockNeverNegative
  <1> QED
    BY <1>1, <1>2

\* Committing: the claim is held, and the gateway has confirmed.
LEMMA VerifyCommitSafe ==
  ASSUME IInv, Typing', NEW p \in Requests, VerifyCommit(p)
  PROVE  IInv'
  <1> DEFINE o == req[p].order
             new == [order[o] EXCEPT !.payment = "SUCCESS", !.refId = "receipt",
                                     !.status = "PROCESSING", !.paidAt = TRUE]
  <1>0. /\ p \in Handlers /\ req[p].phase = "confirmed"
        /\ o \in OrderIds /\ order[o] \in Order
    BY DEF VerifyCommit, In, Handlers, IInv, Typing, TypeOK, LocalsOK, WorkPhases
  <1>1. /\ order' = [order EXCEPT ![o] = new] /\ req' = [req EXCEPT ![p] = Idle]
        /\ captured' = captured /\ stock' = stock
    BY DEF VerifyCommit
  <1>2. Holds(p, o) /\ order[o].payment = "FAILED" /\ \A q \in Requests : Holds(q, o) => q = p
    BY <1>0 DEF Holds, IInv, OneClaimHolder
  <1>3. o \in captured
    BY <1>0 DEF IInv, HandlersOK
  <1>4. Sound(order[o], o \in captured)
    BY <1>0, OrdersSound
  <1>5. new \in Order /\ new.status # "none" /\ Sound(new, o \in captured)
    BY <1>0, <1>2, <1>3, <1>4 DEF Order, Sound, Statuses
  <1>6. RecordsOK' /\ RefundsMatchPayments' /\ PaidOrdersAreSettled' /\ NeverUndercharged'
    BY <1>0, <1>1, <1>5, RowStep
  <1>7. HandlersOK' /\ OneClaimHolder'
    <2>1. new.payment # "none"
      BY <1>0 DEF Order
    <2> HIDE DEF new, o
    <2> QED
      BY <1>0, <1>1, <1>2, <1>5, <2>1, IdleTyped, OrderStep DEF Handlers
  <1> QED
    BY <1>1, <1>6, <1>7 DEF IInv, StockNeverNegative

LEMMA InitiateAnswerSafe ==
  ASSUME IInv, Typing', NEW p \in Requests, InitiateAnswer(p)
  PROVE  IInv'
  <1> DEFINE o == req[p].order
             new == [order[o] EXCEPT !.refId = "session"]
  <1>0. /\ p \in Handlers /\ req[p].phase = "initiating"
        /\ o \in OrderIds /\ order[o] \in Order
    BY DEF InitiateAnswer, In, Handlers, IInv, Typing, TypeOK, LocalsOK, WorkPhases
  <1>1. /\ order' = [order EXCEPT ![o] = new] /\ req' = [req EXCEPT ![p] = Idle]
        /\ captured' = captured /\ stock' = stock
    BY DEF InitiateAnswer
  <1>2. order[o].payment # "none" /\ order[o].status # "none"
    BY <1>0 DEF IInv, HandlersOK, WorkPhases, Exists
  <1>3. Sound(order[o], o \in captured)
    BY <1>0, OrdersSound
  <1>4. /\ new \in Order /\ new.status # "none" /\ new.payment = order[o].payment
        /\ Sound(new, o \in captured)
    BY <1>0, <1>2, <1>3 DEF Order, Sound
  <1> HIDE DEF new, o
  <1>5. RecordsOK' /\ RefundsMatchPayments' /\ PaidOrdersAreSettled' /\ NeverUndercharged'
    BY <1>0, <1>1, <1>4, RowStep
  <1>6. HandlersOK' /\ OneClaimHolder'
    BY <1>0, <1>1, <1>4, IdleTyped, OrderStep DEF Handlers
  <1> QED
    BY <1>1, <1>5, <1>6 DEF IInv, StockNeverNegative

LEMMA WriteOrderStatusSafe ==
  ASSUME IInv, Typing', NEW p \in Requests, WriteOrderStatus(p)
  PROVE  IInv'
  <1> DEFINE o == req[p].order
             new == [order[o] EXCEPT !.status = req[p].status]
  <1>0. /\ p \in Handlers /\ req[p] \in Request
        /\ o \in OrderIds /\ order[o] \in Order
    BY DEF WriteOrderStatus, In, Handlers, IInv, Typing, TypeOK, LocalsOK, WorkPhases
  <1>1. /\ order' = [order EXCEPT ![o] = new] /\ req' = [req EXCEPT ![p] = Idle]
        /\ captured' = captured /\ stock' = stock
    BY DEF WriteOrderStatus
  <1>2. req[p].status \in Statuses /\ req[p].status # "none"
    BY <1>0 DEF Request, Statuses
  <1>3. Sound(order[o], o \in captured)
    BY <1>0, OrdersSound
  <1>4. /\ new \in Order /\ new.status # "none" /\ new.payment = order[o].payment
        /\ Sound(new, o \in captured)
    BY <1>0, <1>2, <1>3 DEF Order, Sound
  <1> HIDE DEF new, o
  <1>5. RecordsOK' /\ RefundsMatchPayments' /\ PaidOrdersAreSettled' /\ NeverUndercharged'
    BY <1>0, <1>1, <1>4, RowStep
  <1>6. HandlersOK' /\ OneClaimHolder'
    BY <1>0, <1>1, <1>4, IdleTyped, OrderStep DEF Handlers
  <1> QED
    BY <1>1, <1>5, <1>6 DEF IInv, StockNeverNegative

LEMMA IInvNext == IInv /\ [Next]_vars => IInv'
  <1> SUFFICES ASSUME IInv, [Next]_vars PROVE IInv'
    OBVIOUS
  <1>0. Typing'
    BY TypingNext DEF IInv
  <1>a. /\ req \in [Handlers -> Request] /\ req' \in [Handlers -> Request]
        /\ \A p \in Handlers : req[p].phase \in WorkPhases => Exists(req[p].order)
    BY <1>0 DEF IInv, HandlersOK, Typing, TypeOK
  <1>1. ASSUME NEW u \in Users, NEW v \in Variants, NEW q \in Quantities, AddItem(u, v, q)
        PROVE  IInv'
    BY <1>0, <1>1
    DEF AddItem, IInv, RecordsOK, HandlersOK, StockNeverNegative, OneClaimHolder, Holds,
        RefundsMatchPayments, PaidOrdersAreSettled, NeverUndercharged, Exists
  <1>2. ASSUME NEW o \in OrderIds, CustomerPays(o) PROVE IInv'
    BY <1>0, <1>2
    DEF CustomerPays, IInv, RecordsOK, HandlersOK, StockNeverNegative, OneClaimHolder, Holds,
        RefundsMatchPayments, PaidOrdersAreSettled, NeverUndercharged, Exists
  <1>3. ASSUME NEW p \in Handlers, NEW o \in OrderIds, StartCancellation(p, o), Exists(o)
        PROVE  IInv'
    <2> DEFINE r == [Idle EXCEPT !.phase = "cancelling", !.order = o, !.paidAt = order[o].paidAt]
    <2>1. req' = [req EXCEPT ![p] = r] /\ UNCHANGED <<stock, order, captured>>
      BY <1>3 DEF StartCancellation
    <2>2. r \in Request /\ r.phase = "cancelling" /\ r.order = o
      BY <1>a, <2>1, IdleTyped DEF Request
    <2> HIDE DEF r
    <2> QED
      BY <1>0, <1>3, <2>1, <2>2, LocalStep
  <1>4. ASSUME NEW o \in OrderIds, ExpireStaleOrder(o) PROVE IInv'
    BY <1>3, <1>4 DEF ExpireStaleOrder, Stale, Exists, Handlers
  <1>5. ASSUME NEW p \in Requests, Handle(p) PROVE IInv'
    <2>0. p \in Handlers
      BY DEF Handlers
    <2>1. ASSUME NEW u \in Users, NEW method \in PaymentMethods, CreateOrder(p, u, method)
          PROVE  IInv'
      <3> DEFINE r == [Idle EXCEPT !.phase = "pricing", !.user = u,
                                   !.items = cart[u], !.method = method]
      <3>1. req' = [req EXCEPT ![p] = r] /\ UNCHANGED <<stock, order, captured>>
        BY <2>1 DEF CreateOrder
      <3>2. r \in Request /\ r.phase = "pricing"
        BY <1>a, <2>0, <3>1, IdleTyped DEF Request
      <3> HIDE DEF r
      <3> QED
        BY <1>0, <2>0, <3>1, <3>2, LocalStep DEF WorkPhases
    <2>2. ASSUME NEW total \in Totals, PriceOrder(p, total) PROVE IInv'
      <3> DEFINE r == [req[p] EXCEPT !.phase = "placing", !.total = total,
                           !.walletPortion = WalletPortion(req[p].method,
                                                           wallet[req[p].user], total)]
      <3>1. req' = [req EXCEPT ![p] = r] /\ UNCHANGED <<stock, order, captured>>
        BY <2>2 DEF PriceOrder
      <3>2. r \in Request /\ r.phase = "placing"
        BY <1>a, <2>0, <3>1 DEF Request
      <3> HIDE DEF r
      <3> QED
        BY <1>0, <2>0, <3>1, <3>2, LocalStep DEF WorkPhases
    <2>3. ASSUME NEW o \in OrderIds, PlaceOrder(p, o) PROVE IInv'
      BY <1>0, <2>3, PlaceOrderSafe
    <2>4. ASSUME NEW o \in OrderIds, InitiateOrderPayment(p, o) PROVE IInv'
      <3> DEFINE r == [Idle EXCEPT !.phase = "initiating", !.order = o]
      <3>1. req' = [req EXCEPT ![p] = r] /\ UNCHANGED <<stock, order, captured>>
        BY <2>4 DEF InitiateOrderPayment
      <3>2. r \in Request /\ r.phase = "initiating" /\ r.order = o
        BY IdleTyped DEF Request, Phases
      <3>3. Exists(o) /\ order[o].payment # "none"
        BY <2>4 DEF InitiateOrderPayment, Payable, Exists
      <3> HIDE DEF r
      <3> QED
        BY <1>0, <2>0, <3>1, <3>2, <3>3, LocalStep
    <2>5. CASE InitiateAnswer(p)
      BY <1>0, <2>5, InitiateAnswerSafe
    <2>6. ASSUME NEW o \in OrderIds, VerifyOrderPayment(p, o) PROVE IInv'
      <3> DEFINE r == [Idle EXCEPT !.phase = "claiming", !.order = o]
      <3>1. req' = [req EXCEPT ![p] = r] /\ UNCHANGED <<stock, order, captured>>
        BY <2>6 DEF VerifyOrderPayment
      <3>2. r \in Request /\ r.phase = "claiming" /\ r.order = o
        BY IdleTyped DEF Request, Phases
      <3>3. order[o].payment = "PENDING"
        BY <2>6 DEF VerifyOrderPayment
      <3>4. Exists(o)
        BY <3>3 DEF IInv, RecordsOK, NoOrder
      <3> HIDE DEF r
      <3> QED
        BY <1>0, <2>0, <3>1, <3>2, <3>3, <3>4, LocalStep
    <2>7. CASE ClaimPayment(p)
      BY <1>0, <2>7, ClaimPaymentSafe
    <2>8. CASE GatewayAnswer(p)
      <3> DEFINE r == [req[p] EXCEPT !.phase = "confirmed"]
      <3>0. req[p].phase = "verifying" /\ UNCHANGED <<stock, order, captured>>
        BY <2>8 DEF GatewayAnswer, In
      <3>1. CASE req' = [req EXCEPT ![p] = Idle]
        BY <1>0, <2>0, <3>0, <3>1, ReturnStep
      <3>2. CASE req' = [req EXCEPT ![p] = r] /\ GatewayConfirms(req[p].order)
        <4>1. r \in Request /\ r.phase = "confirmed" /\ r.order = req[p].order
          BY <1>a, <2>0, <3>2 DEF Request
        <4>2. Exists(req[p].order) /\ req[p].order \in captured /\ Holds(p, req[p].order)
          BY <1>a, <2>0, <3>0, <3>2 DEF GatewayConfirms, Holds, WorkPhases
        <4> HIDE DEF r
        <4> QED
          BY <1>0, <2>0, <3>0, <3>2, <4>1, <4>2, LocalStep
      <3> QED
        BY <2>8, <3>1, <3>2 DEF GatewayAnswer
    <2>9. CASE VerifyCommit(p)
      BY <1>0, <2>9, VerifyCommitSafe
    <2>10. ASSUME NEW o \in OrderIds, CancelOrder(p, o) PROVE IInv'
      <3>1. StartCancellation(p, o) /\ Exists(o)
        BY <2>10 DEF CancelOrder, CANCELLABLE_STATUSES, Exists
      <3> QED
        BY <1>3, <2>0, <3>1
    <2>11. ASSUME NEW o \in OrderIds, NEW status \in AdminStatuses,
                  UpdateOrderStatusAdmin(p, o, status)
           PROVE  IInv'
      <3> DEFINE r == [Idle EXCEPT !.phase = "setStatus", !.order = o, !.status = status,
                                   !.wasDelivered = WasDelivered(o, status)]
      <3>1. /\ req' = [req EXCEPT ![p] = r] /\ UNCHANGED <<stock, order, captured>>
            /\ Exists(o)
        BY <2>11 DEF UpdateOrderStatusAdmin
      <3>2. r \in Request /\ r.phase = "setStatus" /\ r.order = o
        BY <1>a, <2>0, <3>1, IdleTyped DEF Request
      <3> HIDE DEF r
      <3> QED
        BY <1>0, <2>0, <3>1, <3>2, LocalStep
    <2>12. CASE WriteOrderStatus(p)
      BY <1>0, <2>12, WriteOrderStatusSafe
    <2> QED
      BY <1>5, <2>1, <2>2, <2>3, <2>4, <2>5, <2>6, <2>7, <2>8, <2>9, <2>10, <2>11, <2>12
      DEF Handle
  <1>6. ASSUME NEW p \in Handlers, Step(p) PROVE IInv'
    <2>1. CASE RecomputeRead(p)
      <3> DEFINE r == [req[p] EXCEPT !.phase = "writeAggregates",
                                     !.inStock = StockedProducts \cap Affected(req[p].order)]
      <3>1. /\ req' = [req EXCEPT ![p] = r] /\ UNCHANGED <<stock, order, captured>>
            /\ req[p].phase = "recompute"
        BY <2>1 DEF RecomputeRead, In
      <3>2. r \in Request /\ r.phase = "writeAggregates" /\ r.order = req[p].order
        BY <1>a, <3>1 DEF Request
      <3>3. Exists(req[p].order)
        BY <1>a, <3>1 DEF WorkPhases
      <3> HIDE DEF r
      <3> QED
        BY <1>0, <3>1, <3>2, <3>3, LocalStep
    <2>2. CASE RecomputeWrite(p)
      BY <1>0, <2>2, ReturnStep DEF RecomputeWrite
    <2>3. CASE PerformCancellation(p)
      BY <1>0, <2>3, PerformCancellationSafe
    <2>4. CASE CancellationConflict(p)
      BY <1>0, <2>4, ReturnStep DEF CancellationConflict
    <2>5. CASE Fail(p)
      BY <1>0, <2>5, ReturnStep DEF Fail
    <2> QED
      BY <1>6, <2>1, <2>2, <2>3, <2>4, <2>5 DEF Step
  <1>7. CASE UNCHANGED vars
    BY <1>0, <1>7
    DEF vars, IInv, RecordsOK, HandlersOK, StockNeverNegative, OneClaimHolder, Holds,
        RefundsMatchPayments, PaidOrdersAreSettled, NeverUndercharged, Exists
  <1> QED
    BY <1>1, <1>2, <1>4, <1>5, <1>6, <1>7 DEF Next
-------------------------------------------------------------------------------
LEMMA Invariance == Spec => []IInv
  BY IInvInit, IInvNext, PTL DEF Spec

\* No variant is ever sold below zero, whatever the carts said (createOrder).
THEOREM NoOverselling == Spec => []StockNeverNegative
  <1>1. IInv => StockNeverNegative
    BY DEF IInv
  <1> QED
    BY <1>1, Invariance, PTL

\* At most one request is past the claim of a payment (verifyOrderPayment).
THEOREM ClaimIsExclusive == Spec => []OneClaimHolder
  <1>1. IInv => OneClaimHolder
    BY DEF IInv
  <1> QED
    BY <1>1, Invariance, PTL

\* A cancellation refunds at most what was paid, at most once
\* (performCancellation).
THEOREM RefundedAtMostOnce == Spec => []RefundsMatchPayments
  <1>1. IInv => RefundsMatchPayments
    BY DEF IInv
  <1> QED
    BY <1>1, Invariance, PTL

\* Paid means verified with the gateway, or nothing was due there
\* (createOrder, verifyOrderPayment).
THEOREM PaidMeansSettled == Spec => []PaidOrdersAreSettled
  <1>1. IInv => PaidOrdersAreSettled
    BY DEF IInv
  <1> QED
    BY <1>1, Invariance, PTL

\* Wallet and gateway cover the total of every prepaid order (createOrder).
THEOREM TotalsAreCovered == Spec => []NeverUndercharged
  <1>1. IInv => NeverUndercharged
    BY DEF IInv
  <1> QED
    BY <1>1, Invariance, PTL
-------------------------------------------------------------------------------
\* What the shop promises about stock and about gateway payments.

\* What a step does not change of an order, the reservation does not see.
LEMMA ReservationStutters ==
  ASSUME stock' = stock,
         \A o \in OrderIds :
            /\ order'[o].status = "none" <=> order[o].status = "none"
            /\ order'[o].cancelled = order[o].cancelled
            /\ order'[o].items = order[o].items
  PROVE  UNCHANGED Reservation!vars
  <1>1. \A o \in OrderIds : ReservationOf(o)' = ReservationOf(o)
    BY DEF ReservationOf, Exists
  <1> QED
    BY <1>1 DEF Reservation!vars

LEMMA ReservationInit == Init => Reservation!Init
  <1> SUFFICES ASSUME Init PROVE Reservation!Init
    OBVIOUS
  <1>1. stock \in [Variants -> Nat]
    BY ConstantsOK DEF Init
  <1>2. \A o \in OrderIds : ~Exists(o) /\ order[o].items = [v \in Variants |-> 0]
    BY DEF Init, NoOrder, NoItems, Exists
  <1>3. \A o \in OrderIds :
            ReservationOf(o) = [state |-> "none", items |-> [v \in Variants |-> 0]]
    BY <1>2 DEF ReservationOf
  <1> QED
    BY <1>1, <1>3 DEF Reservation!Init

LEMMA ReserveStep ==
  ASSUME IInv, IInv', NEW p \in Requests, NEW o \in OrderIds, PlaceOrder(p, o)
  PROVE  Reservation!Reserve(o)
  <1> DEFINE new == NewOrder(req[p])
             items == req[p].items
  <1>1. /\ order \in [OrderIds -> Order] /\ req[p] \in Request /\ new \in Order
        /\ order' = [order EXCEPT ![o] = new]
    BY DEF PlaceOrder, IInv, Typing, TypeOK, Handlers
  <1>2. order[o].status = "none" /\ order'[o].items = items
        /\ order'[o].status # "none" /\ ~order'[o].cancelled
    BY <1>1 DEF PlaceOrder, NextId, Exists, NewOrder, NoOrder
  <1>3. /\ items \in [Variants -> Nat]
        /\ \A v \in Variants : items[v] <= stock[v]
        /\ stock' = [v \in Variants |-> stock[v] - items[v]]
    BY <1>1 DEF PlaceOrder, CanReserve, Request, Items
  <1>4. \A i \in OrderIds : i # o => order'[i] = order[i]
    BY <1>1
  <1> HIDE DEF new, items
  <1>5. /\ ReservationOf(o).state = "none"
        /\ ReservationOf(o)' = [state |-> "held", items |-> items]
    BY <1>2 DEF ReservationOf, Exists
  <1>6. \A i \in OrderIds : i # o => ReservationOf(i)' = ReservationOf(i)
    BY <1>4 DEF ReservationOf, Exists
  <1> DEFINE res == [i \in OrderIds |-> ReservationOf(i)]
  <1>7. /\ res[o].state = "none" /\ res'[o].items = items
        /\ res' = [res EXCEPT ![o] = [state |-> "held", items |-> items]]
    <2>1. \A i \in OrderIds : res[i] = ReservationOf(i) /\ res'[i] = ReservationOf(i)'
      OBVIOUS
    <2>2. DOMAIN res = OrderIds /\ DOMAIN res' = OrderIds
      OBVIOUS
    <2>3. res' = [i \in OrderIds |-> IF i = o THEN [state |-> "held", items |-> items]
                                             ELSE res[i]]
      BY <1>5, <1>6
    <2>4. res' = [res EXCEPT ![o] = [state |-> "held", items |-> items]]
      BY <2>3
    <2> QED
      BY <1>5, <2>1, <2>4
  <1> QED
    BY <1>3, <1>7 DEF Reservation!Reserve, Reservation!Lines

LEMMA ReleaseStep ==
  ASSUME IInv, IInv', NEW p \in Handlers, PerformCancellation(p)
  PROVE  \E o \in OrderIds : Reservation!Release(o)
  <1>0. PICK o \in OrderIds : o = req[p].order
    BY DEF PerformCancellation, In, IInv, Typing, LocalsOK, WorkPhases
  <1> DEFINE new == CancelledOrder(o, req[p].paidAt)
  <1>1. order \in [OrderIds -> Order] /\ order' = [order EXCEPT ![o] = new]
    BY <1>0 DEF PerformCancellation, IInv, Typing, TypeOK
  <1>2. Exists(o) /\ ~order[o].cancelled
    BY <1>0 DEF PerformCancellation, In, NotYetCancelled, IInv, HandlersOK, WorkPhases
  <1>3. order'[o].items = order[o].items /\ order'[o].cancelled /\ order'[o].status # "none"
    BY <1>1 DEF CancelledOrder, Order
  <1>4. stock' = [v \in Variants |-> stock[v] + order[o].items[v]]
    BY <1>0 DEF PerformCancellation
  <1>5. \A i \in OrderIds : i # o => order'[i] = order[i]
    BY <1>1
  <1> HIDE DEF new
  <1>6. /\ ReservationOf(o) = [state |-> "held", items |-> order[o].items]
        /\ ReservationOf(o)' = [state |-> "released", items |-> order[o].items]
    BY <1>2, <1>3 DEF ReservationOf, Exists
  <1>7. \A i \in OrderIds : i # o => ReservationOf(i)' = ReservationOf(i)
    BY <1>5 DEF ReservationOf, Exists
  <1> DEFINE res == [i \in OrderIds |-> ReservationOf(i)]
  <1>8. /\ res[o].state = "held" /\ res[o].items = order[o].items
        /\ res' = [res EXCEPT ![o].state = "released"]
    <2>1. \A i \in OrderIds : res[i] = ReservationOf(i) /\ res'[i] = ReservationOf(i)'
      OBVIOUS
    <2>2. res' = [i \in OrderIds |-> IF i = o THEN [res[o] EXCEPT !.state = "released"]
                                             ELSE res[i]]
      BY <1>6, <1>7
    <2>3. res' = [res EXCEPT ![o].state = "released"]
      BY <2>2
    <2> QED
      BY <1>6, <2>1, <2>3
  <1>9. Reservation!Release(o)
    BY <1>4, <1>8 DEF Reservation!Release
  <1> QED
    BY <1>9

\* A payment step changes neither items nor cancellation, and an order that
\* exists goes on existing.
LEMMA RowKeepsReservation ==
  ASSUME IInv, NEW p \in Handlers, req[p].phase \in WorkPhases,
         stock' = stock,
         NEW new, order' = [order EXCEPT ![req[p].order] = new],
         new.status # "none",
         new.cancelled = order[req[p].order].cancelled,
         new.items = order[req[p].order].items
  PROVE  UNCHANGED Reservation!vars
  <1>0. PICK o \in OrderIds : o = req[p].order
    BY DEF IInv, Typing, LocalsOK
  <1>1. order[o].status # "none" /\ order \in [OrderIds -> Order]
    BY <1>0 DEF IInv, HandlersOK, Exists, Typing, TypeOK
  <1>2. \A i \in OrderIds : order'[i] = IF i = o THEN new ELSE order[i]
    BY <1>0, <1>1
  <1> QED
    BY <1>0, <1>1, <1>2, ReservationStutters

LEMMA ReservationNext == IInv /\ IInv' /\ [Next]_vars => [Reservation!Next]_(Reservation!vars)
  <1> SUFFICES ASSUME IInv, IInv', [Next]_vars
               PROVE  Reservation!Next \/ UNCHANGED Reservation!vars
    OBVIOUS
  <1>0. ASSUME stock' = stock, order' = order PROVE UNCHANGED Reservation!vars
    BY <1>0, ReservationStutters
  <1>1. ASSUME NEW u \in Users, NEW v \in Variants, NEW q \in Quantities, AddItem(u, v, q)
        PROVE  UNCHANGED Reservation!vars
    BY <1>0, <1>1 DEF AddItem
  <1>2. ASSUME NEW o \in OrderIds, CustomerPays(o) \/ ExpireStaleOrder(o)
        PROVE  UNCHANGED Reservation!vars
    BY <1>0, <1>2 DEF CustomerPays, ExpireStaleOrder, StartCancellation
  <1>3. ASSUME NEW p \in Requests, Handle(p)
        PROVE  Reservation!Next \/ UNCHANGED Reservation!vars
    <2>0. p \in Handlers /\ (req[p].phase \in WorkPhases => order[req[p].order] \in Order)
      BY DEF Handlers, IInv, Typing, TypeOK, LocalsOK
    <2>1. CASE \E o \in OrderIds : PlaceOrder(p, o)
      BY <2>1, ReserveStep DEF Reservation!Next
    <2>2. CASE InitiateAnswer(p)
      <3> DEFINE new == [order[req[p].order] EXCEPT !.refId = "session"]
      <3>1. /\ req[p].phase \in WorkPhases /\ req[p].phase \in {"initiating"}
            /\ stock' = stock /\ order' = [order EXCEPT ![req[p].order] = new]
        BY <2>2 DEF InitiateAnswer, In, WorkPhases
      <3>2. new.status # "none" /\ new.cancelled = order[req[p].order].cancelled
            /\ new.items = order[req[p].order].items
        BY <2>0, <3>1 DEF IInv, HandlersOK, Exists, Order
      <3> QED
        BY <2>0, <3>1, <3>2, RowKeepsReservation
    <2>3. CASE ClaimPayment(p)
      <3> DEFINE new == [order[req[p].order] EXCEPT !.payment = "FAILED"]
      <3>1. /\ req[p].phase \in WorkPhases /\ stock' = stock
            /\ order' = [order EXCEPT ![req[p].order] = new] \/ order' = order
        BY <2>3 DEF ClaimPayment, In, WorkPhases
      <3>2. new.status # "none" /\ new.cancelled = order[req[p].order].cancelled
            /\ new.items = order[req[p].order].items
        BY <2>0, <3>1 DEF IInv, HandlersOK, Exists, Order
      <3> QED
        BY <1>0, <2>0, <3>1, <3>2, RowKeepsReservation
    <2>4. CASE VerifyCommit(p)
      <3> DEFINE new == [order[req[p].order] EXCEPT !.payment = "SUCCESS", !.refId = "receipt",
                                                    !.status = "PROCESSING", !.paidAt = TRUE]
      <3>1. /\ req[p].phase \in WorkPhases /\ stock' = stock
            /\ order' = [order EXCEPT ![req[p].order] = new]
        BY <2>4 DEF VerifyCommit, In, WorkPhases
      <3>2. new.status # "none" /\ new.cancelled = order[req[p].order].cancelled
            /\ new.items = order[req[p].order].items
        BY <2>0, <3>1 DEF Order
      <3> QED
        BY <2>0, <3>1, <3>2, RowKeepsReservation
    <2>5. CASE WriteOrderStatus(p)
      <3> DEFINE new == [order[req[p].order] EXCEPT !.status = req[p].status]
      <3>1. /\ req[p].phase \in WorkPhases /\ stock' = stock
            /\ order' = [order EXCEPT ![req[p].order] = new]
        BY <2>5 DEF WriteOrderStatus, In, WorkPhases
      <3>2. req[p].status \in Statuses
        BY <2>0 DEF IInv, Typing, TypeOK, Request
      <3>3. new.status # "none" /\ new.cancelled = order[req[p].order].cancelled
            /\ new.items = order[req[p].order].items
        BY <2>0, <3>1, <3>2 DEF Order, Statuses
      <3> QED
        BY <2>0, <3>1, <3>3, RowKeepsReservation
    <2>6. ASSUME \/ \E u \in Users, method \in PaymentMethods : CreateOrder(p, u, method)
                 \/ \E total \in Totals : PriceOrder(p, total)
                 \/ \E o \in OrderIds : InitiateOrderPayment(p, o) \/ VerifyOrderPayment(p, o)
                                        \/ CancelOrder(p, o)
                 \/ GatewayAnswer(p)
                 \/ \E o \in OrderIds, status \in AdminStatuses :
                        UpdateOrderStatusAdmin(p, o, status)
          PROVE  UNCHANGED Reservation!vars
      BY <1>0, <2>6 DEF CreateOrder, PriceOrder, InitiateOrderPayment, VerifyOrderPayment,
                        CancelOrder, StartCancellation, GatewayAnswer, UpdateOrderStatusAdmin
    <2> QED
      BY <1>3, <2>1, <2>2, <2>3, <2>4, <2>5, <2>6 DEF Handle
  <1>4. ASSUME NEW p \in Handlers, Step(p)
        PROVE  Reservation!Next \/ UNCHANGED Reservation!vars
    <2>1. CASE PerformCancellation(p)
      BY <2>1, ReleaseStep DEF Reservation!Next
    <2>2. CASE RecomputeRead(p) \/ RecomputeWrite(p) \/ CancellationConflict(p) \/ Fail(p)
      BY <1>0, <2>2 DEF RecomputeRead, RecomputeWrite, CancellationConflict, Fail
    <2> QED
      BY <1>4, <2>1, <2>2 DEF Step
  <1>5. CASE UNCHANGED vars
    BY <1>0, <1>5 DEF vars
  <1> QED
    BY <1>1, <1>2, <1>3, <1>4, <1>5 DEF Next

\* Placing and cancelling orders implement the stock reservation, for any
\* number of concurrent requests (createOrder, performCancellation).
THEOREM ImplementsReservation == Spec => ReservationSpec
  <1>1. Spec => Reservation!Init /\ [][Reservation!Next]_(Reservation!vars)
    BY ReservationInit, ReservationNext, Invariance, PTL DEF Spec
  <1> QED
    BY <1>1 DEF ReservationSpec, Reservation!Spec
-------------------------------------------------------------------------------
LEMMA PaymentStates ==
  ASSUME NEW o \in OrderIds
  PROVE  /\ order[o].payment = "none" => PaymentState(o) = "none"
         /\ order[o].payment = "PENDING" => PaymentState(o) = "open"
         /\ order[o].payment = "SUCCESS" => PaymentState(o) = "settled"
         /\ order[o].payment = "FAILED" /\ (\E p \in Requests : Holds(p, o)) =>
                PaymentState(o) = "claimed"
         /\ order[o].payment = "FAILED" /\ ~(\E p \in Requests : Holds(p, o)) =>
                PaymentState(o) = "dropped"
  BY DEF PaymentState

\* The payment changes with the transaction's status and with who holds a claim.
LEMMA SamePayment ==
  ASSUME NEW o \in OrderIds, order'[o].payment = order[o].payment,
         \A p \in Requests : Holds(p, o)' <=> Holds(p, o)
  PROVE  PaymentState(o)' = PaymentState(o)
  BY DEF PaymentState

LEMMA PaymentStutters ==
  ASSUME captured' = captured,
         \A o \in OrderIds : /\ order'[o].payment = order[o].payment
                             /\ \A p \in Requests : Holds(p, o)' <=> Holds(p, o)
  PROVE  UNCHANGED Payment!vars
  BY SamePayment DEF Payment!vars

LEMMA PaymentMoves ==
  ASSUME captured' = captured, NEW o \in OrderIds, NEW from, NEW to,
         PaymentState(o) = from, PaymentState(o)' = to,
         \A i \in OrderIds \ {o} : /\ order'[i].payment = order[i].payment
                                   /\ \A p \in Requests : Holds(p, i)' <=> Holds(p, i)
  PROVE  Payment!Move(o, from, to)
  <1> DEFINE st == [i \in OrderIds |-> PaymentState(i)]
  <1>1. st[o] = from
    OBVIOUS
  <1>2. st' = [i \in OrderIds |-> IF i = o THEN to ELSE st[i]]
    BY SamePayment
  <1>3. st' = [st EXCEPT ![o] = to]
    BY <1>2
  <1> QED
    BY <1>1, <1>3 DEF Payment!Move

\* A handler that neither holds nor takes a claim leaves the claims as they are.
LEMMA ClaimsKept ==
  ASSUME IInv, NEW p \in Handlers, NEW r, req' = [req EXCEPT ![p] = r],
         req[p].phase \notin {"verifying", "confirmed"},
         r.phase \notin {"verifying", "confirmed"}
  PROVE  \A q \in Requests, o \in OrderIds : Holds(q, o)' <=> Holds(q, o)
  <1>1. req \in [Handlers -> Request]
    BY DEF IInv, Typing, TypeOK
  <1> QED
    BY <1>1 DEF Holds, Handlers

\* A request that returns gives up the one claim it may have held.
LEMMA ClaimGivenUp ==
  ASSUME IInv, NEW p \in Requests, NEW o \in OrderIds, Holds(p, o),
         req' = [req EXCEPT ![p] = Idle]
  PROVE  /\ \A q \in Requests : ~Holds(q, o)'
         /\ \A q \in Requests, i \in OrderIds \ {o} : Holds(q, i)' <=> Holds(q, i)
  <1>1. req \in [Handlers -> Request] /\ p \in Handlers
    BY DEF IInv, Typing, TypeOK, Handlers
  <1>2. \A q \in Requests : q # p => req'[q] = req[q] /\ ~Holds(q, o)
    BY <1>1 DEF IInv, OneClaimHolder, Handlers
  <1>3. req'[p].phase = "idle"
    BY <1>1, IdleTyped
  <1> QED
    BY <1>2, <1>3 DEF Holds

LEMMA PaymentInit == Init => Payment!Init
  <1> SUFFICES ASSUME Init PROVE Payment!Init
    OBVIOUS
  <1>1. \A o \in OrderIds : PaymentState(o) = "none"
    BY PaymentStates DEF Init, NoOrder
  <1> QED
    BY <1>1 DEF Init, Payment!Init

LEMMA OpenStep ==
  ASSUME IInv, IInv', NEW p \in Requests, NEW o \in OrderIds, PlaceOrder(p, o)
  PROVE  Payment!Open(o) \/ UNCHANGED Payment!vars
  <1> DEFINE new == NewOrder(req[p])
             r == [Idle EXCEPT !.phase = "recompute", !.order = o]
  <1>1. /\ order \in [OrderIds -> Order] /\ p \in Handlers
        /\ order' = [order EXCEPT ![o] = new] /\ captured' = captured
        /\ req[p].phase = "placing" /\ req' = [req EXCEPT ![p] = r]
    BY DEF PlaceOrder, In, IInv, Typing, TypeOK, Handlers
  <1>2. order[o].payment = "none" /\ new.payment \in {"none", "PENDING"}
    BY DEF PlaceOrder, NextId, IInv, RecordsOK, NoOrder, NewOrder
  <1>3. r.phase = "recompute"
    BY DEF Idle
  <1> HIDE DEF new, r
  <1>4. \A q \in Requests, i \in OrderIds : Holds(q, i)' <=> Holds(q, i)
    BY <1>1, <1>3, ClaimsKept
  <1>5. order'[o].payment = new.payment /\ \A i \in OrderIds \ {o} : order'[i] = order[i]
    BY <1>1
  <1>6. CASE new.payment = "none"
    BY <1>1, <1>2, <1>4, <1>5, <1>6, PaymentStutters
  <1>7. CASE new.payment = "PENDING"
    <2>1. PaymentState(o) = "none"
      BY <1>2, PaymentStates
    <2>2. PaymentState(o)' = "open"
      BY <1>5, <1>7 DEF PaymentState
    <2> QED
      BY <1>1, <1>4, <1>5, <2>1, <2>2, PaymentMoves DEF Payment!Open
  <1> QED
    BY <1>2, <1>6, <1>7

LEMMA ClaimStep ==
  ASSUME IInv, IInv', NEW p \in Requests, ClaimPayment(p)
  PROVE  (\E o \in OrderIds : Payment!Claim(o)) \/ UNCHANGED Payment!vars
  <1>0. PICK o \in OrderIds : o = req[p].order
    BY DEF ClaimPayment, In, IInv, Typing, LocalsOK, WorkPhases, Handlers
  <1>1. /\ p \in Handlers /\ req[p].phase = "claiming" /\ captured' = captured
        /\ req \in [Handlers -> Request] /\ order \in [OrderIds -> Order]
    BY DEF ClaimPayment, In, Handlers, IInv, Typing, TypeOK
  <1>2. CASE ~Claimable(o)
    <2>1. req' = [req EXCEPT ![p] = Idle] /\ order' = order
      BY <1>0, <1>2 DEF ClaimPayment
    <2>2. \A q \in Requests, i \in OrderIds : Holds(q, i)' <=> Holds(q, i)
      BY <1>1, <2>1, IdleTyped, ClaimsKept
    <2> QED
      BY <1>1, <2>1, <2>2, PaymentStutters
  <1>3. CASE Claimable(o)
    <2>1. /\ order[o].payment = "PENDING"
          /\ order' = [order EXCEPT ![o].payment = "FAILED"]
          /\ req' = [req EXCEPT ![p].phase = "verifying"]
      BY <1>0, <1>3 DEF ClaimPayment, Claimable
    <2>2. order'[o].payment = "FAILED" /\ \A i \in OrderIds \ {o} : order'[i] = order[i]
      BY <1>1, <2>1 DEF Order
    <2>3. /\ req'[p].phase = "verifying" /\ req'[p].order = o
          /\ \A q \in Handlers : q # p => req'[q] = req[q]
      BY <1>0, <1>1, <2>1 DEF Request
    <2>4. Holds(p, o)'
      BY <2>3 DEF Holds
    <2>5. \A q \in Requests, i \in OrderIds \ {o} : Holds(q, i)' <=> Holds(q, i)
      BY <1>1, <2>3 DEF Holds, Handlers
    <2>6. PaymentState(o) = "open"
      BY <2>1, PaymentStates
    <2>7. PaymentState(o)' = "claimed"
      BY <2>2, <2>4 DEF PaymentState
    <2> QED
      BY <1>1, <2>2, <2>5, <2>6, <2>7, PaymentMoves DEF Payment!Claim
  <1> QED
    BY <1>2, <1>3

LEMMA DropStep ==
  ASSUME IInv, IInv', NEW p \in Requests, NEW o \in OrderIds, Holds(p, o),
         req' = [req EXCEPT ![p] = Idle], UNCHANGED <<order, captured>>
  PROVE  Payment!Drop(o)
  <1>1. order[o].payment = "FAILED"
    BY DEF IInv, OneClaimHolder
  <1>2. /\ \A q \in Requests : ~Holds(q, o)'
        /\ \A q \in Requests, i \in OrderIds \ {o} : Holds(q, i)' <=> Holds(q, i)
    BY ClaimGivenUp
  <1>3. PaymentState(o) = "claimed"
    BY <1>1, PaymentStates
  <1>4. PaymentState(o)' = "dropped"
    BY <1>1, <1>2 DEF PaymentState
  <1> QED
    BY <1>2, <1>3, <1>4, PaymentMoves DEF Payment!Drop

LEMMA SettleStep ==
  ASSUME IInv, IInv', NEW p \in Requests, VerifyCommit(p)
  PROVE  \E o \in OrderIds : Payment!Settle(o)
  <1>0. PICK o \in OrderIds : o = req[p].order
    BY DEF VerifyCommit, In, IInv, Typing, LocalsOK, WorkPhases, Handlers
  <1> DEFINE new == [order[o] EXCEPT !.payment = "SUCCESS", !.refId = "receipt",
                                     !.status = "PROCESSING", !.paidAt = TRUE]
  <1>1. /\ p \in Handlers /\ req[p].phase = "confirmed" /\ captured' = captured
        /\ req' = [req EXCEPT ![p] = Idle] /\ order' = [order EXCEPT ![o] = new]
        /\ order \in [OrderIds -> Order]
    BY <1>0 DEF VerifyCommit, In, Handlers, IInv, Typing, TypeOK
  <1>2. Holds(p, o) /\ o \in captured /\ order[o].payment = "FAILED"
    BY <1>0, <1>1 DEF Holds, IInv, HandlersOK, OneClaimHolder
  <1>3. /\ order'[o].payment = "SUCCESS"
        /\ \A i \in OrderIds \ {o} : order'[i] = order[i]
    BY <1>1 DEF Order
  <1>4. \A q \in Requests, i \in OrderIds \ {o} : Holds(q, i)' <=> Holds(q, i)
    BY <1>1, <1>2, ClaimGivenUp
  <1>5. PaymentState(o) = "claimed"
    BY <1>2, PaymentStates
  <1>6. PaymentState(o)' = "settled"
    BY <1>3 DEF PaymentState
  <1> HIDE DEF new
  <1> QED
    BY <1>1, <1>2, <1>3, <1>4, <1>5, <1>6, PaymentMoves DEF Payment!Settle

\* A step that keeps all payments and moves a handler between phases outside
\* the claim is invisible to the settlement.
LEMMA PaymentUnseen ==
  ASSUME IInv, NEW p \in Handlers, NEW r, req' = [req EXCEPT ![p] = r],
         req[p].phase \notin {"verifying", "confirmed"},
         r.phase \notin {"verifying", "confirmed"},
         captured' = captured,
         \A o \in OrderIds : order'[o].payment = order[o].payment
  PROVE  UNCHANGED Payment!vars
  BY ClaimsKept, PaymentStutters

LEMMA PaymentNext == IInv /\ IInv' /\ [Next]_vars => [Payment!Next]_(Payment!vars)
  <1> SUFFICES ASSUME IInv, IInv', [Next]_vars
               PROVE  Payment!Next \/ UNCHANGED Payment!vars
    OBVIOUS
  <1>0. order \in [OrderIds -> Order] /\ req \in [Handlers -> Request]
    BY DEF IInv, Typing, TypeOK
  <1>1. ASSUME captured' = captured, order' = order, req' = req
        PROVE  UNCHANGED Payment!vars
    BY <1>1, PaymentStutters DEF Holds
  <1>2. ASSUME NEW u \in Users, NEW v \in Variants, NEW q \in Quantities, AddItem(u, v, q)
        PROVE  UNCHANGED Payment!vars
    BY <1>1, <1>2 DEF AddItem
  <1>3. ASSUME NEW o \in OrderIds, CustomerPays(o) PROVE Payment!Capture(o)
    <2>1. order[o].payment # "none"
      BY <1>3 DEF CustomerPays, IInv, RecordsOK
    <2>2. order[o].payment \in {"PENDING", "FAILED", "SUCCESS"}
      BY <1>0, <2>1 DEF Order
    <2>3. PaymentState(o) # "none"
      BY <2>2, PaymentStates
    <2>4. \A i \in OrderIds : PaymentState(i)' = PaymentState(i)
      BY <1>3, SamePayment DEF CustomerPays, Holds
    <2> QED
      BY <1>3, <2>3, <2>4 DEF CustomerPays, Payment!Capture
  <1>4. ASSUME NEW p \in Handlers, NEW o \in OrderIds, StartCancellation(p, o)
        PROVE  UNCHANGED Payment!vars
    <2> DEFINE r == [Idle EXCEPT !.phase = "cancelling", !.order = o, !.paidAt = order[o].paidAt]
    <2>1. /\ req[p].phase = "idle" /\ r.phase = "cancelling"
          /\ req' = [req EXCEPT ![p] = r] /\ UNCHANGED <<order, captured>>
      BY <1>4 DEF StartCancellation, In, Idle
    <2> HIDE DEF r
    <2> QED
      BY <2>1, PaymentUnseen
  <1>5. ASSUME NEW o \in OrderIds, ExpireStaleOrder(o) PROVE UNCHANGED Payment!vars
    BY <1>4, <1>5 DEF ExpireStaleOrder, Handlers
  <1>6. ASSUME NEW p \in Requests, Handle(p) PROVE Payment!Next \/ UNCHANGED Payment!vars
    <2>0. p \in Handlers
      BY DEF Handlers
    <2>1. ASSUME NEW u \in Users, NEW method \in PaymentMethods, CreateOrder(p, u, method)
          PROVE  UNCHANGED Payment!vars
      <3> DEFINE r == [Idle EXCEPT !.phase = "pricing", !.user = u,
                                   !.items = cart[u], !.method = method]
      <3>1. /\ req[p].phase = "idle" /\ r.phase = "pricing"
            /\ req' = [req EXCEPT ![p] = r] /\ UNCHANGED <<order, captured>>
        BY <2>1 DEF CreateOrder, In, Idle
      <3> HIDE DEF r
      <3> QED
        BY <2>0, <3>1, PaymentUnseen
    <2>2. ASSUME NEW total \in Totals, PriceOrder(p, total) PROVE UNCHANGED Payment!vars
      <3> DEFINE r == [req[p] EXCEPT !.phase = "placing", !.total = total,
                           !.walletPortion = WalletPortion(req[p].method,
                                                           wallet[req[p].user], total)]
      <3>1. /\ req[p].phase = "pricing" /\ r.phase = "placing"
            /\ req' = [req EXCEPT ![p] = r] /\ UNCHANGED <<order, captured>>
        BY <1>0, <2>0, <2>2 DEF PriceOrder, In, Request
      <3> HIDE DEF r
      <3> QED
        BY <2>0, <3>1, PaymentUnseen
    <2>3. ASSUME NEW o \in OrderIds, PlaceOrder(p, o)
          PROVE  Payment!Next \/ UNCHANGED Payment!vars
      BY <2>3, OpenStep DEF Payment!Next
    <2>4. ASSUME NEW o \in OrderIds, InitiateOrderPayment(p, o)
          PROVE  UNCHANGED Payment!vars
      <3> DEFINE r == [Idle EXCEPT !.phase = "initiating", !.order = o]
      <3>1. /\ req[p].phase = "idle" /\ r.phase = "initiating"
            /\ req' = [req EXCEPT ![p] = r] /\ UNCHANGED <<order, captured>>
        BY <2>4 DEF InitiateOrderPayment, In, Idle
      <3> HIDE DEF r
      <3> QED
        BY <2>0, <3>1, PaymentUnseen
    <2>5. CASE InitiateAnswer(p)
      <3>1. /\ req[p].phase = "initiating" /\ Idle.phase = "idle"
            /\ req' = [req EXCEPT ![p] = Idle] /\ captured' = captured
            /\ order' = [order EXCEPT ![req[p].order].refId = "session"]
        BY <2>5, IdleTyped DEF InitiateAnswer, In
      <3>2. \A o \in OrderIds : order'[o].payment = order[o].payment
        BY <1>0, <3>1 DEF Order
      <3> QED
        BY <2>0, <3>1, <3>2, PaymentUnseen
    <2>6. ASSUME NEW o \in OrderIds, VerifyOrderPayment(p, o) PROVE UNCHANGED Payment!vars
      <3> DEFINE r == [Idle EXCEPT !.phase = "claiming", !.order = o]
      <3>1. /\ req[p].phase = "idle" /\ r.phase = "claiming"
            /\ req' = [req EXCEPT ![p] = r] /\ UNCHANGED <<order, captured>>
        BY <2>6 DEF VerifyOrderPayment, In, Idle
      <3> HIDE DEF r
      <3> QED
        BY <2>0, <3>1, PaymentUnseen
    <2>7. CASE ClaimPayment(p)
      BY <2>7, ClaimStep DEF Payment!Next
    <2>8. CASE GatewayAnswer(p)
      <3>1. PICK o \in OrderIds : o = req[p].order
        BY <2>0, <2>8 DEF GatewayAnswer, In, IInv, Typing, LocalsOK, WorkPhases
      <3>2. Holds(p, o) /\ UNCHANGED <<order, captured>>
        BY <2>8, <3>1 DEF GatewayAnswer, In, Holds
      <3>3. CASE req' = [req EXCEPT ![p] = Idle]
        BY <3>2, <3>3, DropStep DEF Payment!Next
      <3>4. CASE req' = [req EXCEPT ![p].phase = "confirmed"]
        <4>1. /\ req'[p].phase = "confirmed" /\ req'[p].order = o
              /\ \A q \in Handlers : q # p => req'[q] = req[q]
          BY <1>0, <2>0, <3>1, <3>4 DEF Request
        <4>2. \A q \in Requests, i \in OrderIds : Holds(q, i)' <=> Holds(q, i)
          BY <3>2, <4>1 DEF Holds, Handlers
        <4> QED
          BY <3>2, <4>2, PaymentStutters
      <3> QED
        BY <2>8, <3>3, <3>4 DEF GatewayAnswer
    <2>9. CASE VerifyCommit(p)
      BY <2>9, SettleStep DEF Payment!Next
    <2>10. ASSUME NEW o \in OrderIds, CancelOrder(p, o) PROVE UNCHANGED Payment!vars
      BY <1>4, <2>0, <2>10 DEF CancelOrder
    <2>11. ASSUME NEW o \in OrderIds, NEW status \in AdminStatuses,
                  UpdateOrderStatusAdmin(p, o, status)
           PROVE  UNCHANGED Payment!vars
      <3> DEFINE r == [Idle EXCEPT !.phase = "setStatus", !.order = o, !.status = status,
                                   !.wasDelivered = WasDelivered(o, status)]
      <3>1. /\ req[p].phase = "idle" /\ r.phase = "setStatus"
            /\ req' = [req EXCEPT ![p] = r] /\ UNCHANGED <<order, captured>>
        BY <2>11 DEF UpdateOrderStatusAdmin, In, Idle
      <3> HIDE DEF r
      <3> QED
        BY <2>0, <3>1, PaymentUnseen
    <2>12. CASE WriteOrderStatus(p)
      <3>1. /\ req[p].phase = "setStatus" /\ Idle.phase = "idle"
            /\ req' = [req EXCEPT ![p] = Idle] /\ captured' = captured
            /\ order' = [order EXCEPT ![req[p].order].status = req[p].status]
        BY <2>12, IdleTyped DEF WriteOrderStatus, In
      <3>2. \A o \in OrderIds : order'[o].payment = order[o].payment
        BY <1>0, <3>1 DEF Order
      <3> QED
        BY <2>0, <3>1, <3>2, PaymentUnseen
    <2> QED
      BY <1>6, <2>1, <2>2, <2>3, <2>4, <2>5, <2>6, <2>7, <2>8, <2>9, <2>10, <2>11, <2>12
      DEF Handle
  <1>7. ASSUME NEW p \in Handlers, Step(p) PROVE Payment!Next \/ UNCHANGED Payment!vars
    <2>1. CASE RecomputeRead(p)
      <3> DEFINE r == [req[p] EXCEPT !.phase = "writeAggregates",
                                     !.inStock = StockedProducts \cap Affected(req[p].order)]
      <3>1. /\ req[p].phase = "recompute" /\ r.phase = "writeAggregates"
            /\ req' = [req EXCEPT ![p] = r] /\ UNCHANGED <<order, captured>>
        BY <1>0, <2>1 DEF RecomputeRead, In, Request
      <3> HIDE DEF r
      <3> QED
        BY <3>1, PaymentUnseen
    <2>2. CASE RecomputeWrite(p) \/ CancellationConflict(p)
      BY <2>2, IdleTyped, PaymentUnseen DEF RecomputeWrite, CancellationConflict, In
    <2>3. CASE PerformCancellation(p)
      <3> DEFINE r == [Idle EXCEPT !.phase = "recompute", !.order = req[p].order]
                 new == CancelledOrder(req[p].order, req[p].paidAt)
      <3>1. /\ req[p].phase = "cancelling" /\ r.phase = "recompute"
            /\ req' = [req EXCEPT ![p] = r] /\ captured' = captured
            /\ order' = [order EXCEPT ![req[p].order] = new]
            /\ req[p].order \in OrderIds
        BY <2>3 DEF PerformCancellation, In, Idle, IInv, Typing, LocalsOK, WorkPhases
      <3>2. new.payment = order[req[p].order].payment
        BY <1>0, <3>1 DEF CancelledOrder, Order
      <3> HIDE DEF r, new
      <3>3. \A o \in OrderIds : order'[o].payment = order[o].payment
        BY <1>0, <3>1, <3>2
      <3> QED
        BY <3>1, <3>3, PaymentUnseen
    <2>4. CASE Fail(p)
      <3>1. req' = [req EXCEPT ![p] = Idle] /\ UNCHANGED <<order, captured>>
        BY <2>4 DEF Fail
      <3>2. CASE p \in Requests /\ req[p].phase \in {"verifying", "confirmed"}
        <4>1. PICK o \in OrderIds : o = req[p].order
          BY <3>2 DEF IInv, Typing, LocalsOK, WorkPhases
        <4>2. Holds(p, o)
          BY <3>2, <4>1 DEF Holds
        <4> QED
          BY <3>1, <3>2, <4>2, DropStep DEF Payment!Next
      <3>3. CASE req[p].phase \notin {"verifying", "confirmed"}
        BY <3>1, <3>3, IdleTyped, PaymentUnseen
      <3>4. CASE p \notin Requests
        <4>1. \A q \in Requests : req'[q] = req[q]
          BY <1>0, <3>1, <3>4 DEF Handlers
        <4> QED
          BY <3>1, <4>1, PaymentStutters DEF Holds
      <3> QED
        BY <3>2, <3>3, <3>4
    <2> QED
      BY <1>7, <2>1, <2>2, <2>3, <2>4 DEF Step
  <1>8. CASE UNCHANGED vars
    BY <1>1, <1>8 DEF vars
  <1> QED
    BY <1>2, <1>3, <1>5, <1>6, <1>7, <1>8 DEF Next, Payment!Next

\* Paying an order at the gateway implements a settlement: one claim, one effect,
\* only captured money (verifyOrderPayment).
THEOREM ImplementsSettlement == Spec => PaymentSpec
  <1>1. Spec => Payment!Init /\ [][Payment!Next]_(Payment!vars)
    BY PaymentInit, PaymentNext, Invariance, PTL DEF Spec
  <1> QED
    BY <1>1 DEF PaymentSpec, Payment!Spec
-------------------------------------------------------------------------------
\* Units on the shelf and in orders, units counted as sold.

Placed == {o \in OrderIds : Exists(o)}

Holding == {o \in OrderIds : Exists(o) /\ ~order[o].cancelled}

\* A write of DELIVERED that will not be counted, because the order read
\* DELIVERED already.
WritesUncounted(p, o) ==
    /\ In(p, "setStatus")
    /\ req[p].order = o
    /\ req[p].status = "DELIVERED"
    /\ ~req[p].wasDelivered

\* Orders that are delivered, or may become so without being counted again.
Counted ==
    {o \in OrderIds : \/ order[o].status = "DELIVERED"
                      \/ \E p \in Requests : WritesUncounted(p, o)}

\* Autoincrement keys: only finitely many orders have been placed.
FinitelyPlaced == IsFiniteSet(Placed)

\* totalSold has every unit of those orders.
CountedSold == \A v \in Variants : UnitsIn(Counted, v) <= totalSold[v]

TotalsInv == FinitelyPlaced /\ StockConserved /\ CountedSold
-------------------------------------------------------------------------------
LEMMA UnitsNat ==
  ASSUME TypeOK, NEW S \in SUBSET OrderIds, IsFiniteSet(S), NEW v \in Variants
  PROVE  /\ UnitsIn(S, v) \in Nat
         /\ \A o \in S : [i \in OrderIds |-> order[i].items[v]][o] \in Nat
  <1>1. \A o \in S : [i \in OrderIds |-> order[i].items[v]][o] \in Nat
    BY DEF TypeOK, Order, Items
  <1> QED
    BY <1>1, SumNat DEF UnitsIn

LEMMA UnitsMonotone ==
  ASSUME TypeOK, NEW S \in SUBSET OrderIds, IsFiniteSet(S), NEW v \in Variants,
         NEW T \in SUBSET S
  PROVE  UnitsIn(T, v) <= UnitsIn(S, v)
  BY UnitsNat, SumSubset DEF UnitsIn

LEMMA UnitsAdd ==
  ASSUME TypeOK, NEW S \in SUBSET OrderIds, IsFiniteSet(S), NEW v \in Variants,
         NEW o \in OrderIds \ S
  PROVE  UnitsIn(S \cup {o}, v) = UnitsIn(S, v) + order[o].items[v]
  <1> DEFINE f == [i \in OrderIds |-> order[i].items[v]]
  <1>1. f[o] = order[o].items[v] /\ f[o] \in Int /\ \A i \in S : f[i] \in Int
    BY DEF TypeOK, Order, Items
  <1> HIDE DEF f
  <1>2. SumFunctionOnSet(f, S \cup {o}) = SumFunctionOnSet(f, S) + f[o]
    BY <1>1, SumAdd
  <1> QED
    BY <1>1, <1>2 DEF UnitsIn, f

\* Orders whose lines a step leaves alone hold what they held.
LEMMA UnitsSame ==
  ASSUME NEW S \in SUBSET OrderIds, IsFiniteSet(S), NEW v \in Variants,
         \A o \in S : order'[o].items = order[o].items
  PROVE  UnitsIn(S, v)' = UnitsIn(S, v)
  <1> DEFINE f == [i \in OrderIds |-> order[i].items[v]]
             e == [i \in OrderIds |-> order'[i].items[v]]
  <1>1. \A i \in S : f[i] = e[i]
    OBVIOUS
  <1> HIDE DEF f, e
  <1>2. SumFunctionOnSet(f, S) = SumFunctionOnSet(e, S)
    BY <1>1, SumSame
  <1> QED
    BY <1>2 DEF UnitsIn, f, e
-------------------------------------------------------------------------------
LEMMA TotalsInit == Init => TotalsInv
  <1> SUFFICES ASSUME Init PROVE TotalsInv
    OBVIOUS
  <1>1. \A o \in OrderIds : order[o].status = "none"
    BY DEF Init, NoOrder
  <1>2. Placed = {} /\ Holding = {}
    BY <1>1 DEF Placed, Holding, Exists
  <1>3. Counted = {}
    <2>1. \A p \in Requests : req[p].phase = "idle"
      BY DEF Init, Idle, Handlers
    <2> QED
      BY <1>1, <2>1 DEF Counted, WritesUncounted, In
  <1>4. \A v \in Variants : UnitsIn({}, v) = 0
    BY SumEmpty DEF UnitsIn
  <1>5. /\ stock = InitialStock
        /\ \A v \in Variants : stock[v] \in Nat /\ totalSold[v] = 0
    BY ConstantsOK DEF Init
  <1>6. StockConserved
    BY <1>2, <1>4, <1>5 DEF StockConserved, Holding
  <1>7. CountedSold
    BY <1>3, <1>4, <1>5 DEF CountedSold
  <1> QED
    BY <1>2, <1>6, <1>7, FS_EmptySet DEF TotalsInv, FinitelyPlaced

\* A step of the stock reservation loses no unit.
LEMMA ReservationConserves ==
  ASSUME TypeOK, TypeOK', FinitelyPlaced, StockConserved,
         [Reservation!Next]_(Reservation!vars)
  PROVE  StockConserved'
  <1> DEFINE res == [o \in OrderIds |-> ReservationOf(o)]
  <1>0. /\ \A o \in OrderIds : res[o] = ReservationOf(o) /\ res'[o] = ReservationOf(o)'
        /\ \A o \in OrderIds : res[o].items = order[o].items /\ res'[o].items = order'[o].items
        /\ \A o \in OrderIds : res[o].state = "held" <=> o \in Holding
        /\ \A o \in OrderIds : res'[o].state = "held" <=> o \in Holding'
    BY DEF ReservationOf, Holding
  <1>a. /\ Holding \subseteq OrderIds /\ Holding' \subseteq OrderIds
        /\ IsFiniteSet(Holding)
    BY FS_Subset DEF Holding, FinitelyPlaced, Placed
  <1>d. SUFFICES ASSUME NEW v \in Variants
                 PROVE  stock'[v] + UnitsIn(Holding, v)' = InitialStock[v]
    BY DEF StockConserved, Holding
  <1> DEFINE f == [o \in OrderIds |-> order[o].items[v]]
             e == [o \in OrderIds |-> order'[o].items[v]]
  <1>b. /\ stock[v] \in Int /\ stock'[v] \in Int
        /\ \A o \in OrderIds : f[o] \in Nat /\ e[o] \in Nat
    BY DEF TypeOK, Order, Items
  <1>c. stock[v] + SumFunctionOnSet(f, Holding) = InitialStock[v]
    BY DEF StockConserved, Holding, UnitsIn
  <1>e. SumFunctionOnSet(f, Holding) \in Int
    BY <1>a, <1>b, SumInt
  <1>f. SUFFICES stock'[v] + SumFunctionOnSet(e, Holding') = InitialStock[v]
    BY DEF UnitsIn
  <1>g. \A o \in OrderIds : f[o] = res[o].items[v] /\ e[o] = res'[o].items[v]
    BY <1>0
  <1> HIDE DEF f, e
  <1>1. ASSUME NEW o \in OrderIds, Reservation!Reserve(o)
        PROVE  stock'[v] + SumFunctionOnSet(e, Holding') = InitialStock[v]
    <2> DEFINE new == [state |-> "held", items |-> res'[o].items]
    <2>1. /\ res[o].state = "none"
          /\ res' = [res EXCEPT ![o] = new]
          /\ stock'[v] = stock[v] - res'[o].items[v]
      BY <1>1 DEF Reservation!Reserve
    <2>2. /\ \A i \in OrderIds : i # o => res'[i] = res[i]
          /\ res'[o].state = "held"
      <3>1. DOMAIN res = OrderIds /\ res'[o] = new
        BY <2>1
      <3> HIDE DEF res
      <3> QED
        BY <2>1, <3>1
    <2> HIDE DEF res, new
    <2>4. o \notin Holding /\ Holding' = Holding \cup {o}
      BY <1>0, <1>a, <2>1, <2>2
    <2>5. \A i \in Holding : f[i] \in Int /\ e[i] = f[i]
      BY <1>a, <1>b, <1>g, <2>2, <2>4
    <2>6. SumFunctionOnSet(e, Holding') = SumFunctionOnSet(f, Holding) + e[o]
      BY <1>a, <1>b, <2>4, <2>5, SumGrows
    <2>7. stock'[v] = stock[v] - e[o]
      BY <1>g, <2>1
    <2> QED
      BY <1>b, <1>c, <1>e, <2>6, <2>7
  <1>2. ASSUME NEW o \in OrderIds, Reservation!Release(o)
        PROVE  stock'[v] + SumFunctionOnSet(e, Holding') = InitialStock[v]
    <2>1. /\ res[o].state = "held"
          /\ res' = [res EXCEPT ![o].state = "released"]
          /\ stock'[v] = stock[v] + res[o].items[v]
      BY <1>2 DEF Reservation!Release
    <2>2. /\ \A i \in OrderIds : i # o => res'[i] = res[i]
          /\ res'[o].state = "released"
      BY <2>1 DEF ReservationOf
    <2> HIDE DEF res
    <2>4. o \in Holding /\ Holding' = Holding \ {o}
      BY <1>0, <1>a, <2>1, <2>2
    <2>5. \A i \in Holding : f[i] \in Int
      BY <1>a, <1>b
    <2>6. \A i \in Holding \ {o} : e[i] = f[i]
      BY <1>a, <1>g, <2>2
    <2>7. SumFunctionOnSet(e, Holding') = SumFunctionOnSet(f, Holding) - f[o]
      <3>1. SumFunctionOnSet(e, Holding \ {o}) = SumFunctionOnSet(f, Holding) - f[o]
        BY <1>a, <2>4, <2>5, <2>6, SumShrinks, SMTT(30)
      <3> QED
        BY <2>4, <3>1
    <2>8. stock'[v] = stock[v] + f[o]
      BY <1>g, <2>1
    <2> QED
      BY <1>b, <1>c, <1>e, <2>7, <2>8
  <1>3. CASE UNCHANGED Reservation!vars
    <2>1. stock' = stock /\ res' = res
      BY <1>3 DEF Reservation!vars
    <2> HIDE DEF res
    <2>2. Holding' = Holding /\ \A i \in Holding : e[i] = f[i]
      BY <1>0, <1>a, <1>g, <2>1
    <2>3. SumFunctionOnSet(e, Holding) = SumFunctionOnSet(f, Holding)
      BY <1>a, <2>2, SumSame
    <2> QED
      BY <1>c, <2>1, <2>2, <2>3
  <1> QED
    BY <1>1, <1>2, <1>3 DEF Reservation!Next

\* Every order placed stays placed, and a step places one order at most.
LEMMA PlacedGrows ==
  ASSUME IInv, IInv', [Next]_vars, FinitelyPlaced
  PROVE  FinitelyPlaced'
  <1> DEFINE res == [o \in OrderIds |-> ReservationOf(o)]
  <1>0. /\ \A o \in OrderIds : res[o].state = "none" <=> o \notin Placed
        /\ \A o \in OrderIds : res'[o].state = "none" <=> o \notin Placed'
        /\ DOMAIN res = OrderIds /\ Placed \subseteq OrderIds /\ Placed' \subseteq OrderIds
    BY DEF ReservationOf, Placed
  <1>1. Reservation!Next \/ UNCHANGED Reservation!vars
    BY ReservationNext
  <1>2. ASSUME NEW o \in OrderIds, Reservation!Reserve(o) PROVE Placed' = Placed \cup {o}
    <2> DEFINE new == [state |-> "held", items |-> res'[o].items]
    <2>1. res[o].state = "none" /\ res' = [res EXCEPT ![o] = new]
      BY <1>2 DEF Reservation!Reserve
    <2> HIDE DEF res
    <2>2. \A i \in OrderIds : i # o => res'[i] = res[i]
      BY <1>0, <2>1
    <2>3. res'[o].state = "held"
      BY <1>0, <2>1
    <2> QED
      BY <1>0, <2>1, <2>2, <2>3
  <1>3. ASSUME NEW o \in OrderIds, Reservation!Release(o) PROVE Placed' = Placed
    <2>1. /\ res[o].state = "held" /\ res' = [res EXCEPT ![o].state = "released"]
      BY <1>3 DEF Reservation!Release
    <2>2. /\ \A i \in OrderIds : i # o => res'[i] = res[i]
          /\ res'[o].state = "released"
      BY <2>1 DEF ReservationOf
    <2> HIDE DEF res
    <2> QED
      BY <1>0, <2>1, <2>2
  <1>4. CASE UNCHANGED Reservation!vars
    <2>1. res' = res
      BY <1>4 DEF Reservation!vars
    <2> HIDE DEF res
    <2> QED
      BY <1>0, <2>1 DEF FinitelyPlaced
  <1> QED
    BY <1>1, <1>2, <1>3, <1>4, FS_AddElement DEF Reservation!Next, FinitelyPlaced

LEMMA CountedPlaced == IInv => Counted \subseteq Placed
  BY DEF IInv, HandlersOK, Counted, WritesUncounted, In, Placed, Exists, Handlers, WorkPhases
-------------------------------------------------------------------------------
\* A step that counts nothing, and lets no order become delivered uncounted.
LEMMA NothingCounted ==
  ASSUME TypeOK, IInv, FinitelyPlaced, CountedSold,
         totalSold' = totalSold,
         Counted' \subseteq Counted,
         \A o \in Placed : order'[o].items = order[o].items
  PROVE  CountedSold'
  <1> SUFFICES ASSUME NEW v \in Variants PROVE UnitsIn(Counted, v)' <= totalSold'[v]
    BY DEF CountedSold
  <1>1. /\ Counted \subseteq Placed /\ Placed \subseteq OrderIds /\ Counted' \subseteq OrderIds
        /\ Counted \subseteq OrderIds
    BY CountedPlaced DEF Placed, Counted
  <1>2. IsFiniteSet(Counted) /\ IsFiniteSet(Counted')
    BY <1>1, FS_Subset DEF FinitelyPlaced
  <1> DEFINE f == [o \in OrderIds |-> order[o].items[v]]
             e == [o \in OrderIds |-> order'[o].items[v]]
             C == Counted
             D == Counted'
  <1>3. \A o \in C : f[o] \in Nat
    BY <1>1 DEF TypeOK, Order, Items
  <1>4. \A o \in D : e[o] = f[o]
    BY <1>1
  <1>5. SumFunctionOnSet(f, C) <= totalSold[v]
    BY DEF CountedSold, UnitsIn
  <1>6. totalSold[v] \in Nat
    BY DEF TypeOK
  <1> HIDE DEF f, e, C, D
  <1>7. SumFunctionOnSet(f, D) <= SumFunctionOnSet(f, C)
    BY <1>1, <1>2, <1>3, SumSubset DEF C, D
  <1>8. SumFunctionOnSet(e, D) = SumFunctionOnSet(f, D)
    BY <1>2, <1>4, SumSame DEF D
  <1>9. /\ SumFunctionOnSet(f, C) \in Nat /\ SumFunctionOnSet(f, D) \in Nat
    <2>1. \A o \in D : f[o] \in Nat
      BY <1>3 DEF C, D
    <2> QED
      BY <1>2, <1>3, <2>1, SumNat DEF C, D
  <1>10. SumFunctionOnSet(e, D) <= totalSold[v]
    BY <1>5, <1>6, <1>7, <1>8, <1>9
  <1> QED
    BY <1>10 DEF UnitsIn, e, D

\* A delivery that is counted.
LEMMA DeliveryCounted ==
  ASSUME TypeOK, IInv, FinitelyPlaced, CountedSold,
         NEW o \in Placed,
         totalSold' = [v \in Variants |-> totalSold[v] + order[o].items[v]],
         Counted' \subseteq Counted \cup {o},
         \A i \in Placed : order'[i].items = order[i].items
  PROVE  CountedSold'
  <1> SUFFICES ASSUME NEW v \in Variants PROVE UnitsIn(Counted, v)' <= totalSold'[v]
    BY DEF CountedSold
  <1>1. /\ Counted \subseteq Placed /\ Placed \subseteq OrderIds /\ Counted' \subseteq OrderIds
        /\ Counted \subseteq OrderIds /\ o \in OrderIds
    BY CountedPlaced DEF Placed, Counted
  <1> DEFINE f == [i \in OrderIds |-> order[i].items[v]]
             e == [i \in OrderIds |-> order'[i].items[v]]
             C == Counted \ {o}
             D == Counted'
             E == C \cup {o}
  <1>2. IsFiniteSet(Counted) /\ IsFiniteSet(C) /\ IsFiniteSet(E)
    BY <1>1, FS_Subset, FS_AddElement DEF FinitelyPlaced
  <1>a. D \subseteq E /\ IsFiniteSet(D) /\ o \notin C /\ C \subseteq Counted
    BY <1>2, FS_Subset
  <1>3. \A i \in E : f[i] \in Nat
    BY <1>1 DEF TypeOK, Order, Items
  <1>4. \A i \in D : e[i] = f[i]
    BY <1>1
  <1>5. SumFunctionOnSet(f, Counted) <= totalSold[v]
    BY DEF CountedSold, UnitsIn
  <1>6. totalSold[v] \in Nat /\ totalSold'[v] = totalSold[v] + f[o] /\ f[o] \in Nat
    BY <1>1 DEF TypeOK, Order, Items
  <1>b. \A i \in Counted : f[i] \in Nat
    BY <1>1 DEF TypeOK, Order, Items
  <1> HIDE DEF f, e, C, D
  <1>7. SumFunctionOnSet(f, D) <= SumFunctionOnSet(f, E)
    BY <1>2, <1>3, <1>a, SumSubset
  <1>c. SumFunctionOnSet(f, E) = SumFunctionOnSet(f, C) + f[o]
    <2>1. \A i \in C : f[i] \in Int
      BY <1>3
    <2> QED
      BY <1>2, <1>6, <1>a, <2>1, SumAdd
  <1>d. SumFunctionOnSet(f, C) <= SumFunctionOnSet(f, Counted)
    BY <1>2, <1>a, <1>b, SumSubset
  <1>8. SumFunctionOnSet(e, D) = SumFunctionOnSet(f, D)
    BY <1>a, <1>4, SumSame
  <1>9. /\ SumFunctionOnSet(f, C) \in Nat /\ SumFunctionOnSet(f, D) \in Nat
        /\ SumFunctionOnSet(f, Counted) \in Nat
    <2>1. (\A i \in D : f[i] \in Nat) /\ \A i \in C : f[i] \in Nat
      BY <1>3, <1>a
    <2> QED
      BY <1>2, <1>a, <1>b, <2>1, SumNat
  <1>10. SumFunctionOnSet(e, D) <= totalSold'[v]
    BY <1>5, <1>6, <1>7, <1>8, <1>9, <1>c, <1>d
  <1> QED
    BY <1>10 DEF UnitsIn, e, D

\* Steps after which no order is delivered, or about to be, that was not before.
LEMMA CountedStutters ==
  ASSUME IInv,
         \A o \in OrderIds : order'[o].status = "DELIVERED" => order[o].status = "DELIVERED",
         \A p \in Requests, o \in OrderIds :
            WritesUncounted(p, o)' => WritesUncounted(p, o) \/ order[o].status = "DELIVERED"
  PROVE  Counted' \subseteq Counted
  BY DEF Counted

\* The row of an order that is not delivered by the step.
LEMMA RowCounts ==
  ASSUME IInv, FinitelyPlaced, CountedSold,
         totalSold' = totalSold,
         NEW p \in Handlers, NEW o \in OrderIds, NEW new, NEW r,
         order' = [order EXCEPT ![o] = new], req' = [req EXCEPT ![p] = r],
         r.phase # "setStatus",
         new.status = "DELIVERED" => order[o].status = "DELIVERED",
         o \in Placed => new.items = order[o].items
  PROVE  CountedSold'
  <1>0. TypeOK /\ order \in [OrderIds -> Order] /\ req \in [Handlers -> Request]
    BY DEF IInv, Typing, TypeOK
  <1>1. /\ order'[o] = new /\ \A i \in OrderIds : i # o => order'[i] = order[i]
        /\ req'[p] = r /\ \A q \in Handlers : q # p => req'[q] = req[q]
    BY <1>0
  <1>2. \A q \in Requests, i \in OrderIds : WritesUncounted(q, i)' => WritesUncounted(q, i)
    BY <1>1 DEF WritesUncounted, In, Handlers
  <1>3. Counted' \subseteq Counted
    BY <1>1, <1>2, CountedStutters
  <1>4. \A i \in Placed : order'[i].items = order[i].items
    BY <1>1 DEF Placed
  <1> QED
    BY <1>0, <1>3, <1>4, NothingCounted

\* A handler that only moves on, but not to write a status.
LEMMA LocalCounts ==
  ASSUME IInv, FinitelyPlaced, CountedSold,
         totalSold' = totalSold, order' = order,
         NEW p \in Handlers, NEW r, req' = [req EXCEPT ![p] = r],
         \/ r.phase # "setStatus"
         \/ r.status = "DELIVERED" /\ ~r.wasDelivered => order[r.order].status = "DELIVERED"
  PROVE  CountedSold'
  <1>0. TypeOK /\ req \in [Handlers -> Request]
    BY DEF IInv, Typing, TypeOK
  <1>1. req'[p] = r /\ \A q \in Handlers : q # p => req'[q] = req[q]
    BY <1>0
  <1>2. \A q \in Requests, i \in OrderIds :
            WritesUncounted(q, i)' => WritesUncounted(q, i) \/ order[i].status = "DELIVERED"
    BY <1>1 DEF WritesUncounted, In, Handlers
  <1>3. Counted' \subseteq Counted
    BY <1>2, CountedStutters
  <1> QED
    BY <1>0, <1>3, NothingCounted

\* Writing DELIVERED counts the order's units unless they were counted before.
LEMMA StatusCounts ==
  ASSUME IInv, FinitelyPlaced, CountedSold, NEW p \in Requests, WriteOrderStatus(p)
  PROVE  CountedSold'
  <1>0. /\ TypeOK /\ order \in [OrderIds -> Order] /\ req \in [Handlers -> Request]
        /\ p \in Handlers
    BY DEF IInv, Typing, TypeOK, Handlers
  <1>1. PICK o \in Placed : o = req[p].order
    BY <1>0 DEF WriteOrderStatus, In, IInv, Typing, LocalsOK, HandlersOK, WorkPhases, Placed
  <1> DEFINE new == [order[o] EXCEPT !.status = req[p].status]
  <1>2. o \in OrderIds
    BY DEF Placed
  <1>3. /\ order' = [order EXCEPT ![o] = new] /\ req' = [req EXCEPT ![p] = Idle]
        /\ req[p].phase = "setStatus"
        /\ totalSold' = [v \in Variants |-> totalSold[v] + SoldBy(p)[v]]
    BY <1>1 DEF WriteOrderStatus, In
  <1>4. new.items = order[o].items /\ new.status = req[p].status /\ Idle.phase = "idle"
    BY <1>0, <1>2, IdleTyped DEF Order
  <1> HIDE DEF new
  <1>5. /\ order'[o] = new /\ \A i \in OrderIds : i # o => order'[i] = order[i]
        /\ req'[p] = Idle /\ \A q \in Handlers : q # p => req'[q] = req[q]
    BY <1>0, <1>2, <1>3
  <1>6. \A q \in Requests, i \in OrderIds : WritesUncounted(q, i)' => WritesUncounted(q, i)
    BY <1>4, <1>5 DEF WritesUncounted, In, Handlers
  <1>7. \A i \in Placed : order'[i].items = order[i].items
    BY <1>4, <1>5 DEF Placed
  <1>8. CASE req[p].wasDelivered
    <2>1. Counted' \subseteq Counted \cup {o}
      BY <1>5, <1>6 DEF Counted
    <2>2. totalSold' = [v \in Variants |-> totalSold[v] + order[o].items[v]]
      BY <1>1, <1>3, <1>8 DEF SoldBy
    <2> QED
      BY <1>0, <1>7, <2>1, <2>2, DeliveryCounted
  <1>9. CASE ~req[p].wasDelivered
    <2>1. order'[o].status = "DELIVERED" => WritesUncounted(p, o)
      BY <1>1, <1>3, <1>4, <1>5, <1>9 DEF WritesUncounted, In
    <2>2. Counted' \subseteq Counted
      BY <1>2, <1>5, <1>6, <2>1 DEF Counted
    <2>3. totalSold' = totalSold
      <3>1. \A v \in Variants : totalSold[v] + SoldBy(p)[v] = totalSold[v]
        BY <1>0, <1>9 DEF SoldBy, NoItems, TypeOK
      <3> QED
        BY <1>0, <1>3, <3>1 DEF TypeOK
    <2> QED
      BY <1>0, <1>7, <2>2, <2>3, NothingCounted
  <1> QED
    BY <1>8, <1>9

LEMMA CountedNext == IInv /\ IInv' /\ FinitelyPlaced /\ CountedSold /\ [Next]_vars => CountedSold'
  <1> SUFFICES ASSUME IInv, IInv', FinitelyPlaced, CountedSold, [Next]_vars PROVE CountedSold'
    OBVIOUS
  <1>0. TypeOK /\ order \in [OrderIds -> Order] /\ req \in [Handlers -> Request]
    BY DEF IInv, Typing, TypeOK
  <1>1. ASSUME order' = order, req' = req, totalSold' = totalSold PROVE CountedSold'
    <2>1. Counted' \subseteq Counted
      BY <1>1 DEF Counted, WritesUncounted, In
    <2> QED
      BY <1>0, <1>1, <2>1, NothingCounted
  <1>2. ASSUME NEW u \in Users, NEW v \in Variants, NEW q \in Quantities, AddItem(u, v, q)
        PROVE  CountedSold'
    BY <1>1, <1>2 DEF AddItem
  <1>3. ASSUME NEW o \in OrderIds, CustomerPays(o) PROVE CountedSold'
    BY <1>1, <1>3 DEF CustomerPays
  <1>4. ASSUME NEW p \in Handlers, NEW o \in OrderIds, StartCancellation(p, o)
        PROVE  CountedSold'
    <2> DEFINE r == [Idle EXCEPT !.phase = "cancelling", !.order = o, !.paidAt = order[o].paidAt]
    <2>1. /\ r.phase = "cancelling" /\ totalSold' = totalSold /\ order' = order
          /\ req' = [req EXCEPT ![p] = r]
      BY <1>4 DEF StartCancellation, Idle
    <2> HIDE DEF r
    <2> QED
      BY <2>1, LocalCounts
  <1>5. ASSUME NEW o \in OrderIds, ExpireStaleOrder(o) PROVE CountedSold'
    BY <1>4, <1>5 DEF ExpireStaleOrder, Handlers
  <1>6. ASSUME NEW p \in Handlers, req' = [req EXCEPT ![p] = Idle],
               totalSold' = totalSold, order' = order
        PROVE  CountedSold'
    BY <1>6, IdleTyped, LocalCounts
  <1>7. ASSUME NEW p \in Requests, Handle(p) PROVE CountedSold'
    <2>0. p \in Handlers
      BY DEF Handlers
    <2>a. req[p].phase \in WorkPhases =>
              req[p].order \in OrderIds /\ order[req[p].order] \in Order
      BY <1>0, <2>0 DEF IInv, Typing, LocalsOK
    <2>1. ASSUME NEW u \in Users, NEW method \in PaymentMethods, CreateOrder(p, u, method)
          PROVE  CountedSold'
      <3> DEFINE r == [Idle EXCEPT !.phase = "pricing", !.user = u,
                                   !.items = cart[u], !.method = method]
      <3>1. /\ r.phase = "pricing" /\ totalSold' = totalSold /\ order' = order
            /\ req' = [req EXCEPT ![p] = r]
        BY <2>1 DEF CreateOrder, Idle
      <3> HIDE DEF r
      <3> QED
        BY <2>0, <3>1, LocalCounts
    <2>2. ASSUME NEW total \in Totals, PriceOrder(p, total) PROVE CountedSold'
      <3> DEFINE r == [req[p] EXCEPT !.phase = "placing", !.total = total,
                           !.walletPortion = WalletPortion(req[p].method,
                                                           wallet[req[p].user], total)]
      <3>1. /\ r.phase = "placing" /\ totalSold' = totalSold /\ order' = order
            /\ req' = [req EXCEPT ![p] = r]
        BY <1>0, <2>0, <2>2 DEF PriceOrder, Request
      <3> HIDE DEF r
      <3> QED
        BY <2>0, <3>1, LocalCounts
    <2>3. ASSUME NEW o \in OrderIds, PlaceOrder(p, o) PROVE CountedSold'
      <3> DEFINE new == NewOrder(req[p])
                 r == [Idle EXCEPT !.phase = "recompute", !.order = o]
      <3>1. /\ r.phase = "recompute" /\ totalSold' = totalSold
            /\ req' = [req EXCEPT ![p] = r] /\ order' = [order EXCEPT ![o] = new]
            /\ o \notin Placed
        BY <2>3 DEF PlaceOrder, Idle, NextId, Placed
      <3>2. new.status # "DELIVERED"
        BY DEF NewOrder, NoOrder
      <3> HIDE DEF r, new
      <3> QED
        BY <2>0, <3>1, <3>2, RowCounts
    <2>4. ASSUME NEW o \in OrderIds, InitiateOrderPayment(p, o) \/ VerifyOrderPayment(p, o)
          PROVE  CountedSold'
      <3>1. PICK r : r.phase # "setStatus" /\ req' = [req EXCEPT ![p] = r]
        BY <2>4 DEF InitiateOrderPayment, VerifyOrderPayment, Idle
      <3>2. totalSold' = totalSold /\ order' = order
        BY <2>4 DEF InitiateOrderPayment, VerifyOrderPayment
      <3> QED
        BY <2>0, <3>1, <3>2, LocalCounts
    <2>5. ASSUME NEW new, order' = [order EXCEPT ![req[p].order] = new],
                 req[p].phase \in WorkPhases, totalSold' = totalSold,
                 NEW r, req' = [req EXCEPT ![p] = r], r.phase # "setStatus",
                 new.status = "DELIVERED" => order[req[p].order].status = "DELIVERED",
                 new.items = order[req[p].order].items
          PROVE  CountedSold'
      BY <2>0, <2>5, <2>a, RowCounts
    <2>6. CASE InitiateAnswer(p)
      <3> DEFINE new == [order[req[p].order] EXCEPT !.refId = "session"]
      <3>1. /\ req[p].phase \in WorkPhases /\ totalSold' = totalSold
            /\ order' = [order EXCEPT ![req[p].order] = new]
            /\ req' = [req EXCEPT ![p] = Idle]
        BY <2>6 DEF InitiateAnswer, In, WorkPhases
      <3>2. /\ new.status = order[req[p].order].status
            /\ new.items = order[req[p].order].items
        BY <2>a, <3>1 DEF Order
      <3> HIDE DEF new
      <3> QED
        BY <2>5, <3>1, <3>2, IdleTyped
    <2>7. CASE ClaimPayment(p)
      <3>1. CASE order' = order
        <4>1. totalSold' = totalSold /\ (req' = [req EXCEPT ![p] = Idle] \/
                                         req' = [req EXCEPT ![p].phase = "verifying"])
          BY <2>7 DEF ClaimPayment
        <4> DEFINE r == [req[p] EXCEPT !.phase = "verifying"]
        <4>2. r.phase = "verifying"
          BY <1>0, <2>0 DEF Request
        <4>3. req' = [req EXCEPT ![p] = Idle] \/ req' = [req EXCEPT ![p] = r]
          BY <4>1
        <4> HIDE DEF r
        <4> QED
          BY <1>6, <2>0, <3>1, <4>1, <4>2, <4>3, LocalCounts
      <3>2. CASE order' # order
        <4> DEFINE new == [order[req[p].order] EXCEPT !.payment = "FAILED"]
                   r == [req[p] EXCEPT !.phase = "verifying"]
        <4>1. /\ req[p].phase \in WorkPhases /\ totalSold' = totalSold
              /\ order' = [order EXCEPT ![req[p].order] = new]
              /\ req' = [req EXCEPT ![p] = r]
          BY <2>7, <3>2 DEF ClaimPayment, In, WorkPhases
        <4>2. /\ new.status = order[req[p].order].status
              /\ new.items = order[req[p].order].items
          BY <2>a, <4>1 DEF Order
        <4>3. r.phase = "verifying"
          BY <1>0, <2>0 DEF Request
        <4> HIDE DEF new, r
        <4> QED
          BY <2>5, <4>1, <4>2, <4>3
      <3> QED
        BY <3>1, <3>2
    <2>8. CASE GatewayAnswer(p)
      <3> DEFINE r == [req[p] EXCEPT !.phase = "confirmed"]
      <3>1. r.phase = "confirmed"
        BY <1>0, <2>0 DEF Request
      <3>2. /\ totalSold' = totalSold /\ order' = order
            /\ req' = [req EXCEPT ![p] = Idle] \/ req' = [req EXCEPT ![p] = r]
        BY <2>8 DEF GatewayAnswer
      <3> HIDE DEF r
      <3> QED
        BY <1>6, <2>0, <3>1, <3>2, LocalCounts
    <2>9. CASE VerifyCommit(p)
      <3> DEFINE new == [order[req[p].order] EXCEPT !.payment = "SUCCESS", !.refId = "receipt",
                                                    !.status = "PROCESSING", !.paidAt = TRUE]
      <3>1. /\ req[p].phase \in WorkPhases /\ totalSold' = totalSold
            /\ order' = [order EXCEPT ![req[p].order] = new]
            /\ req' = [req EXCEPT ![p] = Idle]
        BY <2>9 DEF VerifyCommit, In, WorkPhases
      <3>2. new.status = "PROCESSING" /\ new.items = order[req[p].order].items
        BY <2>a, <3>1 DEF Order
      <3> HIDE DEF new
      <3> QED
        BY <2>5, <3>1, <3>2, IdleTyped
    <2>10. ASSUME NEW o \in OrderIds, CancelOrder(p, o) PROVE CountedSold'
      BY <1>4, <2>0, <2>10 DEF CancelOrder
    <2>11. ASSUME NEW o \in OrderIds, NEW status \in AdminStatuses,
                  UpdateOrderStatusAdmin(p, o, status)
           PROVE  CountedSold'
      <3> DEFINE r == [Idle EXCEPT !.phase = "setStatus", !.order = o, !.status = status,
                                   !.wasDelivered = WasDelivered(o, status)]
      <3>1. /\ totalSold' = totalSold /\ order' = order
            /\ req' = [req EXCEPT ![p] = r]
        BY <2>11 DEF UpdateOrderStatusAdmin
      <3>2. r.order = o /\ r.status = status /\ r.wasDelivered = WasDelivered(o, status)
        BY DEF Idle
      <3> HIDE DEF r
      <3>3. r.status = "DELIVERED" /\ ~r.wasDelivered => order[r.order].status = "DELIVERED"
        BY <3>2 DEF WasDelivered
      <3> QED
        BY <2>0, <3>1, <3>3, LocalCounts
    <2>12. CASE WriteOrderStatus(p)
      BY <2>12, StatusCounts
    <2> QED
      BY <1>7, <2>1, <2>2, <2>3, <2>4, <2>6, <2>7, <2>8, <2>9, <2>10, <2>11, <2>12 DEF Handle
  <1>8. ASSUME NEW p \in Handlers, Step(p) PROVE CountedSold'
    <2>1. CASE RecomputeRead(p)
      <3> DEFINE r == [req[p] EXCEPT !.phase = "writeAggregates",
                                     !.inStock = StockedProducts \cap Affected(req[p].order)]
      <3>1. /\ r.phase = "writeAggregates" /\ totalSold' = totalSold /\ order' = order
            /\ req' = [req EXCEPT ![p] = r]
        BY <1>0, <2>1 DEF RecomputeRead, Request
      <3> HIDE DEF r
      <3> QED
        BY <3>1, LocalCounts
    <2>2. CASE PerformCancellation(p)
      <3>1. PICK o \in OrderIds : o = req[p].order
        BY <2>2 DEF PerformCancellation, In, IInv, Typing, LocalsOK, WorkPhases
      <3> DEFINE new == CancelledOrder(o, req[p].paidAt)
                 r == [Idle EXCEPT !.phase = "recompute", !.order = o]
      <3>2. /\ totalSold' = totalSold /\ order' = [order EXCEPT ![o] = new]
            /\ req' = [req EXCEPT ![p] = r] /\ r.phase = "recompute"
        BY <2>2, <3>1 DEF PerformCancellation, Idle
      <3>3. new.status = "CANCELLED" /\ new.items = order[o].items
        BY <1>0 DEF CancelledOrder, Order
      <3> HIDE DEF new, r
      <3> QED
        BY <3>2, <3>3, RowCounts
    <2>3. CASE RecomputeWrite(p) \/ CancellationConflict(p) \/ Fail(p)
      BY <1>6, <2>3 DEF RecomputeWrite, CancellationConflict, Fail
    <2> QED
      BY <1>8, <2>1, <2>2, <2>3 DEF Step
  <1>9. CASE UNCHANGED vars
    BY <1>1, <1>9 DEF vars
  <1> QED
    BY <1>2, <1>3, <1>5, <1>7, <1>8, <1>9 DEF Next
-------------------------------------------------------------------------------
LEMMA TotalsNext == IInv /\ IInv' /\ TotalsInv /\ [Next]_vars => TotalsInv'
  <1> SUFFICES ASSUME IInv, IInv', TotalsInv, [Next]_vars PROVE TotalsInv'
    OBVIOUS
  <1>1. TypeOK /\ TypeOK' /\ FinitelyPlaced /\ StockConserved /\ CountedSold
    BY DEF IInv, Typing, TotalsInv
  <1>2. FinitelyPlaced'
    BY <1>1, PlacedGrows
  <1>3. StockConserved'
    BY <1>1, ReservationNext, ReservationConserves
  <1>4. CountedSold'
    BY <1>1, CountedNext
  <1> QED
    BY <1>2, <1>3, <1>4 DEF TotalsInv

LEMMA TotalsInvariance == Spec => [](IInv /\ TotalsInv)
  <1>1. IInv /\ TotalsInv /\ [Next]_vars => (IInv /\ TotalsInv)'
    BY IInvNext, TotalsNext
  <1>2. Init => IInv /\ TotalsInv
    BY IInvInit, TotalsInit
  <1> QED
    BY <1>1, <1>2, PTL DEF Spec

\* No unit is lost and none is given back twice: the shelf and the orders not
\* cancelled hold together what the shop started with (createOrder,
\* performCancellation).
THEOREM NoUnitIsLost == Spec => []StockConserved
  <1>1. TotalsInv => StockConserved
    BY DEF TotalsInv
  <1> QED
    BY <1>1, TotalsInvariance, PTL

\* Every delivered order is in totalSold, however many admins write statuses
\* from stale rows (updateOrderStatusAdmin).
THEOREM DeliveriesAreCounted == Spec => []SoldCoversDelivered
  <1>1. ASSUME IInv, TotalsInv PROVE SoldCoversDelivered
    <2> DEFINE D == {o \in OrderIds : order[o].status = "DELIVERED"}
    <2>1. D \subseteq Counted /\ Counted \subseteq OrderIds /\ IsFiniteSet(Counted)
      BY <1>1, CountedPlaced, FS_Subset DEF Counted, TotalsInv, FinitelyPlaced
    <2>2. IsFiniteSet(D) /\ D \subseteq OrderIds
      BY <2>1, FS_Subset
    <2>3. TypeOK
      BY <1>1 DEF IInv, Typing
    <2> HIDE DEF D
    <2>4. ASSUME NEW v \in Variants PROVE UnitsIn(D, v) <= totalSold[v]
      <3>1. UnitsIn(D, v) <= UnitsIn(Counted, v)
        BY <2>1, <2>3, UnitsMonotone
      <3>2. UnitsIn(Counted, v) <= totalSold[v]
        BY <1>1 DEF TotalsInv, CountedSold
      <3>3. UnitsIn(D, v) \in Nat /\ UnitsIn(Counted, v) \in Nat /\ totalSold[v] \in Nat
        BY <2>1, <2>2, <2>3, UnitsNat DEF TypeOK
      <3> QED
        BY <3>1, <3>2, <3>3
    <2> QED
      BY <2>4 DEF SoldCoversDelivered, D
  <1> QED
    BY <1>1, TotalsInvariance, PTL
===============================================================================
