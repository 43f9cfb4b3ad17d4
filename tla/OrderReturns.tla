----------------------------- MODULE OrderReturns -----------------------------
(***************************************************************************)
(* Returns of one delivered order: customers ask for them, admins move     *)
(* them to any status, back to an earlier one too, and set the order's own *)
(* status by hand.  Both handlers of returns decide on rows read before    *)
(* their transaction.  (Returns of different orders share nothing.)        *)
(***************************************************************************)
EXTENDS Integers

CONSTANTS
    OrderItems,        \* the items of the order
    WholeOrder,        \* a return without orderItemId
    ReturnIds,         \* 1..n, the OrderReturn rows, handed out in order
    RefundAmounts,     \* what an admin may enter as refundAmount; 0 stands for none
    MaxRedone,         \* bound: how often one return is reopened or written over
    ReturnHandlers,    \* requestReturn calls that can be in flight together
    ReviewHandlers,    \* updateReturnAdmin calls that can be in flight together
    NoReturn

ASSUME ReturnConstantsOK ==
    /\ WholeOrder \notin OrderItems
    /\ ReturnIds \subseteq Nat
    /\ RefundAmounts \subseteq Nat
    /\ MaxRedone \in Nat
    /\ NoReturn \notin ReturnIds

VARIABLES
    orderStatus,       \* Order.status
    ret,               \* the OrderReturn rows
    restocked,         \* how often each item's quantity went back on the shelf, per return
    refunds,           \* the number of REFUND ledger rows of each return ...
    credited,          \* ... and their sum
    asking,            \* requestReturn calls between their read and their transaction
    reviewing,         \* updateReturnAdmin calls, with the rows they read
    reopened,          \* history: how often a received or refunded return was moved back
    crossed,           \* history: how often a review wrote over a status it had not read
    orderMoved         \* history: what last took the order's status out of the returns' hands

effectsVars == <<restocked, refunds, credited, reopened, crossed>>
returnsVars == <<orderStatus, orderMoved, ret, effectsVars, asking, reviewing>>
-------------------------------------------------------------------------------
ReturnStatus == {"PENDING", "APPROVED", "REJECTED", "RECEIVED", "REFUNDED"}

\* "other" is any of the six statuses that no handler of returns asks about.
ReturnOrderStatus == {"DELIVERED", "RETURN_REQUESTED", "RETURNED", "other"}

ReturnRow == [status : ReturnStatus \cup {"none"}, item : OrderItems \cup {WholeOrder},
              refundAmount : Nat]

Review == [id : ReturnIds \cup {NoReturn}, status : ReturnStatus,
           refundAmount : Nat, seen : ReturnStatus, redelivers : BOOLEAN]

NoReview == [id |-> NoReturn, status |-> "PENDING", refundAmount |-> 0, seen |-> "PENDING",
             redelivers |-> FALSE]

ReturnsInit ==
    /\ orderStatus = "DELIVERED" /\ orderMoved = "no"
    /\ ret = [r \in ReturnIds |-> [status |-> "none", item |-> WholeOrder, refundAmount |-> 0]]
    /\ restocked = [r \in ReturnIds |-> [i \in OrderItems |-> 0]]
    /\ refunds = [r \in ReturnIds |-> 0] /\ credited = [r \in ReturnIds |-> 0]
    /\ reopened = [r \in ReturnIds |-> 0] /\ crossed = [r \in ReturnIds |-> 0]
    /\ asking = [h \in ReturnHandlers |-> FALSE]
    /\ reviewing = [h \in ReviewHandlers |-> NoReview]
-------------------------------------------------------------------------------
\* Only a delivered order may be returned.
RequestReturn(h) ==
    /\ ~asking[h]
    /\ orderStatus = "DELIVERED"
    /\ asking' = [asking EXCEPT ![h] = TRUE]
    /\ UNCHANGED <<orderStatus, orderMoved, ret, effectsVars, reviewing>>

\* The transaction does not look at the order's status again.
CreateReturn(h, r, item) ==
    /\ asking[h]
    /\ ret[r].status = "none"
    /\ \A q \in ReturnIds : q < r => ret[q].status # "none"
    /\ ret' = [ret EXCEPT ![r] = [status |-> "PENDING", item |-> item, refundAmount |-> 0]]
    /\ orderStatus' = "RETURN_REQUESTED"
    /\ orderMoved' = IF orderStatus = "RETURNED" THEN "stale" ELSE orderMoved
    /\ asking' = [asking EXCEPT ![h] = FALSE]
    /\ UNCHANGED <<effectsVars, reviewing>>

\* Faulty: the guards compare with the asked status only, so RECEIVED passes after REFUNDED.
AllowedBySameStatus(shown, status) == status \in {"RECEIVED", "REFUNDED"} => shown # status

\* The guards against a repeated RECEIVED or REFUNDED.
NotRepeated(shown, status) ==
    /\ status = "RECEIVED" => shown \notin {"RECEIVED", "REFUNDED"}
    /\ status = "REFUNDED" => shown # "REFUNDED"

\* Any status may be asked for, whatever the row shows.
UpdateReturnAdmin(h, r, status, amount) ==
    /\ reviewing[h].id = NoReturn
    /\ ret[r].status # "none"
    /\ NotRepeated(ret[r].status, status)
    /\ reopened[r] + crossed[r] < MaxRedone                               \* bound
    /\ reviewing' = [reviewing EXCEPT ![h] =
                       [id |-> r, status |-> status, refundAmount |-> amount,
                        seen |-> ret[r].status,
                        redelivers |-> (status = "REJECTED" /\ orderStatus = "RETURN_REQUESTED")]]
    /\ UNCHANGED <<orderStatus, orderMoved, ret, effectsVars, asking>>

\* Faulty: the refund of one item closes the order.
ClosesAnyOrder(item) == TRUE

ClosesOrder(item) == item = WholeOrder

ItemsToRestock(item) == IF item = WholeOrder THEN OrderItems ELSE {item}

\* The goods are back, or the money is.
Settled == {"RECEIVED", "REFUNDED"}

\* The transaction writes the status whatever the row has become; it fails if a
\* refund names no amount.
WriteReturn(h) ==
    LET v == reviewing[h]
        r == v.id
        closes == v.status = "REFUNDED" /\ ClosesOrder(ret[r].item)
        redelivers == v.status = "REJECTED" /\ v.redelivers
    IN  /\ r # NoReturn
        /\ v.status = "REFUNDED" => v.refundAmount > 0
        /\ restocked' = IF v.status # "RECEIVED" THEN restocked
                        ELSE [restocked EXCEPT ![r] =
                                [i \in OrderItems |-> IF i \in ItemsToRestock(ret[r].item) THEN @[i] + 1 ELSE @[i]]]
        /\ refunds' = IF v.status # "REFUNDED" THEN refunds ELSE [refunds EXCEPT ![r] = @ + 1]
        /\ credited' = IF v.status # "REFUNDED" THEN credited
                       ELSE [credited EXCEPT ![r] = @ + v.refundAmount]
        /\ orderStatus' = CASE closes -> "RETURNED" [] redelivers -> "DELIVERED" [] OTHER -> orderStatus
        /\ orderMoved' = CASE closes -> "no"
                           [] redelivers /\ orderStatus = "RETURNED" -> "stale"
                           [] OTHER -> orderMoved
        /\ ret' = [ret EXCEPT ![r].status = v.status,
                              ![r].refundAmount = IF v.refundAmount > 0 THEN v.refundAmount ELSE @]
        /\ reopened' = IF ret[r].status \in Settled /\ v.status \notin Settled
                       THEN [reopened EXCEPT ![r] = @ + 1] ELSE reopened
        /\ crossed' = IF ret[r].status # v.seen THEN [crossed EXCEPT ![r] = @ + 1] ELSE crossed
        /\ reviewing' = [reviewing EXCEPT ![h] = NoReview]
        /\ UNCHANGED asking

\* The order's own status, set by hand to whatever the administrator chooses; nothing
\* compares it with the returns.  (CANCELLED goes through cancelOrderAdmin, which leaves
\* no "other" status for one of the three.)
UpdateOrderStatusAdmin(status) ==
    /\ orderStatus' = status
    /\ orderMoved' = "hand"
    /\ UNCHANGED <<ret, effectsVars, asking, reviewing>>

\* A refusal, an exception or a crash before the transaction commits.
AskingFails(h) ==
    /\ asking[h]
    /\ asking' = [asking EXCEPT ![h] = FALSE]
    /\ UNCHANGED <<orderStatus, orderMoved, ret, effectsVars, reviewing>>

ReviewFails(h) ==
    /\ reviewing[h].id # NoReturn
    /\ reviewing' = [reviewing EXCEPT ![h] = NoReview]
    /\ UNCHANGED <<orderStatus, orderMoved, ret, effectsVars, asking>>

ReturnsNext ==
    \/ \E h \in ReturnHandlers : RequestReturn(h) \/ AskingFails(h)
    \/ \E h \in ReturnHandlers, r \in ReturnIds, item \in OrderItems \cup {WholeOrder} :
            CreateReturn(h, r, item)
    \/ \E h \in ReviewHandlers, r \in ReturnIds, status \in ReturnStatus, amount \in RefundAmounts :
            UpdateReturnAdmin(h, r, status, amount)
    \/ \E h \in ReviewHandlers : WriteReturn(h) \/ ReviewFails(h)
    \/ \E status \in ReturnOrderStatus : UpdateOrderStatusAdmin(status)

ReturnsSpec == ReturnsInit /\ [][ReturnsNext]_returnsVars
-------------------------------------------------------------------------------
\* Every row and every handler in flight has its shape.
ReturnsTypeOK ==
    /\ orderStatus \in ReturnOrderStatus
    /\ orderMoved \in {"no", "hand", "stale"}
    /\ ret \in [ReturnIds -> ReturnRow]
    /\ restocked \in [ReturnIds -> [OrderItems -> Nat]]
    /\ refunds \in [ReturnIds -> Nat] /\ credited \in [ReturnIds -> Nat]
    /\ reopened \in [ReturnIds -> Nat] /\ crossed \in [ReturnIds -> Nat]
    /\ asking \in [ReturnHandlers -> BOOLEAN]
    /\ reviewing \in [ReviewHandlers -> Review]

\* At most one refund, and one restocking of each item of the return, for each time the
\* return was settled: every further one follows a reopening, or a review that wrote over
\* a status it had not read.
EffectsFollowStatus(r) ==
    LET again == reopened[r] + crossed[r]
    IN  /\ refunds[r] <= again + (IF ret[r].status = "REFUNDED" THEN 1 ELSE 0)
        /\ \A i \in OrderItems :
              restocked[r][i] <= IF i \in ItemsToRestock(ret[r].item)
                                 THEN again + (IF ret[r].status \in Settled THEN 1 ELSE 0) ELSE 0

\* Without either, the money and the goods are where the status says they are.
EffectsMatchStatus(r) ==
    reopened[r] = 0 /\ crossed[r] = 0 =>
        /\ credited[r] = IF ret[r].status = "REFUNDED" THEN ret[r].refundAmount ELSE 0
        /\ ret[r].status = "RECEIVED" =>
              \A i \in ItemsToRestock(ret[r].item) : restocked[r][i] = 1

\* The comment at order-return.service.ts 127-132, for admins who send what they like,
\* twice, at the same time and back to an earlier status: the stock and the money of a
\* return come back as often as its status says, and a refunded return has been paid.
\* What a reopening and two crossing reviews can add is counted.
ReturnEffectsAreCounted ==
    \A r \in ReturnIds :
        /\ EffectsFollowStatus(r)
        /\ EffectsMatchStatus(r)
        /\ ret[r].status = "REFUNDED" => 0 < ret[r].refundAmount /\ ret[r].refundAmount <= credited[r]

WholeOrderRefunded == \E r \in ReturnIds : ret[r].item = WholeOrder /\ refunds[r] > 0

\* Unless an administrator set the order's status by hand, an order is RETURNED only if a
\* return of the whole order was refunded (updateReturnAdmin writes both together), and it
\* stays RETURNED unless a request or a rejection wrote what it had decided on an older
\* reading of the order (requestReturn, updateReturnAdmin).
ReturnedMatchesRefund ==
    /\ orderStatus = "RETURNED" /\ orderMoved # "hand" => WholeOrderRefunded
    /\ WholeOrderRefunded /\ orderMoved = "no" => orderStatus = "RETURNED"

\* "crediting the customer's wallet a second time" is what the guard is for
\* (order-return.service.ts 127-132): a return is refunded once, and once more only
\* after an administrator has moved it back.
ReturnRefundedOnce ==
    \A r \in ReturnIds : refunds[r] <= 1 + reopened[r]
===============================================================================
