----------------------------- MODULE Sales_proofs ------------------------------
(***************************************************************************)
(* What is proved of carts, returns, checkouts and prices.                 *)
(***************************************************************************)
EXTENDS Sales, Sums_proofs

-------------------------------------------------------------------------------
(***************************************************************************)
(* Carts: a handler that is about to write knows a variant and how much of *)
(* it there was.                                                           *)
(***************************************************************************)
KnowsShelf ==
    \A h \in CartHandlers : cartReq[h].phase \in {"adding", "updating", "mergingLine"} =>
        cartReq[h].variant \in Variants /\ cartReq[h].stock <= MaxShelf

CartsInv == CartsTypeOK /\ KnowsShelf /\ LinesWithinShelf

LEMMA NoCartRequestTyped == NoCartRequest \in CartRequest
  BY DEF NoCartRequest, CartRequest, Owners, NoLine

LEMMA CartsInitInv == CartsInit => CartsInv
  <1> SUFFICES ASSUME CartsInit PROVE CartsInv
    OBVIOUS
  <1>1. CartsTypeOK
    BY NoCartRequestTyped DEF CartsInit, CartsTypeOK, NoLine
  <1>2. KnowsShelf
    BY DEF CartsInit, KnowsShelf, NoCartRequest
  <1>3. LinesWithinShelf
    BY CartConstantsOK DEF CartsInit, LinesWithinShelf, NoLine, NoRow, Owners
  <1> QED
    BY <1>1, <1>2, <1>3 DEF CartsInv

\* Where handlers go, one of them at a time, as far as the invariant sees it.
LEMMA HandlerMoves ==
  ASSUME CartsTypeOK, KnowsShelf, NEW h \in CartHandlers, NEW r \in CartRequest,
         r.phase \in {"adding", "updating", "mergingLine"} =>
            r.variant \in Variants /\ r.stock <= MaxShelf,
         cartReq' = [cartReq EXCEPT ![h] = r]
  PROVE  cartReq' \in [CartHandlers -> CartRequest] /\ KnowsShelf'
  BY DEF CartsTypeOK, KnowsShelf

LEMMA QuantityTyped ==
  ASSUME CartsTypeOK, NEW o \in Owners, NEW v \in Variants
  PROVE  /\ QuantityIn(o, v) \in Nat /\ shelf[v] \in Nat /\ shelf[v] <= MaxShelf
         /\ line[o][v] \in Nat \cup {NoRow}
  BY CartConstantsOK DEF CartsTypeOK, QuantityIn, NoRow

\* The cap of every write.
LEMMA Capped ==
  ASSUME CartsInv, NEW h \in CartHandlers,
         cartReq[h].phase \in {"adding", "updating", "mergingLine"}
  PROVE  /\ NewQuantity(cartReq[h]) \in Nat \cup {NoRow}
         /\ NewQuantity(cartReq[h]) <= MaxShelf
  <1>1. /\ cartReq[h].wanted \in Nat /\ cartReq[h].stock \in Nat
        /\ cartReq[h].stock <= MaxShelf /\ MaxShelf \in Nat
    BY CartConstantsOK DEF CartsInv, CartsTypeOK, KnowsShelf, CartRequest
  <1> QED
    BY <1>1 DEF NewQuantity, AtMostStock, NoRow

\* A write keeps the lines within the shelf.
LEMMA WritesWithinShelf ==
  ASSUME CartsInv, NEW o \in Owners, NEW v \in Variants, NEW q \in Nat \cup {NoRow}, q <= MaxShelf,
         NEW existed, o = "guest" => guestCart, guestCart' = guestCart,
         line' = LineWritten(o, v, q, existed)
  PROVE  line' \in [Owners -> [Variants -> Nat \cup {NoRow}]] /\ LinesWithinShelf'
  <1>1. line \in [Owners -> [Variants -> Nat \cup {NoRow}]]
    BY DEF CartsInv, CartsTypeOK
  <1>2. CASE line' = line
    BY <1>1, <1>2 DEF CartsInv, LinesWithinShelf
  <1>3. CASE line' = [line EXCEPT ![o][v] = q]
    <2>1. line' \in [Owners -> [Variants -> Nat \cup {NoRow}]]
      BY <1>1, <1>3
    <2>2. \A p \in Owners, w \in Variants : line'[p][w] <= MaxShelf
      BY <1>1, <1>3 DEF CartsInv, LinesWithinShelf
    <2>3. ~guestCart' => line'["guest"] = NoLine
      BY <1>1, <1>3 DEF CartsInv, LinesWithinShelf, Owners
    <2> QED
      BY <2>1, <2>2, <2>3 DEF LinesWithinShelf
  <1> QED
    BY <1>2, <1>3 DEF LineWritten

LEMMA CartsNextInv == CartsInv /\ [CartsNext]_cartsVars => CartsInv'
  <1> SUFFICES ASSUME CartsInv, [CartsNext]_cartsVars PROVE CartsInv'
    OBVIOUS
  <1> USE CartConstantsOK
  <1>0. /\ CartsTypeOK /\ KnowsShelf /\ LinesWithinShelf
        /\ shelf \in [Variants -> 0 .. MaxShelf] /\ guestCart \in BOOLEAN
        /\ line \in [Owners -> [Variants -> Nat \cup {NoRow}]]
        /\ cartReq \in [CartHandlers -> CartRequest]
    BY DEF CartsInv, CartsTypeOK
  <1>1. ASSUME NEW h \in CartHandlers, NEW o \in Owners, NEW v \in Variants,
               NEW quantity \in Quantities, ReadForAdd(h, o, v, quantity)
        PROVE  CartsInv'
    <2> DEFINE r == [NoCartRequest EXCEPT !.phase = "adding", !.owner = o, !.variant = v,
                            !.wanted = QuantityIn(o, v) + quantity, !.stock = shelf[v],
                            !.existed = line[o][v] # NoRow]
    <2>0. QuantityIn(o, v) + quantity \in Nat /\ shelf[v] \in Nat
      BY <1>0, QuantityTyped
    <2>1. r \in CartRequest /\ r.variant = v /\ r.stock = shelf[v]
      BY <2>0, NoCartRequestTyped DEF CartRequest, NoCartRequest
    <2>2. cartReq' = [cartReq EXCEPT ![h] = r]
      BY <1>1 DEF ReadForAdd
    <2> HIDE DEF r
    <2>3. cartReq' \in [CartHandlers -> CartRequest] /\ KnowsShelf'
      BY <1>0, <2>1, <2>2, QuantityTyped, HandlerMoves
    <2> QED
      BY <1>0, <1>1, <2>3 DEF ReadForAdd, CartsInv, CartsTypeOK, LinesWithinShelf
  <1>2. ASSUME NEW h \in CartHandlers, NEW o \in Owners, NEW v \in Variants,
               NEW quantity \in Quantities \cup {0}, ReadForUpdate(h, o, v, quantity)
        PROVE  CartsInv'
    <2> DEFINE r == [NoCartRequest EXCEPT !.phase = "updating", !.owner = o, !.variant = v,
                            !.wanted = quantity, !.stock = shelf[v], !.existed = TRUE]
    <2>1. r \in CartRequest /\ r.variant = v /\ r.stock = shelf[v]
      BY <1>0, QuantityTyped, NoCartRequestTyped DEF CartRequest, NoCartRequest
    <2>2. cartReq' = [cartReq EXCEPT ![h] = r]
      BY <1>2 DEF ReadForUpdate
    <2> HIDE DEF r
    <2>3. cartReq' \in [CartHandlers -> CartRequest] /\ KnowsShelf'
      BY <1>0, <2>1, <2>2, QuantityTyped, HandlerMoves
    <2> QED
      BY <1>0, <1>2, <2>3 DEF ReadForUpdate, CartsInv, CartsTypeOK, LinesWithinShelf
  <1>3. ASSUME NEW h \in CartHandlers, cartReq' = [cartReq EXCEPT ![h] = NoCartRequest]
        PROVE  cartReq' \in [CartHandlers -> CartRequest] /\ KnowsShelf'
    <2>1. NoCartRequest.phase = "idle"
      BY DEF NoCartRequest
    <2> QED
      BY <1>0, <1>3, <2>1, NoCartRequestTyped, HandlerMoves
  <1>4. ASSUME NEW h \in CartHandlers, WriteLine(h) PROVE CartsInv'
    <2> DEFINE r == cartReq[h]
    <2>1. r.phase \in {"adding", "updating"} /\ r \in CartRequest
      BY <1>0, <1>4 DEF WriteLine
    <2>2. r.owner \in Owners /\ r.variant \in Variants
      BY <1>0, <2>1 DEF CartRequest, KnowsShelf
    <2>3. NewQuantity(r) \in Nat \cup {NoRow} /\ NewQuantity(r) <= MaxShelf
      BY <2>1, Capped
    <2>4. CASE r.owner = "guest" /\ ~guestCart
      BY <1>0, <1>3, <1>4, <2>4 DEF WriteLine, CartsInv, CartsTypeOK, LinesWithinShelf
    <2>5. CASE ~(r.owner = "guest" /\ ~guestCart)
      <3>1. line' = LineWritten(r.owner, r.variant, NewQuantity(r), r.existed)
            /\ guestCart' = guestCart /\ (r.owner = "guest" => guestCart)
        BY <1>4, <2>5 DEF WriteLine
      <3> HIDE DEF r
      <3>2. line' \in [Owners -> [Variants -> Nat \cup {NoRow}]] /\ LinesWithinShelf'
        BY <2>2, <2>3, <3>1, WritesWithinShelf
      <3> QED
        BY <1>0, <1>3, <1>4, <3>2 DEF WriteLine, CartsInv, CartsTypeOK
    <2> QED
      BY <2>4, <2>5
  <1>5. ASSUME NEW h \in CartHandlers, MergeGuestCartIntoUser(h) PROVE CartsInv'
    <2> DEFINE r == [NoCartRequest EXCEPT !.phase = "merging", !.todo = line["guest"]]
    <2>1. r \in CartRequest /\ r.phase = "merging"
      BY <1>0, NoCartRequestTyped DEF CartRequest, NoCartRequest, Owners
    <2>2. cartReq' = [cartReq EXCEPT ![h] = r]
      BY <1>5 DEF MergeGuestCartIntoUser
    <2> HIDE DEF r
    <2>3. cartReq' \in [CartHandlers -> CartRequest] /\ KnowsShelf'
      BY <1>0, <2>1, <2>2, HandlerMoves
    <2> QED
      BY <1>0, <1>5, <2>3 DEF MergeGuestCartIntoUser, CartsInv, CartsTypeOK, LinesWithinShelf
  <1>6. ASSUME NEW h \in CartHandlers, NEW v \in Variants, ReadForMerge(h, v) PROVE CartsInv'
    <2> DEFINE r == cartReq[h]
               rest == [r.todo EXCEPT ![v] = NoRow]
               skip == [r EXCEPT !.todo = rest]
               read == [r EXCEPT !.phase = "mergingLine", !.variant = v, !.todo = rest,
                                 !.wanted = QuantityIn("user", v) + r.todo[v],
                                 !.stock = shelf[v], !.existed = line["user"][v] # NoRow]
    <2>1. r \in CartRequest /\ r.phase = "merging" /\ r.todo[v] \in Nat
      BY <1>0, <1>6 DEF ReadForMerge, CartRequest
    <2>2. rest \in [Variants -> Nat \cup {NoRow}]
      BY <2>1 DEF CartRequest
    <2>3. skip \in CartRequest /\ skip.phase = "merging"
      BY <2>1, <2>2 DEF CartRequest
    <2>4. QuantityIn("user", v) + r.todo[v] \in Nat /\ shelf[v] \in Nat /\ shelf[v] <= MaxShelf
      BY <1>0, <2>1, QuantityTyped DEF Owners
    <2>5. read \in CartRequest /\ read.variant = v /\ read.stock = shelf[v]
      BY <2>1, <2>2, <2>4 DEF CartRequest
    <2>6. cartReq' = [cartReq EXCEPT ![h] = skip] \/ cartReq' = [cartReq EXCEPT ![h] = read]
      BY <1>6 DEF ReadForMerge
    <2> HIDE DEF r, rest, skip, read
    <2>7. cartReq' \in [CartHandlers -> CartRequest] /\ KnowsShelf'
      BY <1>0, <2>3, <2>4, <2>5, <2>6, HandlerMoves
    <2> QED
      BY <1>0, <1>6, <2>7 DEF ReadForMerge, CartsInv, CartsTypeOK, LinesWithinShelf
  <1>7. ASSUME NEW h \in CartHandlers, WriteMergedLine(h) PROVE CartsInv'
    <2> DEFINE r == cartReq[h]
               more == [NoCartRequest EXCEPT !.phase = "merging", !.todo = r.todo]
    <2>1. r.phase = "mergingLine" /\ r \in CartRequest /\ r.variant \in Variants
      BY <1>0, <1>7 DEF WriteMergedLine, KnowsShelf
    <2>2. NewQuantity(r) \in Nat \cup {NoRow} /\ NewQuantity(r) <= MaxShelf
      BY <2>1, Capped
    <2>3. more \in CartRequest /\ more.phase = "merging"
      BY <2>1, NoCartRequestTyped DEF CartRequest, NoCartRequest
    <2>4. cartReq' = [cartReq EXCEPT ![h] = more] \/ cartReq' = [cartReq EXCEPT ![h] = NoCartRequest]
      BY <1>7 DEF WriteMergedLine
    <2>5. line' = LineWritten("user", r.variant, NewQuantity(r), r.existed) /\ guestCart' = guestCart
      BY <1>7 DEF WriteMergedLine
    <2> HIDE DEF r, more
    <2>6. cartReq' \in [CartHandlers -> CartRequest] /\ KnowsShelf'
      BY <1>0, <1>3, <2>3, <2>4, HandlerMoves
    <2>7. line' \in [Owners -> [Variants -> Nat \cup {NoRow}]] /\ LinesWithinShelf'
      BY <2>1, <2>2, <2>5, WritesWithinShelf DEF Owners
    <2> QED
      BY <1>0, <1>7, <2>6, <2>7 DEF WriteMergedLine, CartsInv, CartsTypeOK
  <1>8. ASSUME NEW o \in Owners, line' = [line EXCEPT ![o] = NoLine],
               guestCart' = guestCart \/ o = "guest"
        PROVE  line' \in [Owners -> [Variants -> Nat \cup {NoRow}]] /\ LinesWithinShelf'
    <2>1. NoLine \in [Variants -> Nat \cup {NoRow}] /\ \A v \in Variants : NoLine[v] <= MaxShelf
      BY DEF NoLine, NoRow
    <2> QED
      BY <1>0, <1>8, <2>1 DEF LinesWithinShelf, Owners
  <1>9. ASSUME NEW h \in CartHandlers, DropGuestCart(h) PROVE CartsInv'
    <2>1. line' \in [Owners -> [Variants -> Nat \cup {NoRow}]] /\ LinesWithinShelf'
      BY <1>8, <1>9 DEF DropGuestCart, Owners
    <2> QED
      BY <1>0, <1>3, <1>9, <2>1 DEF DropGuestCart, CartsInv, CartsTypeOK
  <1>10. ASSUME NEW h \in CartHandlers, CartFails(h) PROVE CartsInv'
    BY <1>0, <1>3, <1>10 DEF CartFails, CartsInv, CartsTypeOK, LinesWithinShelf
  <1>11. ASSUME NEW o \in Owners, ClearCart(o) PROVE CartsInv'
    BY <1>0, <1>8, <1>11 DEF ClearCart, CartsInv, CartsTypeOK, KnowsShelf
  <1>12. ASSUME NEW v \in Variants, NEW stock \in 0 .. MaxShelf, StockMoves(v, stock) PROVE CartsInv'
    BY <1>0, <1>12 DEF StockMoves, CartsInv, CartsTypeOK, KnowsShelf, LinesWithinShelf
  <1>13. CASE UNCHANGED cartsVars
    BY <1>0, <1>13 DEF cartsVars, CartsInv, CartsTypeOK, KnowsShelf, LinesWithinShelf
  <1> QED
    BY <1>1, <1>2, <1>4, <1>5, <1>6, <1>7, <1>9, <1>10, <1>11, <1>12, <1>13 DEF CartsNext

\* Whatever adds, updates and half-done merges do to each other's lines, no line
\* asks for more units than the variant ever had, and no guest without a cart has
\* lines (addItem, updateItemQuantity, mergeGuestCartIntoUser).
THEOREM CartsAreCapped == CartsSpec => []LinesWithinShelf
  <1>1. CartsInv => LinesWithinShelf
    BY DEF CartsInv
  <1> QED
    BY <1>1, CartsInitInv, CartsNextInv, PTL DEF CartsSpec
-------------------------------------------------------------------------------
(***************************************************************************)
(* Returns.                                                                *)
(***************************************************************************)
\* A review in flight is about a row that exists and was allowed by what it read.
ReviewsAllowed ==
    \A h \in ReviewHandlers : reviewing[h].id # NoReturn =>
        /\ ret[reviewing[h].id].status # "none"
        /\ NotRepeated(reviewing[h].seen, reviewing[h].status)

\* A row that does not exist has no effects.
NoEffectsBefore(r) ==
    ret[r].status = "none" =>
        /\ refunds[r] = 0 /\ credited[r] = 0 /\ reopened[r] = 0 /\ crossed[r] = 0
        /\ \A i \in OrderItems : restocked[r][i] = 0

PaidWhenRefunded(r) ==
    ret[r].status = "REFUNDED" => 0 < ret[r].refundAmount /\ ret[r].refundAmount <= credited[r]

EffectsOf(r) ==
    NoEffectsBefore(r) /\ EffectsFollowStatus(r) /\ EffectsMatchStatus(r) /\ PaidWhenRefunded(r)

ReturnsInv ==
    /\ ReturnsTypeOK /\ ReviewsAllowed /\ ReturnedMatchesRefund
    /\ \A r \in ReturnIds : EffectsOf(r)

LEMMA NoReviewTyped == NoReview \in Review /\ NoReview.id = NoReturn
  BY DEF NoReview, Review, ReturnStatus

LEMMA ReviewShape ==
  ASSUME NEW v \in Review
  PROVE  /\ v.id \in ReturnIds \cup {NoReturn} /\ v.status \in ReturnStatus
         /\ v.seen \in ReturnStatus /\ v.refundAmount \in Nat
  BY DEF Review

LEMMA ReviewWritten ==
  ASSUME ReturnsTypeOK, NEW h \in ReviewHandlers, WriteReturn(h)
  PROVE  reviewing[h] \in Review /\ reviewing[h].id \in ReturnIds
  <1>1. reviewing[h] \in Review
    BY DEF ReturnsTypeOK
  <1>2. reviewing[h].id # NoReturn
    BY DEF WriteReturn
  <1> QED
    BY <1>1, <1>2, ReviewShape

\* What the transaction of a review does to the row it is about.
LEMMA ReturnWritten ==
  ASSUME ReturnsTypeOK, NEW h \in ReviewHandlers, WriteReturn(h),
         NEW v \in Review, v = reviewing[h], NEW r \in ReturnIds, r = v.id
  PROVE  /\ v.status = "REFUNDED" => v.refundAmount > 0
         /\ ret'[r].status = v.status /\ ret'[r].item = ret[r].item
         /\ ret'[r].refundAmount = IF v.refundAmount > 0 THEN v.refundAmount ELSE ret[r].refundAmount
         /\ refunds'[r] = IF v.status = "REFUNDED" THEN refunds[r] + 1 ELSE refunds[r]
         /\ credited'[r] = IF v.status = "REFUNDED" THEN credited[r] + v.refundAmount ELSE credited[r]
         /\ reopened'[r] = IF ret[r].status \in Settled /\ v.status \notin Settled
                           THEN reopened[r] + 1 ELSE reopened[r]
         /\ crossed'[r] = IF ret[r].status # v.seen THEN crossed[r] + 1 ELSE crossed[r]
         /\ \A i \in OrderItems :
               restocked'[r][i] = IF v.status = "RECEIVED" /\ i \in ItemsToRestock(ret[r].item)
                                  THEN restocked[r][i] + 1 ELSE restocked[r][i]
         /\ \A q \in ReturnIds \ {r} :
               /\ ret'[q] = ret[q] /\ refunds'[q] = refunds[q] /\ credited'[q] = credited[q]
               /\ reopened'[q] = reopened[q] /\ crossed'[q] = crossed[q]
               /\ restocked'[q] = restocked[q]
         /\ ReturnsTypeOK'
         /\ reviewing' = [reviewing EXCEPT ![h] = NoReview]
  <1>3. v.status \in ReturnStatus /\ v.refundAmount \in Nat /\ v.seen \in ReturnStatus
    BY ReviewShape
  <1>4. /\ ret \in [ReturnIds -> ReturnRow] /\ ret[r] \in ReturnRow
        /\ restocked \in [ReturnIds -> [OrderItems -> Nat]]
        /\ refunds \in [ReturnIds -> Nat] /\ credited \in [ReturnIds -> Nat]
        /\ reopened \in [ReturnIds -> Nat] /\ crossed \in [ReturnIds -> Nat]
        /\ reviewing \in [ReviewHandlers -> Review]
    BY <1>3 DEF ReturnsTypeOK
  <1>5. /\ v.status = "REFUNDED" => v.refundAmount > 0
        /\ refunds' = IF v.status # "REFUNDED" THEN refunds ELSE [refunds EXCEPT ![r] = @ + 1]
        /\ credited' = IF v.status # "REFUNDED" THEN credited
                       ELSE [credited EXCEPT ![r] = @ + v.refundAmount]
        /\ reviewing' = [reviewing EXCEPT ![h] = NoReview]
    BY DEF WriteReturn
  <1>6. /\ reopened' = IF ret[r].status \in Settled /\ v.status \notin Settled
                       THEN [reopened EXCEPT ![r] = @ + 1] ELSE reopened
        /\ crossed' = IF ret[r].status # v.seen THEN [crossed EXCEPT ![r] = @ + 1] ELSE crossed
    BY DEF WriteReturn
  <1>7. restocked' = IF v.status # "RECEIVED" THEN restocked
                     ELSE [restocked EXCEPT ![r] =
                             [i \in OrderItems |-> IF i \in ItemsToRestock(ret[r].item) THEN @[i] + 1 ELSE @[i]]]
    BY DEF WriteReturn
  <1>8. ret' = [ret EXCEPT ![r].status = v.status,
                           ![r].refundAmount = IF v.refundAmount > 0 THEN v.refundAmount ELSE @]
    BY DEF WriteReturn
  <1>9. /\ refunds'[r] = IF v.status = "REFUNDED" THEN refunds[r] + 1 ELSE refunds[r]
        /\ credited'[r] = IF v.status = "REFUNDED" THEN credited[r] + v.refundAmount ELSE credited[r]
        /\ \A q \in ReturnIds \ {r} : refunds'[q] = refunds[q] /\ credited'[q] = credited[q]
        /\ refunds' \in [ReturnIds -> Nat] /\ credited' \in [ReturnIds -> Nat]
    BY <1>3, <1>4, <1>5
  <1>10. /\ reopened'[r] = IF ret[r].status \in Settled /\ v.status \notin Settled
                           THEN reopened[r] + 1 ELSE reopened[r]
         /\ crossed'[r] = IF ret[r].status # v.seen THEN crossed[r] + 1 ELSE crossed[r]
         /\ \A q \in ReturnIds \ {r} : reopened'[q] = reopened[q] /\ crossed'[q] = crossed[q]
         /\ reopened' \in [ReturnIds -> Nat] /\ crossed' \in [ReturnIds -> Nat]
    BY <1>3, <1>4, <1>6
  <1>11. /\ \A i \in OrderItems :
               restocked'[r][i] = IF v.status = "RECEIVED" /\ i \in ItemsToRestock(ret[r].item)
                                  THEN restocked[r][i] + 1 ELSE restocked[r][i]
         /\ \A q \in ReturnIds \ {r} : restocked'[q] = restocked[q]
         /\ restocked' \in [ReturnIds -> [OrderItems -> Nat]]
    <2>1. PICK S : S = ItemsToRestock(ret[r].item)
      OBVIOUS
    <2>2. restocked' = IF v.status # "RECEIVED" THEN restocked
                       ELSE [restocked EXCEPT ![r] =
                               [i \in OrderItems |-> IF i \in S THEN restocked[r][i] + 1 ELSE restocked[r][i]]]
      BY <1>7, <2>1
    <2>3. PICK f : f = [i \in OrderItems |-> IF i \in S THEN restocked[r][i] + 1 ELSE restocked[r][i]]
      OBVIOUS
    <2>4. f \in [OrderItems -> Nat]
      BY <1>3, <1>4, <2>3
    <2>5. restocked' = IF v.status # "RECEIVED" THEN restocked ELSE [restocked EXCEPT ![r] = f]
      BY <2>2, <2>3
    <2> QED
      BY <1>3, <1>4, <2>1, <2>3, <2>4, <2>5
  <1>12. /\ ret'[r].status = v.status /\ ret'[r].item = ret[r].item
         /\ ret'[r].refundAmount = IF v.refundAmount > 0 THEN v.refundAmount ELSE ret[r].refundAmount
         /\ ret'[r] \in ReturnRow
         /\ DOMAIN ret' = ReturnIds /\ \A q \in ReturnIds \ {r} : ret'[q] = ret[q]
    BY <1>3, <1>4, <1>8 DEF ReturnRow
  <1>13. ret' \in [ReturnIds -> ReturnRow]
    <2>1. ret' = [q \in ReturnIds |-> ret'[q]]
      BY <1>4, <1>8
    <2>2. \A q \in ReturnIds : ret'[q] \in ReturnRow
      BY <1>4, <1>12
    <2> QED
      BY <2>1, <2>2
  <1>14. /\ orderStatus' \in ReturnOrderStatus /\ orderMoved' \in {"no", "hand", "stale"}
         /\ asking' \in [ReturnHandlers -> BOOLEAN]
    BY DEF WriteReturn, ReturnsTypeOK, ReturnOrderStatus
  <1>15. ReturnsTypeOK'
    BY <1>4, <1>5, <1>9, <1>10, <1>11, <1>13, <1>14, NoReviewTyped DEF ReturnsTypeOK
  <1> QED
    BY <1>5, <1>9, <1>10, <1>11, <1>12, <1>15

LEMMA ReturnsTyped == ReturnsTypeOK /\ [ReturnsNext]_returnsVars => ReturnsTypeOK'
  <1> SUFFICES ASSUME ReturnsTypeOK, [ReturnsNext]_returnsVars PROVE ReturnsTypeOK'
    OBVIOUS
  <1>1. ASSUME NEW h \in ReturnHandlers, RequestReturn(h) \/ AskingFails(h) PROVE ReturnsTypeOK'
    BY <1>1 DEF RequestReturn, AskingFails, effectsVars, ReturnsTypeOK
  <1>2. ASSUME NEW h \in ReturnHandlers, NEW r \in ReturnIds, NEW item \in OrderItems \cup {WholeOrder},
               CreateReturn(h, r, item)
        PROVE  ReturnsTypeOK'
    <2> DEFINE row == [status |-> "PENDING", item |-> item, refundAmount |-> 0]
    <2>1. row \in ReturnRow
      BY DEF ReturnRow, ReturnStatus
    <2>2. ret' = [ret EXCEPT ![r] = row]
      BY <1>2 DEF CreateReturn
    <2> HIDE DEF row
    <2> QED
      BY <1>2, <2>1, <2>2 DEF CreateReturn, effectsVars, ReturnsTypeOK, ReturnOrderStatus
  <1>3. ASSUME NEW h \in ReviewHandlers, NEW r \in ReturnIds, NEW status \in ReturnStatus,
               NEW amount \in RefundAmounts, UpdateReturnAdmin(h, r, status, amount)
        PROVE  ReturnsTypeOK'
    <2>1. PICK b \in BOOLEAN : b = (status = "REJECTED" /\ orderStatus = "RETURN_REQUESTED")
      BY Zenon
    <2> DEFINE v == [id |-> r, status |-> status, refundAmount |-> amount, seen |-> ret[r].status,
                     redelivers |-> b]
    <2>2. ret[r].status \in ReturnStatus
      BY <1>3 DEF UpdateReturnAdmin, ReturnsTypeOK, ReturnRow
    <2>3. v \in Review
      BY <2>1, <2>2, ReturnConstantsOK DEF Review
    <2>4. reviewing' = [reviewing EXCEPT ![h] = v]
      BY <1>3, <2>1, Zenon DEF UpdateReturnAdmin
    <2> HIDE DEF v
    <2> QED
      BY <1>3, <2>3, <2>4 DEF UpdateReturnAdmin, effectsVars, ReturnsTypeOK
  <1>4. ASSUME NEW h \in ReviewHandlers, WriteReturn(h) PROVE ReturnsTypeOK'
    <2>1. PICK v \in Review, r \in ReturnIds : v = reviewing[h] /\ r = v.id
      BY <1>4, ReviewWritten
    <2> QED
      BY <1>4, <2>1, ReturnWritten
  <1>5. ASSUME NEW h \in ReviewHandlers, ReviewFails(h) PROVE ReturnsTypeOK'
    BY <1>5, NoReviewTyped DEF ReviewFails, effectsVars, ReturnsTypeOK
  <1>6. ASSUME NEW status \in ReturnOrderStatus, UpdateOrderStatusAdmin(status) PROVE ReturnsTypeOK'
    BY <1>6 DEF UpdateOrderStatusAdmin, effectsVars, ReturnsTypeOK
  <1>7. CASE UNCHANGED returnsVars
    BY <1>7 DEF returnsVars, effectsVars, ReturnsTypeOK
  <1> QED
    BY <1>1, <1>2, <1>3, <1>4, <1>5, <1>6, <1>7 DEF ReturnsNext

LEMMA ReturnsInitTyped == ReturnsInit => ReturnsTypeOK
  BY NoReviewTyped DEF ReturnsInit, ReturnsTypeOK, ReturnRow, ReturnOrderStatus

LEMMA ReturnsInitInv == ReturnsInit => ReturnsInv
  <1> SUFFICES ASSUME ReturnsInit PROVE ReturnsInv
    OBVIOUS
  <1>1. ReviewsAllowed
    BY NoReviewTyped DEF ReturnsInit, ReviewsAllowed
  <1>2. ReturnedMatchesRefund
    BY DEF ReturnsInit, ReturnedMatchesRefund, WholeOrderRefunded
  <1>3. ASSUME NEW r \in ReturnIds PROVE EffectsOf(r)
    BY DEF ReturnsInit, EffectsOf, NoEffectsBefore, EffectsFollowStatus, EffectsMatchStatus,
           PaidWhenRefunded, Settled
  <1> QED
    BY <1>1, <1>2, <1>3, ReturnsInitTyped DEF ReturnsInv

\* Each refund and each restocking is accounted for by the write that does it.
LEMMA ReviewCounted ==
  ASSUME ReturnsInv, NEW h \in ReviewHandlers, WriteReturn(h)
  PROVE  \A q \in ReturnIds : EffectsOf(q)'
  <1>1. PICK v \in Review, r \in ReturnIds : v = reviewing[h] /\ r = v.id
    BY ReviewWritten DEF ReturnsInv
  <1>2. ReturnsTypeOK /\ EffectsOf(r)
    BY DEF ReturnsInv
  <1>3. r # NoReturn
    BY <1>1 DEF WriteReturn
  <1>4. ret[r].status # "none" /\ NotRepeated(v.seen, v.status)
    BY <1>1, <1>3 DEF ReturnsInv, ReviewsAllowed
  <1>5. v.status \in ReturnStatus /\ v.refundAmount \in Nat /\ v.seen \in ReturnStatus
    BY ReviewShape
  <1>6. /\ ret[r].status \in ReturnStatus /\ ret[r].refundAmount \in Nat
        /\ refunds[r] \in Nat /\ credited[r] \in Nat /\ reopened[r] \in Nat /\ crossed[r] \in Nat
        /\ \A i \in OrderItems : restocked[r][i] \in Nat
    BY <1>2, <1>4 DEF ReturnsTypeOK, ReturnRow
  <1>7. /\ v.status = "REFUNDED" => v.refundAmount > 0
        /\ ret'[r].status = v.status /\ ret'[r].item = ret[r].item
        /\ ret'[r].refundAmount = IF v.refundAmount > 0 THEN v.refundAmount ELSE ret[r].refundAmount
        /\ refunds'[r] = IF v.status = "REFUNDED" THEN refunds[r] + 1 ELSE refunds[r]
        /\ credited'[r] = IF v.status = "REFUNDED" THEN credited[r] + v.refundAmount ELSE credited[r]
    BY <1>1, <1>2, ReturnWritten
  <1>8. /\ reopened'[r] = IF ret[r].status \in Settled /\ v.status \notin Settled
                          THEN reopened[r] + 1 ELSE reopened[r]
        /\ crossed'[r] = IF ret[r].status # v.seen THEN crossed[r] + 1 ELSE crossed[r]
        /\ \A i \in OrderItems :
              restocked'[r][i] = IF v.status = "RECEIVED" /\ i \in ItemsToRestock(ret[r].item)
                                 THEN restocked[r][i] + 1 ELSE restocked[r][i]
    BY <1>1, <1>2, ReturnWritten
  <1>9. ASSUME NEW q \in ReturnIds \ {r} PROVE EffectsOf(q)'
    <2>1. /\ ret'[q] = ret[q] /\ refunds'[q] = refunds[q] /\ credited'[q] = credited[q]
          /\ reopened'[q] = reopened[q] /\ crossed'[q] = crossed[q]
          /\ restocked'[q] = restocked[q]
      BY <1>1, <1>2, ReturnWritten
    <2>2. EffectsOf(q)
      BY DEF ReturnsInv
    <2> QED
      BY <2>1, <2>2 DEF EffectsOf, NoEffectsBefore, EffectsFollowStatus, EffectsMatchStatus,
                        PaidWhenRefunded
  <1>10. (NoEffectsBefore(r) /\ PaidWhenRefunded(r))'
    BY <1>2, <1>5, <1>6, <1>7 DEF EffectsOf, NoEffectsBefore, PaidWhenRefunded, ReturnStatus
  <1>11. EffectsFollowStatus(r)'
    <2>1. refunds'[r] <= reopened'[r] + crossed'[r] + (IF v.status = "REFUNDED" THEN 1 ELSE 0)
      <3>1. refunds[r] <= reopened[r] + crossed[r] + (IF ret[r].status = "REFUNDED" THEN 1 ELSE 0)
        BY <1>2 DEF EffectsOf, EffectsFollowStatus
      <3> QED
        BY <1>4, <1>5, <1>6, <1>7, <1>8, <3>1 DEF NotRepeated, Settled, ReturnStatus
    <2>2. ASSUME NEW i \in OrderItems
          PROVE  restocked'[r][i] <= IF i \in ItemsToRestock(ret[r].item)
                                     THEN reopened'[r] + crossed'[r] + (IF v.status \in Settled THEN 1 ELSE 0)
                                     ELSE 0
      <3>1. restocked[r][i] <= IF i \in ItemsToRestock(ret[r].item)
                               THEN reopened[r] + crossed[r] + (IF ret[r].status \in Settled THEN 1 ELSE 0)
                               ELSE 0
        BY <1>2 DEF EffectsOf, EffectsFollowStatus
      <3>2. PICK S : S = ItemsToRestock(ret[r].item)
        OBVIOUS
      <3> QED
        BY <1>4, <1>5, <1>6, <1>8, <3>1, <3>2 DEF NotRepeated, Settled, ReturnStatus
    <2> QED
      BY <1>7, <2>1, <2>2 DEF EffectsFollowStatus, ItemsToRestock
  <1>12. EffectsMatchStatus(r)'
    <2> SUFFICES ASSUME reopened'[r] = 0, crossed'[r] = 0
                 PROVE  /\ credited'[r] = IF v.status = "REFUNDED" THEN ret'[r].refundAmount ELSE 0
                        /\ v.status = "RECEIVED" =>
                              \A i \in ItemsToRestock(ret[r].item) : restocked'[r][i] = 1
      BY <1>7 DEF EffectsMatchStatus, ItemsToRestock
    <2>1. ret[r].status = v.seen /\ reopened[r] = 0 /\ crossed[r] = 0
      BY <1>6, <1>8
    <2>2. ret[r].status # "REFUNDED" /\ (v.status = "RECEIVED" => ret[r].status # "RECEIVED")
      BY <1>4, <1>5, <1>6, <1>8, <2>1 DEF NotRepeated, Settled, ReturnStatus
    <2>3. credited[r] = 0
      BY <1>2, <2>1, <2>2 DEF EffectsOf, EffectsMatchStatus
    <2>4. credited'[r] = IF v.status = "REFUNDED" THEN ret'[r].refundAmount ELSE 0
      BY <1>5, <1>7, <2>3
    <2>5. ASSUME v.status = "RECEIVED", NEW i \in ItemsToRestock(ret[r].item)
          PROVE  restocked'[r][i] = 1
      <3>1. i \in OrderItems
        BY <1>2, <2>5 DEF ItemsToRestock, ReturnsTypeOK, ReturnRow
      <3>2. restocked[r][i] <= 0
        BY <1>2, <1>6, <2>1, <2>2, <2>5, <3>1 DEF EffectsOf, EffectsFollowStatus, Settled
      <3> QED
        BY <1>6, <1>8, <2>5, <3>1, <3>2
    <2> QED
      BY <2>4, <2>5
  <1>13. EffectsOf(r)'
    BY <1>10, <1>11, <1>12 DEF EffectsOf
  <1>14. \A q \in ReturnIds : q = r \/ q \in ReturnIds \ {r}
    OBVIOUS
  <1> QED
    BY <1>9, <1>13, <1>14

LEMMA ReviewClosesOrder ==
  ASSUME ReturnsInv, NEW h \in ReviewHandlers, WriteReturn(h)
  PROVE  ReturnedMatchesRefund'
  <1>1. PICK v \in Review, r \in ReturnIds : v = reviewing[h] /\ r = v.id
    BY ReviewWritten DEF ReturnsInv
  <1>2. ReturnsTypeOK /\ ReturnedMatchesRefund
    BY DEF ReturnsInv
  <1>3. /\ ret'[r].item = ret[r].item
        /\ refunds'[r] = IF v.status = "REFUNDED" THEN refunds[r] + 1 ELSE refunds[r]
        /\ \A q \in ReturnIds \ {r} : ret'[q] = ret[q] /\ refunds'[q] = refunds[q]
    BY <1>1, <1>2, ReturnWritten
  <1>4. \A q \in ReturnIds : refunds[q] \in Nat
    BY <1>2 DEF ReturnsTypeOK
  <1>5. PICK closes \in BOOLEAN : closes = (v.status = "REFUNDED" /\ ClosesOrder(ret[r].item))
    BY Zenon
  <1>6. /\ closes => orderStatus' = "RETURNED" /\ orderMoved' = "no"
        /\ ~closes => \/ orderStatus' = orderStatus /\ orderMoved' = orderMoved
                      \/ orderStatus' = "DELIVERED" /\ orderMoved' = "stale"
                      \/ orderStatus' = "DELIVERED" /\ orderStatus # "RETURNED" /\ orderMoved' = orderMoved
    <2>1. PICK again \in BOOLEAN : again = (v.status = "REJECTED" /\ v.redelivers)
      BY Zenon
    <2>2. /\ orderStatus' = CASE closes -> "RETURNED" [] again -> "DELIVERED" [] OTHER -> orderStatus
          /\ orderMoved' = CASE closes -> "no" [] again /\ orderStatus = "RETURNED" -> "stale"
                             [] OTHER -> orderMoved
      BY <1>1, <1>5, <2>1, Zenon DEF WriteReturn
    <2>3. ~(closes /\ again)
      <3>1. closes => v.status = "REFUNDED"
        BY <1>5, Zenon
      <3>2. again => v.status = "REJECTED"
        BY <2>1, Zenon
      <3> QED
        BY <3>1, <3>2
    <2> QED
      BY <2>2, <2>3
  <1>7. CASE closes
    <2>0. v.status = "REFUNDED" /\ ret[r].item = WholeOrder
      BY <1>5, <1>7, Zenon DEF ClosesOrder
    <2>1. ret'[r].item = WholeOrder /\ refunds'[r] > 0
      BY <1>3, <1>4, <2>0
    <2> QED
      BY <1>6, <1>7, <2>1 DEF ReturnedMatchesRefund, WholeOrderRefunded
  <1>8. CASE ~closes
    <2>1. WholeOrderRefunded' <=> WholeOrderRefunded
      <3>1. ASSUME NEW q \in ReturnIds
            PROVE  (ret'[q].item = WholeOrder /\ refunds'[q] > 0)
                     <=> (ret[q].item = WholeOrder /\ refunds[q] > 0)
        <4>1. CASE q = r
          BY <1>3, <1>5, <1>8, <4>1 DEF ClosesOrder
        <4>2. CASE q # r
          BY <1>3, <4>2
        <4> QED
          BY <4>1, <4>2
      <3> QED
        BY <3>1 DEF WholeOrderRefunded
    <2> QED
      BY <1>2, <1>6, <1>8, <2>1 DEF ReturnedMatchesRefund
  <1> QED
    BY <1>7, <1>8

LEMMA ReturnsNextInv == ReturnsInv /\ [ReturnsNext]_returnsVars => ReturnsInv'
  <1> SUFFICES ASSUME ReturnsInv, [ReturnsNext]_returnsVars PROVE ReturnsInv'
    OBVIOUS
  <1>0. /\ ReturnsTypeOK /\ ReviewsAllowed /\ ReturnedMatchesRefund /\ ReturnsTypeOK'
        /\ \A r \in ReturnIds : EffectsOf(r)
    BY ReturnsTyped DEF ReturnsInv
  <1>1. SUFFICES /\ ReviewsAllowed' /\ ReturnedMatchesRefund'
                 /\ \A r \in ReturnIds : EffectsOf(r)'
    BY <1>0 DEF ReturnsInv
  <1>2. ASSUME NEW r \in ReturnIds, ret'[r] = ret[r], UNCHANGED effectsVars
        PROVE  EffectsOf(r)'
    BY <1>0, <1>2 DEF effectsVars, EffectsOf, NoEffectsBefore, EffectsFollowStatus,
                      EffectsMatchStatus, PaidWhenRefunded
  <1>3. ASSUME NEW h \in ReviewHandlers, reviewing' = [reviewing EXCEPT ![h] = NoReview],
               \A r \in ReturnIds : ret'[r].status = "none" => ret[r].status = "none"
        PROVE  ReviewsAllowed'
    <2> SUFFICES ASSUME NEW a \in ReviewHandlers, reviewing'[a].id # NoReturn
                 PROVE  /\ ret'[reviewing'[a].id].status # "none"
                        /\ NotRepeated(reviewing'[a].seen, reviewing'[a].status)
      BY DEF ReviewsAllowed
    <2>1. a # h /\ reviewing'[a] = reviewing[a] /\ reviewing[a] \in Review
      BY <1>0, <1>3, NoReviewTyped DEF ReturnsTypeOK
    <2>2. reviewing[a].id \in ReturnIds
      BY <2>1, ReviewShape
    <2> QED
      BY <1>0, <1>3, <2>1, <2>2 DEF ReviewsAllowed
  <1>4. ASSUME UNCHANGED <<orderStatus, orderMoved, ret, effectsVars, reviewing>>
        PROVE  ReviewsAllowed' /\ ReturnedMatchesRefund' /\ \A r \in ReturnIds : EffectsOf(r)'
    BY <1>0, <1>2, <1>4 DEF ReviewsAllowed, ReturnedMatchesRefund, WholeOrderRefunded, effectsVars
  <1>5. ASSUME NEW h \in ReturnHandlers, NEW r \in ReturnIds, NEW item \in OrderItems \cup {WholeOrder},
               CreateReturn(h, r, item)
        PROVE  ReviewsAllowed' /\ ReturnedMatchesRefund' /\ \A q \in ReturnIds : EffectsOf(q)'
    <2>1. /\ ret[r].status = "none" /\ ret'[r].status = "PENDING"
          /\ UNCHANGED <<effectsVars, reviewing>>
          /\ orderStatus' = "RETURN_REQUESTED"
          /\ orderMoved' = IF orderStatus = "RETURNED" THEN "stale" ELSE orderMoved
          /\ \A q \in ReturnIds \ {r} : ret'[q] = ret[q]
      BY <1>0, <1>5 DEF CreateReturn, ReturnsTypeOK
    <2>2. /\ refunds[r] = 0 /\ credited[r] = 0 /\ reopened[r] = 0 /\ crossed[r] = 0
          /\ \A i \in OrderItems : restocked[r][i] = 0
      BY <1>0, <2>1 DEF EffectsOf, NoEffectsBefore
    <2>3. EffectsOf(r)'
      BY <2>1, <2>2 DEF effectsVars, EffectsOf, NoEffectsBefore, EffectsFollowStatus,
                        EffectsMatchStatus, PaidWhenRefunded, Settled
    <2>4. ReviewsAllowed'
      <3> SUFFICES ASSUME NEW a \in ReviewHandlers, reviewing[a].id # NoReturn
                   PROVE  /\ ret'[reviewing[a].id].status # "none"
                          /\ NotRepeated(reviewing[a].seen, reviewing[a].status)
        BY <2>1 DEF ReviewsAllowed
      <3>1. reviewing[a] \in Review
        BY <1>0 DEF ReturnsTypeOK
      <3>2. reviewing[a].id \in ReturnIds
        BY <3>1, ReviewShape
      <3> QED
        BY <1>0, <2>1, <3>2 DEF ReviewsAllowed
    <2>5. WholeOrderRefunded' => WholeOrderRefunded
      <3> SUFFICES ASSUME NEW q \in ReturnIds, ret'[q].item = WholeOrder, refunds'[q] > 0
                   PROVE  WholeOrderRefunded
        BY DEF WholeOrderRefunded
      <3>1. q # r
        BY <2>1, <2>2 DEF effectsVars
      <3> QED
        BY <2>1, <3>1 DEF effectsVars, WholeOrderRefunded
    <2>6. ReturnedMatchesRefund'
      BY <1>0, <2>1, <2>5 DEF ReturnedMatchesRefund
    <2>7. \A q \in ReturnIds : q = r \/ q \in ReturnIds \ {r}
      OBVIOUS
    <2> QED
      BY <1>2, <2>1, <2>3, <2>4, <2>6, <2>7
  <1>6. ASSUME NEW h \in ReviewHandlers, NEW r \in ReturnIds, NEW status \in ReturnStatus,
               NEW amount \in RefundAmounts, UpdateReturnAdmin(h, r, status, amount)
        PROVE  ReviewsAllowed' /\ ReturnedMatchesRefund' /\ \A q \in ReturnIds : EffectsOf(q)'
    <2>1. /\ reviewing'[h].id = r /\ reviewing'[h].status = status
          /\ reviewing'[h].seen = ret[r].status
          /\ \A a \in ReviewHandlers \ {h} : reviewing'[a] = reviewing[a]
      BY <1>0, <1>6 DEF UpdateReturnAdmin, ReturnsTypeOK
    <2>2. UNCHANGED <<orderStatus, orderMoved, ret, effectsVars>>
      BY <1>6 DEF UpdateReturnAdmin
    <2>3. ret[r].status # "none" /\ NotRepeated(ret[r].status, status)
      BY <1>6 DEF UpdateReturnAdmin
    <2>4. ReviewsAllowed'
      BY <1>0, <2>1, <2>2, <2>3 DEF ReviewsAllowed
    <2>5. ReturnedMatchesRefund'
      BY <1>0, <2>2 DEF ReturnedMatchesRefund, WholeOrderRefunded, effectsVars
    <2> QED
      BY <1>2, <2>2, <2>4, <2>5
  <1>7. ASSUME NEW h \in ReviewHandlers, WriteReturn(h)
        PROVE  ReviewsAllowed' /\ ReturnedMatchesRefund' /\ \A q \in ReturnIds : EffectsOf(q)'
    <2>1. PICK v \in Review, r \in ReturnIds : v = reviewing[h] /\ r = v.id
      BY <1>0, <1>7, ReviewWritten
    <2>2. /\ ret'[r].status = v.status /\ reviewing' = [reviewing EXCEPT ![h] = NoReview]
          /\ \A q \in ReturnIds \ {r} : ret'[q] = ret[q]
      BY <1>0, <1>7, <2>1, ReturnWritten
    <2>3. v.status # "none"
      BY ReviewShape DEF ReturnStatus
    <2>4. ReviewsAllowed'
      BY <1>3, <2>2, <2>3
    <2> QED
      BY <1>7, <2>4, ReviewCounted, ReviewClosesOrder
  <1>8. ASSUME NEW h \in ReviewHandlers, ReviewFails(h)
        PROVE  ReviewsAllowed' /\ ReturnedMatchesRefund' /\ \A q \in ReturnIds : EffectsOf(q)'
    <2>1. ReviewsAllowed'
      BY <1>3, <1>8 DEF ReviewFails
    <2>2. ReturnedMatchesRefund'
      BY <1>0, <1>8 DEF ReviewFails, ReturnedMatchesRefund, WholeOrderRefunded, effectsVars
    <2> QED
      BY <1>2, <1>8, <2>1, <2>2 DEF ReviewFails
  <1>9. ASSUME NEW status \in ReturnOrderStatus, UpdateOrderStatusAdmin(status)
        PROVE  ReviewsAllowed' /\ ReturnedMatchesRefund' /\ \A q \in ReturnIds : EffectsOf(q)'
    <2>1. ReviewsAllowed'
      BY <1>0, <1>9 DEF UpdateOrderStatusAdmin, ReviewsAllowed
    <2>2. ReturnedMatchesRefund'
      BY <1>9 DEF UpdateOrderStatusAdmin, ReturnedMatchesRefund
    <2> QED
      BY <1>2, <1>9, <2>1, <2>2 DEF UpdateOrderStatusAdmin
  <1> QED
    BY <1>4, <1>5, <1>6, <1>7, <1>8, <1>9
    DEF ReturnsNext, returnsVars, RequestReturn, AskingFails

\* However many customers ask and administrators review at once, and whatever is set by
\* hand, only a refund of the whole order makes the returns' handlers call it RETURNED, and
\* only the named overwritings take that back (requestReturn, updateReturnAdmin).
THEOREM ReturnedMeansRefunded == ReturnsSpec => []ReturnedMatchesRefund
  <1>1. ReturnsInv => ReturnedMatchesRefund
    BY DEF ReturnsInv
  <1> QED
    BY <1>1, ReturnsInitInv, ReturnsNextInv, PTL DEF ReturnsSpec

\* Any statuses, asked for by any number of administrators at once: each refund and each
\* restocking beyond the first is one reopening's or one crossed review's
\* (the guards of updateReturnAdmin).
THEOREM EffectsOfReturns == ReturnsSpec => []ReturnEffectsAreCounted
  <1>1. ReturnsInv => ReturnEffectsAreCounted
    BY DEF ReturnsInv, ReturnEffectsAreCounted, EffectsOf, PaidWhenRefunded
  <1> QED
    BY <1>1, ReturnsInitInv, ReturnsNextInv, PTL DEF ReturnsSpec
-------------------------------------------------------------------------------
(***************************************************************************)
(* Checkouts: the discount.                                                *)
(***************************************************************************)
LEMMA Floored ==
  ASSUME NEW a \in Nat, NEW b \in Nat, b > 0
  PROVE  a \div b \in Nat /\ b * (a \div b) <= a
  <1>1. a \div b \in Int
    OBVIOUS
  <1>2. b * (a \div b) <= a
    OBVIOUS
  <1>3. a \div b >= 0
    OBVIOUS
  <1> QED
    BY <1>1, <1>2, <1>3

LEMMA Cancelled ==
  ASSUME NEW b \in Nat, b > 0, NEW x \in Int, NEW y \in Int, b * x <= b * y
  PROVE  x <= y
  OBVIOUS

LEMMA ProductNatural == \A a, b \in Nat : a * b \in Nat
  OBVIOUS

LEMMA LastLine ==
  ASSUME NEW S \in SUBSET Lines, S # {}
  PROVE  Max(S) \in S
  <1>1. IsFiniteSet(S)
    BY CheckoutConstantsOK, FS_Subset
  <1>2. S \in SUBSET Int
    BY CheckoutConstantsOK
  <1> QED
    BY <1>1, <1>2, GreatestExists DEF Max

\* allocateProportionally gives away all it gets, to the lines it is told of.
LEMMA Allocates ==
  ASSUME NEW total \in Nat, NEW S \in SUBSET Lines, NEW weight \in [Lines -> Nat]
  PROVE  LET shares == AllocateProportionally(total, S, weight)
         IN  /\ shares \in [Lines -> Nat]
             /\ SumFunctionOnSet(weight, S) > 0 => SumFunctionOnSet(shares, S) = total
             /\ \A l \in Lines \ S : shares[l] = 0
  <1> DEFINE sum == SumFunctionOnSet(weight, S)
             share == [l \in Lines |-> IF l \in S /\ sum > 0 THEN (total * weight[l]) \div sum ELSE 0]
             given == SumFunctionOnSet(share, S)
             all == [share EXCEPT ![Max(S)] = @ + total - given]
             shares == AllocateProportionally(total, S, weight)
  <1>1. IsFiniteSet(S)
    BY CheckoutConstantsOK, FS_Subset
  <1>2. sum \in Nat
    BY <1>1, SumNat
  <1>3. shares = IF total <= 0 \/ sum <= 0 THEN NoLines ELSE all
    BY DEF AllocateProportionally
  <1> HIDE DEF shares
  <1>4. CASE total <= 0 \/ sum <= 0
    <2>1. shares = NoLines
      BY <1>3, <1>4
    <2>2. shares \in [Lines -> Nat] /\ \A l \in Lines : shares[l] = 0
      BY <2>1 DEF NoLines
    <2>3. SumFunctionOnSet(shares, S) = 0
      BY <1>1, <2>2, SumZero
    <2>4. sum > 0 => total = 0
      BY <1>2, <1>4
    <2> HIDE DEF sum
    <2> QED
      BY <2>2, <2>3, <2>4 DEF shares, sum
  <1>5. CASE ~(total <= 0 \/ sum <= 0)
    <2>1. sum > 0 /\ total > 0 /\ shares = all
      BY <1>2, <1>3, <1>5
    <2> HIDE DEF sum
    <2> DEFINE ratio == [l \in Lines |-> sum * share[l]]
               whole == [l \in Lines |-> total * weight[l]]
    <2>2. \A l \in Lines : /\ share[l] \in Nat /\ ratio[l] \in Nat /\ whole[l] \in Nat
                           /\ ratio[l] <= whole[l]
      <3> SUFFICES ASSUME NEW l \in Lines
                   PROVE  share[l] \in Nat /\ ratio[l] \in Nat /\ whole[l] \in Nat /\ ratio[l] <= whole[l]
        OBVIOUS
      <3>1. total * weight[l] \in Nat
        BY ProductNatural
      <3>2. /\ (total * weight[l]) \div sum \in Nat
            /\ sum * ((total * weight[l]) \div sum) <= total * weight[l]
        BY <1>2, <2>1, <3>1, Floored
      <3> DEFINE q == (total * weight[l]) \div sum
                 w == total * weight[l]
      <3>3. share[l] = q \/ share[l] = 0
        OBVIOUS
      <3>4. ratio[l] = sum * share[l] /\ whole[l] = w
        OBVIOUS
      <3>5. q \in Nat /\ w \in Nat /\ sum * q <= w
        BY <3>1, <3>2
      <3> HIDE DEF q, w, share, ratio, whole
      <3>6. share[l] \in Nat
        BY <3>3, <3>5
      <3>7. sum * share[l] \in Nat /\ sum * share[l] <= w
        <4>1. sum * 0 = 0
          BY <1>2
        <4> QED
          BY <1>2, <3>3, <3>5, <3>6, <4>1, ProductNatural
      <3> QED
        BY <3>4, <3>5, <3>6, <3>7
    <2>3. share \in [Lines -> Nat] /\ \A l \in Lines \ S : share[l] = 0
      BY <2>2
    <2> HIDE DEF share
    <2>4. given \in Nat
      BY <1>1, <2>2, SumNat
    <2>5. SumFunctionOnSet(ratio, S) = sum * given
      BY <1>1, <1>2, <2>2, SumScaled
    <2>6. SumFunctionOnSet(whole, S) = total * sum
      BY <1>1, <2>2, SumScaled DEF sum
    <2>7. SumFunctionOnSet(ratio, S) <= SumFunctionOnSet(whole, S)
      <3> HIDE DEF ratio, whole
      <3> QED
        BY <1>1, <2>2, SumMonotone
    <2>8. given <= total
      <3>1. sum * given <= sum * total
        <4>1. total * sum = sum * total
          BY <1>2
        <4> QED
          BY <2>5, <2>6, <2>7, <4>1
      <3> HIDE DEF given
      <3> QED
        BY <1>2, <2>1, <2>4, <3>1, Cancelled
    <2>9. S # {}
      BY <2>1, SumEmpty DEF sum
    <2>10. PICK m \in S : m = Max(S)
      BY <2>9, LastLine
    <2>11. all = [share EXCEPT ![m] = share[m] + total - given]
      BY <2>10
    <2> HIDE DEF given, all
    <2>12. /\ share[m] + total - given \in Nat
           /\ share[m] \in Nat
      BY <2>3, <2>4, <2>8
    <2>13. /\ all \in [Lines -> Nat] /\ all[m] = share[m] + total - given
           /\ \A l \in S \ {m} : all[l] = share[l]
           /\ \A l \in Lines \ S : all[l] = 0
      BY <2>3, <2>11, <2>12
    <2>14. SumFunctionOnSet(all, S) = SumFunctionOnSet(share, S) + all[m] - share[m]
      <3>1. \A l \in S : share[l] \in Int /\ all[l] \in Int
        BY <2>3, <2>13
      <3>2. \A l \in S \ {m} : all[l] = share[l]
        BY <2>13
      <3> QED
        BY <1>1, <3>1, <3>2, SumChange
    <2>15. SumFunctionOnSet(all, S) = total
      <3>1. SumFunctionOnSet(share, S) = given
        BY DEF given
      <3> QED
        BY <2>4, <2>12, <2>13, <2>14, <3>1
    <2> QED
      BY <2>1, <2>13, <2>15 DEF shares, sum
  <1> QED
    BY <1>4, <1>5

LEMMA PriceNatural ==
  ASSUME NEW l \in Lines, NEW g \in GoodsOf[l]
  PROVE  CartUnitPrice(g.product, g.rate, g.variant) \in Nat
  <1> DEFINE before == PriceBeforeDiscount(g.product, g.rate, BuildVariantModifiers(g.variant))
             price == Rounded(before)
             value == g.product.discountValue
  <1>1. before \in Nat /\ value \in Nat
    BY PricesAreNatural
  <1>2. price \in Nat
    <2> HIDE DEF before
    <2>1. before + Scale \div 2 \in Nat
      BY <1>1 DEF Scale
    <2> QED
      BY <2>1, Floored DEF Rounded, Scale
  <1>3. CartUnitPrice(g.product, g.rate, g.variant) =
            ComputeProductEffectivePrice(price, g.product.discountType, value)
    BY DEF CartUnitPrice, ComputeVariantOriginalPrice
  <1> HIDE DEF price, value
  <1> DEFINE off == Rounded(PercentOf(price * Scale, value))
  <1>4. off \in Nat
    <2>1. price * Scale \in Nat
      BY <1>2, ProductNatural DEF Scale
    <2>2. (price * Scale) \div 100 \in Nat
      BY <2>1, Floored
    <2>3. PercentOf(price * Scale, value) \in Nat
      BY <1>1, <2>2, ProductNatural DEF PercentOf
    <2>4. PercentOf(price * Scale, value) + Scale \div 2 \in Nat
      BY <2>3 DEF Scale
    <2> QED
      BY <2>4, Floored DEF Rounded, Scale
  <1> HIDE DEF off
  <1>5. AtLeast(0, price - off) \in Nat /\ AtLeast(0, price - value) \in Nat
    BY <1>1, <1>2, <1>4 DEF AtLeast
  <1> QED
    BY <1>2, <1>3, <1>5 DEF ComputeProductEffectivePrice, off

\* A createOrder call in flight.
CheckoutRow ==
    [phase : {"idle", "pricing", "finding", "counting", "evaluating", "placing", "placed"},
     user : Buyers \cup {Nobody}, lines : [Lines -> Nat], units : [Lines -> Nat], shipping : Nat,
     terms : CodeTerms, discount : Nat, eligible : SUBSET Lines, shares : [Lines -> Nat], total : Nat]

CheckoutTyping ==
    /\ basket \in [Buyers -> [Lines -> Nat]]
    /\ goods \in [Lines -> UNION {GoodsOf[l] : l \in Lines}] /\ \A l \in Lines : goods[l] \in GoodsOf[l]
    /\ terms \in CodeTerms
    /\ codeState \in {"none", "exists", "deleted"}
    /\ usageCount \in Nat
    /\ usages \in [Buyers -> Nat]
    /\ co \in [Checkouts -> CheckoutRow]

\* Who buys, when a code is known to be evaluated, and what a placed order shares out.
CallOK(v) ==
    /\ v.phase # "idle" => v.user \in Buyers
    /\ v.phase \in {"idle", "pricing", "finding", "counting", "evaluating"} => v.eligible = {}
    /\ v.phase = "placed" => v.shares = Shares(v)

CallsOK == \A c \in Checkouts : CallOK(co[c])

\* Calls that passed the check of the code's own limit, and of the customer's limit,
\* and have yet to count a use.
PastLimit(v) == v.phase \in {"counting", "evaluating"} \/ (v.phase = "placing" /\ WithCode(v))

PastUserLimit(v, u) == v.user = u /\ PastLimit(v) /\ v.phase # "counting"

LimitsInv ==
    /\ usageCount = SumFunctionOnSet(usages, Buyers)
    /\ usageCount + Cardinality({c \in Checkouts : PastLimit(co[c])})
            <= MaxUsage + Cardinality(Checkouts) - 1
    /\ \A u \in Buyers :
            usages[u] + Cardinality({c \in Checkouts : PastUserLimit(co[c], u)})
                <= MaxUsagePerUser + Cardinality(Checkouts) - 1

LEMMA NoLinesTyped == NoLines \in [Lines -> Nat]
  BY DEF NoLines

LEMMA AnyTermsTyped == AnyTerms \in CodeTerms
  BY TermsAreNatural DEF AnyTerms

LEMMA NoCheckoutTyped == NoCheckout \in CheckoutRow /\ CallOK(NoCheckout) /\ ~PastLimit(NoCheckout)
  <1>1. NoCheckout \in CheckoutRow
    BY NoLinesTyped, AnyTermsTyped DEF NoCheckout, CheckoutRow
  <1>2. CallOK(NoCheckout) /\ ~PastLimit(NoCheckout)
    BY DEF NoCheckout, CallOK, PastLimit
  <1> QED
    BY <1>1, <1>2

LEMMA UnitsTyped ==
  ASSUME CheckoutTyping, NEW lines \in [Lines -> Nat]
  PROVE  Units(lines) \in [Lines -> Nat]
  <1>1. \A l \in Lines : Unit(l) \in Nat
    BY PriceNatural DEF Unit, CheckoutTyping
  <1> HIDE DEF Unit
  <1> QED
    BY <1>1 DEF Units

LEMMA SubtotalTyped ==
  ASSUME NEW lines \in [Lines -> Nat], NEW units \in [Lines -> Nat], NEW S \in SUBSET Lines
  PROVE  /\ LineTotals(lines, units) \in [Lines -> Nat]
         /\ Subtotal(S, lines, units) \in Nat
  <1>1. LineTotals(lines, units) \in [Lines -> Nat]
    BY ProductNatural DEF LineTotals
  <1>2. IsFiniteSet(S)
    BY CheckoutConstantsOK, FS_Subset
  <1> DEFINE f == LineTotals(lines, units)
  <1>3. \A l \in S : f[l] \in Nat
    BY <1>1
  <1> HIDE DEF f
  <1>4. SumFunctionOnSet(f, S) \in Nat
    BY <1>2, <1>3, SumNat
  <1> QED
    BY <1>1, <1>4 DEF Subtotal, f

LEMMA ShippingTyped ==
  ASSUME NEW company \in Companies, NEW grams \in Nat
  PROVE  CalculateShippingCost(company, grams, Distance) \in Nat
  <1>1. /\ company.baseCost \in Nat /\ company.pricePerKg \in Nat /\ company.pricePerKm \in Nat
        /\ Distance \in Nat
    BY TermsAreNatural
  <1>2. /\ company.pricePerKg * grams \in Nat /\ company.baseCost * 1000 \in Nat
        /\ company.pricePerKm * Distance \in Nat
    BY <1>1, ProductNatural
  <1>3. company.pricePerKm * Distance * 1000 \in Nat
    BY <1>2, ProductNatural
  <1>4. company.pricePerKg * grams + company.pricePerKm * Distance * 1000 \in Nat
    BY <1>2, <1>3
  <1> QED
    BY <1>2, <1>4 DEF CalculateShippingCost

LEMMA DiscountTyped ==
  ASSUME NEW t \in CodeTerms, NEW n \in Nat
  PROVE  CalculateDiscountAmount(t, n) \in Nat
  <1>1. t.value \in Nat /\ t.maxDiscountAmount \in Nat
    BY TermsAreNatural
  <1>2. n * t.value \in Nat
    BY <1>1, ProductNatural
  <1>3. (n * t.value) \div 100 \in Nat
    BY <1>2, Floored
  <1> QED
    BY <1>1, <1>3 DEF CalculateDiscountAmount, AtMost

LEMMA SharesTyped ==
  ASSUME NEW v \in CheckoutRow
  PROVE  Shares(v) \in [Lines -> Nat] /\ TotalAmount(v) \in Nat
  <1>1. /\ v.discount \in Nat /\ v.eligible \cap Held(v.lines) \in SUBSET Lines
        /\ v.lines \in [Lines -> Nat] /\ v.units \in [Lines -> Nat] /\ v.shipping \in Nat
    BY DEF CheckoutRow, Held
  <1>2. LineTotals(v.lines, v.units) \in [Lines -> Nat]
    BY <1>1, SubtotalTyped
  <1>3. Shares(v) \in [Lines -> Nat]
    BY <1>1, <1>2, Allocates DEF Shares
  <1>4. Subtotal(Lines, v.lines, v.units) \in Nat
    BY <1>1, SubtotalTyped
  <1>5. v.shipping \div 1000 \in Nat
    BY <1>1, Floored
  <1>6. TotalAmount(v) \in Nat
    BY <1>1, <1>4, <1>5 DEF TotalAmount, AtLeast
  <1> QED
    BY <1>3, <1>6

CheckoutInv == CheckoutTyping /\ CallsOK /\ LimitsInv

\* A call moves on.
LEMMA CallMoves ==
  ASSUME CheckoutTyping, CallsOK, NEW c \in Checkouts, NEW r \in CheckoutRow, CallOK(r),
         co' = [co EXCEPT ![c] = r]
  PROVE  /\ co' \in [Checkouts -> CheckoutRow] /\ CallsOK'
         /\ co'[c] = r /\ \A d \in Checkouts \ {c} : co'[d] = co[d]
  BY DEF CheckoutTyping, CallsOK

Past == {c \in Checkouts : PastLimit(co[c])}

PastFor(u) == {c \in Checkouts : PastUserLimit(co[c], u)}

LEMMA PastFinite ==
  \A S \in SUBSET Checkouts :
      IsFiniteSet(S) /\ Cardinality(S) \in Nat /\ Cardinality(S) <= Cardinality(Checkouts)
  BY CheckoutConstantsOK, FS_Subset, FS_CardinalityType

LEMMA NoPastGrows ==
  ASSUME NEW S \in SUBSET Checkouts, NEW T \in SUBSET S
  PROVE  Cardinality(T) <= Cardinality(S)
  BY PastFinite, FS_Subset

\* Uses are not counted, and no call passes a check.
LEMMA LimitsKept ==
  ASSUME CheckoutInv, UNCHANGED <<usageCount, usages>>,
         \A c \in Checkouts : co'[c] = co[c] \/ ~PastLimit(co'[c])
                                \/ (/\ PastLimit(co[c]) /\ co'[c].user = co[c].user
                                    /\ co[c].phase # "counting")
  PROVE  LimitsInv'
  <1>1. Past' \subseteq Past /\ \A u \in Buyers : PastFor(u)' \subseteq PastFor(u)
    BY DEF Past, PastFor, PastUserLimit
  <1>2. /\ Cardinality(Past') <= Cardinality(Past)
        /\ Cardinality(Past) \in Nat /\ Cardinality(Past') \in Nat
    BY <1>1, NoPastGrows, PastFinite DEF Past
  <1>3. \A u \in Buyers : /\ Cardinality(PastFor(u)') <= Cardinality(PastFor(u))
                          /\ Cardinality(PastFor(u)) \in Nat /\ Cardinality(PastFor(u)') \in Nat
    BY <1>1, NoPastGrows, PastFinite DEF PastFor
  <1>4. /\ usageCount \in Nat /\ usages \in [Buyers -> Nat] /\ Cardinality(Checkouts) \in Nat
        /\ MaxUsage \in Nat /\ MaxUsagePerUser \in Nat
    BY CheckoutConstantsOK, FS_CardinalityType DEF CheckoutInv, CheckoutTyping
  <1>5. /\ usageCount = SumFunctionOnSet(usages, Buyers)
        /\ usageCount + Cardinality(Past) <= MaxUsage + Cardinality(Checkouts) - 1
        /\ \A u \in Buyers : usages[u] + Cardinality(PastFor(u))
                                <= MaxUsagePerUser + Cardinality(Checkouts) - 1
    BY DEF CheckoutInv, LimitsInv, Past, PastFor
  <1>6. usageCount + Cardinality(Past') <= MaxUsage + Cardinality(Checkouts) - 1
    BY <1>2, <1>4, <1>5
  <1>7. \A u \in Buyers : usages[u] + Cardinality(PastFor(u)')
                                <= MaxUsagePerUser + Cardinality(Checkouts) - 1
    BY <1>3, <1>4, <1>5
  <1> QED
    BY <1>5, <1>6, <1>7 DEF LimitsInv, Past, PastFor

\* A call passes the check of the code's limit.
LEMMA LimitPassed ==
  ASSUME CheckoutInv, UNCHANGED <<usageCount, usages>>, NEW c \in Checkouts,
         usageCount < MaxUsage, co'[c].phase = "counting",
         \A d \in Checkouts \ {c} : co'[d] = co[d]
  PROVE  LimitsInv'
  <1>1. \A u \in Buyers : PastFor(u)' \subseteq PastFor(u)
    BY DEF PastFor, PastUserLimit
  <1>2. Cardinality(Past') <= Cardinality(Checkouts) /\ Cardinality(Past') \in Nat
    BY PastFinite DEF Past
  <1>3. \A u \in Buyers : /\ Cardinality(PastFor(u)') <= Cardinality(PastFor(u))
                          /\ Cardinality(PastFor(u)) \in Nat /\ Cardinality(PastFor(u)') \in Nat
    BY <1>1, NoPastGrows, PastFinite DEF PastFor
  <1>4. /\ usageCount \in Nat /\ usages \in [Buyers -> Nat] /\ Cardinality(Checkouts) \in Nat
        /\ MaxUsage \in Nat /\ MaxUsagePerUser \in Nat
    BY CheckoutConstantsOK, FS_CardinalityType DEF CheckoutInv, CheckoutTyping
  <1>5. /\ usageCount = SumFunctionOnSet(usages, Buyers)
        /\ \A u \in Buyers : usages[u] + Cardinality(PastFor(u))
                                <= MaxUsagePerUser + Cardinality(Checkouts) - 1
    BY DEF CheckoutInv, LimitsInv, PastFor
  <1>6. usageCount + Cardinality(Past') <= MaxUsage + Cardinality(Checkouts) - 1
    BY <1>2, <1>4
  <1>7. \A u \in Buyers : usages[u] + Cardinality(PastFor(u)')
                                <= MaxUsagePerUser + Cardinality(Checkouts) - 1
    BY <1>3, <1>4, <1>5
  <1> QED
    BY <1>5, <1>6, <1>7 DEF LimitsInv, Past, PastFor

\* A call passes the check of the customer's limit.
LEMMA UserLimitPassed ==
  ASSUME CheckoutInv, UNCHANGED <<usageCount, usages>>, NEW c \in Checkouts,
         co[c].phase = "counting", co'[c].user = co[c].user,
         usages[co[c].user] < MaxUsagePerUser,
         \A d \in Checkouts \ {c} : co'[d] = co[d]
  PROVE  LimitsInv'
  <1>1. Past' \subseteq Past
    BY DEF Past, PastLimit
  <1>2. /\ Cardinality(Past') <= Cardinality(Past)
        /\ Cardinality(Past) \in Nat /\ Cardinality(Past') \in Nat
    BY <1>1, NoPastGrows, PastFinite DEF Past
  <1>3. \A u \in Buyers : /\ Cardinality(PastFor(u)') <= Cardinality(Checkouts)
                          /\ Cardinality(PastFor(u)) \in Nat /\ Cardinality(PastFor(u)') \in Nat
    BY PastFinite DEF PastFor
  <1>4. /\ usageCount \in Nat /\ usages \in [Buyers -> Nat] /\ Cardinality(Checkouts) \in Nat
        /\ MaxUsage \in Nat /\ MaxUsagePerUser \in Nat
    BY CheckoutConstantsOK, FS_CardinalityType DEF CheckoutInv, CheckoutTyping
  <1>5. /\ usageCount = SumFunctionOnSet(usages, Buyers)
        /\ usageCount + Cardinality(Past) <= MaxUsage + Cardinality(Checkouts) - 1
        /\ \A u \in Buyers : usages[u] + Cardinality(PastFor(u))
                                <= MaxUsagePerUser + Cardinality(Checkouts) - 1
    BY DEF CheckoutInv, LimitsInv, Past, PastFor
  <1>6. usageCount + Cardinality(Past') <= MaxUsage + Cardinality(Checkouts) - 1
    BY <1>2, <1>4, <1>5
  <1>7. ASSUME NEW u \in Buyers
        PROVE  usages[u] + Cardinality(PastFor(u)') <= MaxUsagePerUser + Cardinality(Checkouts) - 1
    <2>1. CASE u = co[c].user
      BY <1>3, <1>4, <2>1
    <2>2. CASE u # co[c].user
      <3>1. PastFor(u)' \subseteq PastFor(u)
        BY <2>2 DEF PastFor, PastUserLimit
      <3>2. Cardinality(PastFor(u)') <= Cardinality(PastFor(u))
        BY <3>1, NoPastGrows DEF PastFor
      <3> QED
        BY <1>3, <1>4, <1>5, <3>2
    <2> QED
      BY <2>1, <2>2
  <1> QED
    BY <1>5, <1>6, <1>7 DEF LimitsInv, Past, PastFor

\* A use is counted, in the counter and as a row.
LEMMA UseCounted ==
  ASSUME CheckoutInv, NEW c \in Checkouts, co[c].phase = "placing", WithCode(co[c]),
         usageCount' = usageCount + 1, usages' = [usages EXCEPT ![co[c].user] = @ + 1],
         co'[c].phase = "placed", \A d \in Checkouts \ {c} : co'[d] = co[d]
  PROVE  LimitsInv'
  <1>0. /\ usageCount \in Nat /\ usages \in [Buyers -> Nat] /\ Cardinality(Checkouts) \in Nat
        /\ MaxUsage \in Nat /\ MaxUsagePerUser \in Nat /\ IsFiniteSet(Buyers)
    BY CheckoutConstantsOK, FS_CardinalityType DEF CheckoutInv, CheckoutTyping
  <1>1. PICK b \in Buyers : b = co[c].user
    BY DEF CheckoutInv, CallsOK, CallOK
  <1>2. /\ usages' \in [Buyers -> Nat] /\ usages'[b] = usages[b] + 1
        /\ \A u \in Buyers \ {b} : usages'[u] = usages[u]
    BY <1>0, <1>1
  <1>3. /\ usageCount = SumFunctionOnSet(usages, Buyers)
        /\ usageCount + Cardinality(Past) <= MaxUsage + Cardinality(Checkouts) - 1
        /\ \A u \in Buyers : usages[u] + Cardinality(PastFor(u))
                                <= MaxUsagePerUser + Cardinality(Checkouts) - 1
    BY DEF CheckoutInv, LimitsInv, Past, PastFor
  <1>4. usageCount' = SumFunctionOnSet(usages', Buyers)
    <2>1. \A u \in Buyers : usages[u] \in Int /\ usages'[u] \in Int
      BY <1>0, <1>2
    <2>2. SumFunctionOnSet(usages', Buyers) = SumFunctionOnSet(usages, Buyers) + usages'[b] - usages[b]
      <3>1. /\ IsFiniteSet(Buyers) /\ b \in Buyers
            /\ \A u \in Buyers \ {b} : usages'[u] = usages[u]
        BY <1>0, <1>2
      <3>2. PICK f, e : f = usages /\ e = usages'
        OBVIOUS
      <3>3. /\ \A u \in Buyers : f[u] \in Int /\ e[u] \in Int
            /\ \A u \in Buyers \ {b} : e[u] = f[u]
        BY <2>1, <3>1, <3>2
      <3>4. SumFunctionOnSet(e, Buyers) = SumFunctionOnSet(f, Buyers) + e[b] - f[b]
        BY <3>1, <3>3, SumChange
      <3> QED
        BY <3>2, <3>4
    <2>3. usages[b] \in Nat /\ SumFunctionOnSet(usages, Buyers) \in Nat
      BY <1>0, <1>3
    <2> QED
      BY <1>2, <1>3, <2>2, <2>3
  <1>5. usageCount' + Cardinality(Past') <= MaxUsage + Cardinality(Checkouts) - 1
    <2>1. c \in Past /\ Past' = Past \ {c}
      BY DEF Past, PastLimit
    <2>2. IsFiniteSet(Past) /\ Cardinality(Past) \in Nat
      BY PastFinite DEF Past
    <2>3. Cardinality(Past') = Cardinality(Past) - 1
      BY <2>1, <2>2, FS_RemoveElement
    <2> QED
      BY <1>0, <1>3, <2>2, <2>3
  <1>6. ASSUME NEW u \in Buyers
        PROVE  usages'[u] + Cardinality(PastFor(u)') <= MaxUsagePerUser + Cardinality(Checkouts) - 1
    <2>1. PastFor(u)' = PastFor(u) \ {c}
      BY DEF PastFor, PastUserLimit, PastLimit
    <2>2. IsFiniteSet(PastFor(u)) /\ Cardinality(PastFor(u)) \in Nat
      BY PastFinite DEF PastFor
    <2>3. usages[u] + Cardinality(PastFor(u)) <= MaxUsagePerUser + Cardinality(Checkouts) - 1
      BY <1>3
    <2>4. CASE u = b
      <3>1. c \in PastFor(u)
        BY <1>1, <2>4 DEF PastFor, PastUserLimit, PastLimit
      <3>2. Cardinality(PastFor(u)') = Cardinality(PastFor(u)) - 1
        BY <2>1, <2>2, <3>1, FS_RemoveElement
      <3> QED
        BY <1>0, <1>2, <2>2, <2>3, <2>4, <3>2
    <2>5. CASE u # b
      <3>1. c \notin PastFor(u)
        BY <1>1, <2>5 DEF PastFor, PastUserLimit
      <3>2. PastFor(u)' = PastFor(u)
        BY <2>1, <3>1
      <3> QED
        BY <1>2, <2>3, <2>5, <3>2
    <2> QED
      BY <2>4, <2>5
  <1> QED
    BY <1>4, <1>5, <1>6 DEF LimitsInv, Past, PastFor

LEMMA CheckoutInitInv == CheckoutInit => CheckoutInv
  <1> SUFFICES ASSUME CheckoutInit PROVE CheckoutInv
    OBVIOUS
  <1>1. CheckoutTyping
    <2>1. \A l \in Lines : goods[l] \in GoodsOf[l]
      BY PricesAreNatural DEF CheckoutInit
    <2>2. goods \in [Lines -> UNION {GoodsOf[l] : l \in Lines}]
      BY <2>1 DEF CheckoutInit
    <2> QED
      BY <2>1, <2>2, NoCheckoutTyped, NoLinesTyped DEF CheckoutInit, CheckoutTyping
  <1>2. CallsOK
    BY NoCheckoutTyped DEF CheckoutInit, CallsOK
  <1>3. LimitsInv
    <2>1. /\ MaxUsage \in Nat \ {0} /\ MaxUsagePerUser \in Nat \ {0}
          /\ Cardinality(Checkouts) \in Nat /\ IsFiniteSet(Buyers) /\ Cardinality({}) = 0
      BY CheckoutConstantsOK, FS_CardinalityType, FS_EmptySet
    <2>2. Past = {} /\ \A u \in Buyers : PastFor(u) = {}
      BY NoCheckoutTyped DEF CheckoutInit, Past, PastFor, PastUserLimit
    <2>3. usageCount = 0 /\ usages = [u \in Buyers |-> 0]
      BY DEF CheckoutInit
    <2>4. PICK f : f = usages
      OBVIOUS
    <2>5. \A u \in Buyers : f[u] = 0
      BY <2>3, <2>4
    <2>6. SumFunctionOnSet(f, Buyers) = 0
      BY <2>1, <2>5, SumZero
    <2>7. 0 + 0 <= MaxUsage + Cardinality(Checkouts) - 1
          /\ 0 + 0 <= MaxUsagePerUser + Cardinality(Checkouts) - 1
      BY <2>1
    <2> QED
      BY <2>1, <2>2, <2>3, <2>4, <2>6, <2>7 DEF LimitsInv, Past, PastFor
  <1> QED
    BY <1>1, <1>2, <1>3 DEF CheckoutInv

LEMMA CheckoutNextInv == CheckoutInv /\ [CheckoutNext]_checkoutVars => CheckoutInv'
  <1> SUFFICES ASSUME CheckoutInv, [CheckoutNext]_checkoutVars PROVE CheckoutInv'
    OBVIOUS
  <1>0. /\ CheckoutTyping /\ CallsOK /\ LimitsInv
        /\ basket \in [Buyers -> [Lines -> Nat]] /\ terms \in CodeTerms
        /\ usageCount \in Nat /\ usages \in [Buyers -> Nat]
        /\ co \in [Checkouts -> CheckoutRow] /\ \A c \in Checkouts : CallOK(co[c])
    BY DEF CheckoutInv, CheckoutTyping, CallsOK
  <1>1. ASSUME NEW c \in Checkouts, NEW r \in CheckoutRow, CallOK(r), co' = [co EXCEPT ![c] = r],
               UNCHANGED <<basket, goods, terms, codeState, usageCount, usages>>,
               \/ ~PastLimit(r)
               \/ PastLimit(co[c]) /\ r.user = co[c].user /\ co[c].phase # "counting"
               \/ usageCount < MaxUsage /\ r.phase = "counting"
               \/ /\ co[c].phase = "counting" /\ r.user = co[c].user
                  /\ usages[co[c].user] < MaxUsagePerUser
        PROVE  CheckoutInv'
    <2>1. /\ co' \in [Checkouts -> CheckoutRow] /\ CallsOK'
          /\ co'[c] = r /\ \A d \in Checkouts \ {c} : co'[d] = co[d]
      BY <1>0, <1>1, CallMoves
    <2>2. CheckoutTyping'
      BY <1>0, <1>1, <2>1 DEF CheckoutTyping
    <2>3. LimitsInv'
      <3>1. CASE \/ ~PastLimit(r)
                 \/ PastLimit(co[c]) /\ r.user = co[c].user /\ co[c].phase # "counting"
        <4>1. \A d \in Checkouts : co'[d] = co[d] \/ ~PastLimit(co'[d])
                                     \/ (/\ PastLimit(co[d]) /\ co'[d].user = co[d].user
                                         /\ co[d].phase # "counting")
          BY <2>1, <3>1
        <4> QED
          BY <1>1, <4>1, LimitsKept
      <3>2. CASE usageCount < MaxUsage /\ r.phase = "counting"
        BY <1>1, <2>1, <3>2, LimitPassed
      <3>3. CASE /\ co[c].phase = "counting" /\ r.user = co[c].user
                 /\ usages[co[c].user] < MaxUsagePerUser
        BY <1>1, <2>1, <3>3, UserLimitPassed
      <3> QED
        BY <1>1, <3>1, <3>2, <3>3
    <2> QED
      BY <2>1, <2>2, <2>3 DEF CheckoutInv
  <1>2. ASSUME NEW c \in Checkouts, NEW u \in Buyers, ReadCart(c, u) PROVE CheckoutInv'
    <2> DEFINE r == [NoCheckout EXCEPT !.phase = "pricing", !.user = u,
                                    !.lines = basket[u], !.units = Units(basket[u])]
    <2>1. basket[u] \in [Lines -> Nat] /\ Units(basket[u]) \in [Lines -> Nat]
      BY <1>0, UnitsTyped
    <2>2. /\ r \in CheckoutRow /\ r.phase = "pricing" /\ r.user = u /\ r.eligible = {}
      BY <2>1, NoCheckoutTyped DEF CheckoutRow, NoCheckout
    <2>3. /\ co' = [co EXCEPT ![c] = r]
          /\ UNCHANGED <<basket, goods, terms, codeState, usageCount, usages>>
      BY <1>2 DEF ReadCart
    <2> HIDE DEF r
    <2>4. CallOK(r) /\ ~PastLimit(r)
      BY <2>2 DEF CallOK, PastLimit
    <2> QED
      BY <1>1, <2>2, <2>3, <2>4
  <1>3. ASSUME NEW c \in Checkouts, NEW company \in Companies, NEW withCode \in BOOLEAN,
               CheckPrices(c, company, withCode)
        PROVE  CheckoutInv'
    <2> DEFINE v == co[c]
               cost == CalculateShippingCost(company, ComputeCartWeightGrams(v.lines), Distance)
               r == [v EXCEPT !.phase = IF withCode THEN "finding" ELSE "placing", !.shipping = cost]
    <2>1. /\ v \in CheckoutRow /\ v.phase = "pricing" /\ v.lines \in [Lines -> Nat] /\ CallOK(v)
      BY <1>0, <1>3 DEF CheckPrices, CheckoutRow
    <2>2. cost \in Nat
      <3>1. ComputeCartWeightGrams(v.lines) \in Nat
        BY <2>1, TermsAreNatural, SubtotalTyped DEF ComputeCartWeightGrams
      <3> QED
        BY <3>1, ShippingTyped
    <2>3. /\ co' = [co EXCEPT ![c] = r]
          /\ UNCHANGED <<basket, goods, terms, codeState, usageCount, usages>>
      BY <1>0, <1>3 DEF CheckPrices
    <2> HIDE DEF cost, v
    <2>4. /\ r \in CheckoutRow /\ r.phase \in {"finding", "placing"} /\ r.user = v.user
          /\ r.eligible = v.eligible
      BY <2>1, <2>2 DEF CheckoutRow
    <2> HIDE DEF r
    <2>5. CallOK(r) /\ ~PastLimit(r)
      BY <2>1, <2>4 DEF CallOK, PastLimit, WithCode, CheckoutRow
    <2> QED
      BY <1>1, <2>3, <2>4, <2>5
  <1>4. ASSUME NEW c \in Checkouts, FindActiveCodeOrThrow(c) PROVE CheckoutInv'
    <2> DEFINE v == co[c]
               r == [v EXCEPT !.phase = "counting", !.terms = terms]
    <2>1. v \in CheckoutRow /\ v.phase = "finding" /\ CallOK(v) /\ usageCount < MaxUsage
      BY <1>0, <1>4 DEF FindActiveCodeOrThrow, UsageLeft
    <2>2. /\ co' = [co EXCEPT ![c] = r]
          /\ UNCHANGED <<basket, goods, terms, codeState, usageCount, usages>>
      BY <1>0, <1>4 DEF FindActiveCodeOrThrow
    <2> HIDE DEF v
    <2>3. /\ r \in CheckoutRow /\ r.phase = "counting" /\ r.user = v.user
          /\ r.eligible = v.eligible
      BY <1>0, <2>1 DEF CheckoutRow
    <2> HIDE DEF r
    <2>4. CallOK(r)
      BY <2>1, <2>3 DEF CallOK
    <2> QED
      BY <1>1, <2>1, <2>2, <2>3, <2>4
  <1>5. ASSUME NEW c \in Checkouts, AssertUserEligibility(c) PROVE CheckoutInv'
    <2> DEFINE v == co[c]
               r == [v EXCEPT !.phase = "evaluating"]
    <2>1. v \in CheckoutRow /\ v.phase = "counting" /\ CallOK(v) /\ usages[v.user] < MaxUsagePerUser
      BY <1>0, <1>5 DEF AssertUserEligibility, UsageLeft
    <2>2. /\ co' = [co EXCEPT ![c] = r]
          /\ UNCHANGED <<basket, goods, terms, codeState, usageCount, usages>>
      BY <1>0, <1>5 DEF AssertUserEligibility
    <2>3. v = co[c]
      OBVIOUS
    <2> HIDE DEF v
    <2>4. /\ r \in CheckoutRow /\ r.phase = "evaluating" /\ r.user = v.user
          /\ r.eligible = v.eligible
      BY <2>1 DEF CheckoutRow
    <2> HIDE DEF r
    <2>5. CallOK(r)
      BY <2>1, <2>4 DEF CallOK
    <2> QED
      BY <1>1, <2>1, <2>2, <2>3, <2>4, <2>5
  <1>6. ASSUME NEW c \in Checkouts, EvaluateDiscountCode(c) PROVE CheckoutInv'
    <2> DEFINE v == co[c]
               lines == basket[v.user]
               eligible == {l \in Held(lines) : IsItemEligible(v.terms, l)}
               discount == CalculateDiscountAmount(v.terms, Subtotal(eligible, lines, Units(lines)))
               r == [v EXCEPT !.phase = "placing", !.eligible = eligible, !.terms = AnyTerms,
                              !.discount = discount]
    <2>1. v \in CheckoutRow /\ v.phase = "evaluating" /\ CallOK(v) /\ v.user \in Buyers /\ v.terms \in CodeTerms
      BY <1>0, <1>6 DEF EvaluateDiscountCode, CallOK, CheckoutRow
    <2>2. /\ co' = [co EXCEPT ![c] = r]
          /\ UNCHANGED <<basket, goods, terms, codeState, usageCount, usages>>
      BY <1>0, <1>6 DEF EvaluateDiscountCode
    <2>3. v = co[c]
      OBVIOUS
    <2>4. lines \in [Lines -> Nat] /\ Units(lines) \in [Lines -> Nat] /\ eligible \in SUBSET Lines
      <3>1. lines \in [Lines -> Nat]
        BY <1>0, <2>1
      <3> QED
        BY <1>0, <3>1, UnitsTyped DEF Held
    <2>5. discount \in Nat
      <3>1. Subtotal(eligible, lines, Units(lines)) \in Nat
        BY <2>4, SubtotalTyped
      <3> QED
        BY <2>1, <3>1, DiscountTyped
    <2> HIDE DEF v, eligible, discount
    <2>6. /\ r \in CheckoutRow /\ r.phase = "placing" /\ r.user = v.user
      BY <2>1, <2>4, <2>5, AnyTermsTyped DEF CheckoutRow
    <2> HIDE DEF r
    <2>7. CallOK(r) /\ PastLimit(v) /\ v.phase # "counting"
      BY <2>1, <2>6 DEF CallOK, PastLimit
    <2> QED
      BY <1>1, <2>2, <2>3, <2>6, <2>7
  <1>7. ASSUME NEW c \in Checkouts, CommitOrder(c) PROVE CheckoutInv'
    <2> DEFINE v == co[c]
               r == [v EXCEPT !.phase = "placed", !.shares = Shares(v), !.total = TotalAmount(v)]
    <2>1. v \in CheckoutRow /\ v.phase = "placing" /\ CallOK(v) /\ v.user \in Buyers
      BY <1>0, <1>7 DEF CommitOrder, CallOK
    <2>2. /\ co' = [co EXCEPT ![c] = r]
          /\ basket' = [basket EXCEPT ![v.user] = NoLines]
          /\ UNCHANGED <<goods, terms, codeState>>
          /\ \/ ~WithCode(v) /\ UNCHANGED <<usageCount, usages>>
             \/ /\ WithCode(v) /\ usageCount' = usageCount + 1
                /\ usages' = [usages EXCEPT ![v.user] = @ + 1]
      BY <1>0, <1>7 DEF CommitOrder
    <2>3. v = co[c]
      OBVIOUS
    <2>4. Shares(v) \in [Lines -> Nat] /\ TotalAmount(v) \in Nat
      BY <2>1, SharesTyped
    <2> HIDE DEF v
    <2>5. /\ r \in CheckoutRow /\ r.phase = "placed" /\ r.user = v.user /\ r.eligible = v.eligible
          /\ r.discount = v.discount /\ r.lines = v.lines /\ r.units = v.units
          /\ r.shares = Shares(v)
      BY <2>1, <2>4 DEF CheckoutRow
    <2> HIDE DEF r
    <2>6. CallOK(r) /\ ~PastLimit(r)
      <3>1. Shares(r) = Shares(v)
        BY <2>5 DEF Shares
      <3> QED
        BY <2>1, <2>5, <3>1 DEF CallOK, PastLimit
    <2>7. /\ co' \in [Checkouts -> CheckoutRow] /\ CallsOK'
          /\ co'[c] = r /\ \A d \in Checkouts \ {c} : co'[d] = co[d]
      BY <1>0, <2>2, <2>5, <2>6, CallMoves
    <2>8. usageCount' \in Nat /\ usages' \in [Buyers -> Nat]
      BY <1>0, <2>1, <2>2
    <2>9. CheckoutTyping'
      BY <1>0, <2>1, <2>2, <2>7, <2>8, NoLinesTyped DEF CheckoutTyping
    <2>10. LimitsInv'
      <3>1. CASE WithCode(v)
        BY <2>1, <2>2, <2>3, <2>5, <2>7, <3>1, UseCounted
      <3>2. CASE ~WithCode(v)
        <4>1. \A d \in Checkouts : co'[d] = co[d] \/ ~PastLimit(co'[d])
          BY <2>6, <2>7
        <4> QED
          BY <2>2, <3>2, <4>1, LimitsKept
      <3> QED
        BY <3>1, <3>2
    <2> QED
      BY <2>7, <2>9, <2>10 DEF CheckoutInv
  <1>8. ASSUME NEW c \in Checkouts, EndCheckout(c) PROVE CheckoutInv'
    BY <1>1, <1>8, NoCheckoutTyped DEF EndCheckout
  <1>9. ASSUME CheckoutTyping', UNCHANGED <<usageCount, usages, co>> PROVE CheckoutInv'
    BY <1>0, <1>9 DEF CheckoutInv, CallsOK, LimitsInv
  <1>10. ASSUME NEW u \in Buyers, NEW lines \in Baskets, ChangeBasket(u, lines) PROVE CheckoutInv'
    <2>1. lines \in [Lines -> Nat]
      BY CheckoutConstantsOK
    <2>2. basket' \in [Buyers -> [Lines -> Nat]]
      BY <1>0, <1>10, <2>1 DEF ChangeBasket
    <2> QED
      BY <1>0, <1>9, <1>10, <2>2 DEF ChangeBasket, CheckoutTyping
  <1>11. ASSUME NEW l \in Lines, NEW g \in GoodsOf[l], ChangePrice(l, g) PROVE CheckoutInv'
    <2>1. /\ goods' \in [Lines -> UNION {GoodsOf[k] : k \in Lines}]
          /\ \A k \in Lines : goods'[k] \in GoodsOf[k]
      BY <1>0, <1>11 DEF ChangePrice, CheckoutTyping
    <2> QED
      BY <1>0, <1>9, <1>11, <2>1 DEF ChangePrice, CheckoutTyping
  <1>12. ASSUME CreateDiscountCode \/ DeleteDiscountCode \/ \E t \in CodeTerms : UpdateDiscountCode(t)
         PROVE  CheckoutInv'
    BY <1>0, <1>9, <1>12
    DEF CreateDiscountCode, DeleteDiscountCode, UpdateDiscountCode, CheckoutTyping
  <1>13. ASSUME DeleteCodeRow PROVE CheckoutInv'
    <2>1. /\ usageCount' = 0 /\ usages' = [u \in Buyers |-> 0] /\ UNCHANGED <<basket, goods, terms, co>>
          /\ codeState' = "deleted"
      BY <1>13 DEF DeleteCodeRow
    <2>2. CheckoutTyping' /\ CallsOK'
      BY <1>0, <2>1 DEF CheckoutTyping, CallsOK
    <2>3. /\ MaxUsage \in Nat \ {0} /\ MaxUsagePerUser \in Nat \ {0} /\ Cardinality(Checkouts) \in Nat
      BY CheckoutConstantsOK, FS_CardinalityType
    <2>4. /\ Cardinality(Past) <= Cardinality(Checkouts) /\ Cardinality(Past) \in Nat
          /\ \A u \in Buyers : /\ Cardinality(PastFor(u)) <= Cardinality(Checkouts)
                               /\ Cardinality(PastFor(u)) \in Nat
      BY PastFinite DEF Past, PastFor
    <2>5. Past' = Past /\ \A u \in Buyers : PastFor(u)' = PastFor(u)
      BY <2>1 DEF Past, PastFor
    <2>6. SumFunctionOnSet(usages', Buyers) = 0
      <3>1. PICK f : f = usages'
        OBVIOUS
      <3>2. \A u \in Buyers : f[u] = 0
        BY <2>1, <3>1
      <3>3. SumFunctionOnSet(f, Buyers) = 0
        BY <3>2, SumZero, CheckoutConstantsOK
      <3> QED
        BY <3>1, <3>3
    <2>7. usageCount' + Cardinality(Past') <= MaxUsage + Cardinality(Checkouts) - 1
      BY <2>1, <2>3, <2>4, <2>5
    <2>8. \A u \in Buyers : usages'[u] + Cardinality(PastFor(u)')
                               <= MaxUsagePerUser + Cardinality(Checkouts) - 1
      BY <2>1, <2>3, <2>4, <2>5
    <2> QED
      BY <2>1, <2>2, <2>6, <2>7, <2>8 DEF CheckoutInv, LimitsInv, Past, PastFor
  <1>14. CASE UNCHANGED checkoutVars
    BY <1>0, <1>9, <1>14 DEF checkoutVars, CheckoutTyping
  <1> QED
    BY <1>2, <1>3, <1>4, <1>5, <1>6, <1>7, <1>8, <1>10, <1>11, <1>12, <1>13, <1>14 DEF CheckoutNext

LEMMA CheckoutInvariant == CheckoutSpec => []CheckoutInv
  BY CheckoutInitInv, CheckoutNextInv, PTL DEF CheckoutSpec

\* Checkouts in flight together pass a code's limits, and a customer's, by no more
\* than the others that are in flight, also when the code is deleted meanwhile, and the
\* counter stays the number of rows (findActiveCodeOrThrow, assertUserEligibility,
\* recordDiscountCodeUsage).
THEOREM CodesStayLimited == CheckoutSpec => []UsageLimitsHold
  <1>1. ASSUME CheckoutInv PROVE UsageLimitsHold
    <2>1. /\ usageCount = SumFunctionOnSet(usages, Buyers)
          /\ usageCount + Cardinality(Past) <= MaxUsage + Cardinality(Checkouts) - 1
          /\ \A u \in Buyers : usages[u] + Cardinality(PastFor(u))
                                  <= MaxUsagePerUser + Cardinality(Checkouts) - 1
      BY <1>1 DEF CheckoutInv, LimitsInv, Past, PastFor
    <2>2. Cardinality(Past) \in Nat /\ \A u \in Buyers : Cardinality(PastFor(u)) \in Nat
      BY PastFinite DEF Past, PastFor
    <2>3. /\ usageCount \in Nat /\ usages \in [Buyers -> Nat] /\ Cardinality(Checkouts) \in Nat
          /\ MaxUsage \in Nat /\ MaxUsagePerUser \in Nat
      BY <1>1, CheckoutConstantsOK, FS_CardinalityType DEF CheckoutInv, CheckoutTyping
    <2>4. usageCount <= MaxUsage + (Cardinality(Checkouts) - 1)
      BY <2>1, <2>2, <2>3
    <2>5. \A u \in Buyers : usages[u] <= MaxUsagePerUser + (Cardinality(Checkouts) - 1)
      BY <2>1, <2>2, <2>3
    <2> QED
      BY <2>1, <2>4, <2>5 DEF UsageLimitsHold
  <1> QED
    BY <1>1, CheckoutInvariant, PTL

\* The discount of a placed order is spread over its eligible lines to the last toman,
\* whatever became of basket, prices and code on the way (allocateProportionally).
THEOREM DiscountsAreSharedOut == CheckoutSpec => []DiscountIsAllocated
  <1>1. ASSUME CheckoutInv PROVE DiscountIsAllocated
    <2> SUFFICES ASSUME NEW c \in Checkouts, co[c].phase = "placed"
                 PROVE  LET o == co[c]
                            S == o.eligible \cap Held(o.lines)
                        IN  /\ Subtotal(S, o.lines, o.units) > 0 => SumFunctionOnSet(o.shares, S) = o.discount
                            /\ \A l \in Lines \ S : o.shares[l] = 0
                            /\ \A l \in S : o.shares[l] >= 0
      BY DEF DiscountIsAllocated
    <2>1. PICK o \in CheckoutRow : o = co[c]
      BY <1>1 DEF CheckoutInv, CheckoutTyping
    <2> DEFINE S == o.eligible \cap Held(o.lines)
               weight == LineTotals(o.lines, o.units)
    <2>2. o.shares = AllocateProportionally(o.discount, S, weight)
      BY <1>1, <2>1 DEF CheckoutInv, CallsOK, CallOK, Shares
    <2>3. /\ o.discount \in Nat /\ S \in SUBSET Lines /\ weight \in [Lines -> Nat]
          /\ o.lines \in [Lines -> Nat] /\ o.units \in [Lines -> Nat]
      <3>1. o.lines \in [Lines -> Nat] /\ o.units \in [Lines -> Nat] /\ o.discount \in Nat
        BY DEF CheckoutRow
      <3> QED
        BY <3>1, SubtotalTyped DEF Held
    <2>4. Subtotal(S, o.lines, o.units) = SumFunctionOnSet(weight, S)
      BY DEF Subtotal
    <2> HIDE DEF S, weight
    <2>5. /\ o.shares \in [Lines -> Nat]
          /\ SumFunctionOnSet(weight, S) > 0 => SumFunctionOnSet(o.shares, S) = o.discount
          /\ \A l \in Lines \ S : o.shares[l] = 0
      <3>1. PICK n \in Nat, T \in SUBSET Lines, w \in [Lines -> Nat] :
                n = o.discount /\ T = S /\ w = weight
        BY <2>3
      <3>2. PICK shares : shares = AllocateProportionally(n, T, w)
        OBVIOUS
      <3>3. /\ shares \in [Lines -> Nat]
            /\ SumFunctionOnSet(w, T) > 0 => SumFunctionOnSet(shares, T) = n
            /\ \A l \in Lines \ T : shares[l] = 0
        BY <3>2, Allocates
      <3>4. o.shares = shares
        BY <2>2, <3>1, <3>2
      <3> QED
        BY <3>1, <3>3, <3>4
    <2>6. \A l \in S : o.shares[l] >= 0
      BY <2>3, <2>5
    <2> QED
      BY <2>1, <2>4, <2>5, <2>6 DEF S
  <1> QED
    BY <1>1, CheckoutInvariant, PTL
-------------------------------------------------------------------------------
(***************************************************************************)
(* Prices: with P the unrounded price, listings subtract a part of P, the  *)
(* cart subtracts the same part of P rounded.                              *)
(***************************************************************************)
LEMMA RoundedIs ==
  \A x \in Nat, q \in Nat :
      Rounded(x) = q <=> q * Scale <= x + 500000 /\ x + 500000 < q * Scale + Scale
  BY DEF Rounded, Scale

LEMMA RoundedNat == \A x \in Nat : Rounded(x) \in Nat
  BY DEF Rounded, Scale

LEMMA RoundedWhole == \A n \in Nat : Rounded(n * Scale) = n
  BY DEF Rounded, Scale

LEMMA RoundedMonotone == \A x, y \in Nat : x <= y => Rounded(x) <= Rounded(y)
  BY DEF Rounded, Scale

LEMMA RoundedNear ==
  \A x, y \in Nat : x - y < Scale /\ y - x < Scale => Rounded(x) - Rounded(y) \in -1 .. 1
  BY DEF Rounded, Scale

LEMMA ProductBound ==
  ASSUME NEW d \in Int, NEW w \in 0 .. 100, -5001 <= d, d <= 5001
  PROVE  -500100 <= d * w /\ d * w <= 500100
  OBVIOUS

\* The discount of a rounded price differs from the rounded discount of the price by
\* one at most, and neither exceeds the price.
LEMMA Discounts ==
  ASSUME NEW P \in Nat, NEW value \in Nat, NEW type
  PROVE  LET listed == ApplyProductDiscount(P, type, value)
             charged == ComputeProductEffectivePrice(Rounded(P), type, value)
         IN  listed >= 0 /\ charged >= 0 /\ listed - charged \in -1 .. 1
  <1> DEFINE q == Rounded(P)
  <1>0. q \in Nat
    BY RoundedNat
  <1>1. CASE type = "none" \/ value = 0
    <2>1. Rounded(0) = 0
      <3>1. 0 * Scale <= 0 + 500000 /\ 0 + 500000 < 0 * Scale + Scale
        BY DEF Scale
      <3> QED
        BY <3>1, RoundedIs
    <2>2. ApplyProductDiscount(P, type, value) = q - 0
      BY <1>1, <2>1 DEF ApplyProductDiscount
    <2>3. ComputeProductEffectivePrice(q, type, value) = q
      BY <1>1 DEF ComputeProductEffectivePrice
    <2> HIDE DEF q
    <2> QED
      BY <1>0, <2>2, <2>3 DEF q
  <1>2. CASE ~(type = "none" \/ value = 0) /\ type = "PERCENT"
    <2> DEFINE w == AtMost(value, 100)
               a == P \div 100
               x == a * w
               y == 10000 * q * value
               z == 10000 * q * w
    <2>1. w \in 0 .. 100 /\ w <= value /\ (value > 100 => w = 100) /\ (value <= 100 => w = value)
      BY DEF AtMost
    <2>2. a \in Nat /\ 100 * a <= P /\ P < 100 * a + 100
      OBVIOUS
    <2>3. PercentOf(P, w) = x
      BY DEF PercentOf
    <2>4. PercentOf(q * Scale, value) = y
      <3>1. (q * Scale) \div 100 = 10000 * q
        BY <1>0 DEF Scale
      <3> QED
        BY <3>1 DEF PercentOf
    <2>5. ApplyProductDiscount(P, type, value) = q - Rounded(AtLeast(0, AtMost(x, P)))
      BY <1>2, <2>3 DEF ApplyProductDiscount
    <2>6. ComputeProductEffectivePrice(q, type, value) = AtLeast(0, q - Rounded(y))
      BY <1>2, <2>4 DEF ComputeProductEffectivePrice
    <2>7. q * 1000000 <= P + 500000 /\ P + 500000 < q * 1000000 + 1000000
      BY <1>0, RoundedIs DEF Scale
    <2> HIDE DEF q, w, a
    <2>8. x \in Nat /\ x <= P
      <3>1. x \in Nat /\ x <= 100 * a
        BY <2>1, <2>2
      <3> QED
        BY <2>2, <3>1
    <2>9. z \in Nat /\ z <= q * Scale /\ y \in Nat /\ z <= y
      <3>1. q * w \in Nat /\ q * w <= q * 100 /\ q * w <= q * value /\ q * value \in Nat
        BY <1>0, <2>1
      <3>2. z = 10000 * (q * w) /\ y = 10000 * (q * value)
        BY <1>0, <2>1
      <3> QED
        BY <1>0, <3>1, <3>2 DEF Scale
    <2>10. x - z < Scale /\ z - x < Scale
      <3> DEFINE d == a - 10000 * q
      <3>1. d \in Int /\ -5001 <= d /\ d <= 5001
        BY <1>0, <2>2, <2>7
      <3>2. x - z = d * w
        BY <1>0, <2>1, <2>2
      <3> HIDE DEF d, x, z
      <3>3. -500100 <= d * w /\ d * w <= 500100 /\ d * w \in Int
        BY <2>1, <3>1, ProductBound
      <3> QED
        BY <2>8, <2>9, <3>2, <3>3 DEF Scale
    <2> HIDE DEF x, y, z
    <2>11. AtLeast(0, AtMost(x, P)) = x
      BY <2>8 DEF AtLeast, AtMost
    <2>12. /\ Rounded(x) \in Nat /\ Rounded(x) <= q /\ Rounded(x) - Rounded(z) \in -1 .. 1
           /\ Rounded(z) \in Nat /\ Rounded(z) <= q
      <3>1. Rounded(x) <= q
        BY <2>8, RoundedMonotone DEF q
      <3>2. q * Scale \in Nat /\ Rounded(q * Scale) = q
        BY <1>0, RoundedWhole DEF Scale
      <3>3. Rounded(z) <= q
        BY <2>9, <3>2, RoundedMonotone
      <3> QED
        BY <2>8, <2>9, <2>10, <3>1, <3>3, RoundedNat, RoundedNear
    <2>13. AtLeast(0, q - Rounded(y)) = q - Rounded(z)
      <3>1. CASE value <= 100
        <4>1. y = z
          BY <2>1, <3>1 DEF y, z
        <4> QED
          BY <1>0, <2>12, <4>1 DEF AtLeast
      <3>2. CASE value > 100
        <4>1. z = q * Scale
          BY <1>0, <2>1, <3>2 DEF z, Scale
        <4>2. Rounded(z) = q
          BY <1>0, <4>1, RoundedWhole
        <4>3. Rounded(y) \in Nat /\ q <= Rounded(y)
          BY <2>9, <4>2, RoundedMonotone, RoundedNat
        <4> QED
          BY <1>0, <4>2, <4>3 DEF AtLeast
      <3> QED
        BY <3>1, <3>2
    <2>14. ApplyProductDiscount(P, type, value) = q - Rounded(x)
      BY <2>5, <2>11
    <2>15. ComputeProductEffectivePrice(q, type, value) = q - Rounded(z)
      BY <2>6, <2>13
    <2>16. q - Rounded(x) >= 0 /\ q - Rounded(z) >= 0 /\ (q - Rounded(x)) - (q - Rounded(z)) \in -1 .. 1
      BY <1>0, <2>12
    <2> QED
      BY <2>14, <2>15, <2>16 DEF q
  <1>3. CASE ~(type = "none" \/ value = 0) /\ type # "PERCENT"
    <2> DEFINE x == value * Scale
    <2>1. ApplyProductDiscount(P, type, value) = q - Rounded(AtLeast(0, AtMost(x, P)))
      BY <1>3 DEF ApplyProductDiscount
    <2>2. ComputeProductEffectivePrice(q, type, value) = AtLeast(0, q - value)
      BY <1>3 DEF ComputeProductEffectivePrice
    <2>3. x \in Nat /\ Rounded(x) = value
      BY RoundedWhole DEF Scale
    <2> HIDE DEF x
    <2>4. CASE x <= P
      <3>1. AtLeast(0, AtMost(x, P)) = x
        BY <2>3, <2>4 DEF AtLeast, AtMost
      <3>2. value <= q
        BY <2>3, <2>4, RoundedMonotone
      <3> HIDE DEF q
      <3>3. ApplyProductDiscount(P, type, value) = q - value
        BY <2>1, <2>3, <3>1
      <3>4. ComputeProductEffectivePrice(q, type, value) = q - value
        BY <1>0, <2>2, <3>2 DEF AtLeast
      <3>5. q - value >= 0 /\ (q - value) - (q - value) \in -1 .. 1
        BY <1>0, <3>2
      <3> QED
        BY <3>3, <3>4, <3>5 DEF q
    <2>5. CASE ~(x <= P)
      <3>1. AtLeast(0, AtMost(x, P)) = P
        BY <2>3, <2>5 DEF AtLeast, AtMost
      <3>2. q <= value
        BY <2>3, <2>5, RoundedMonotone
      <3>3. ApplyProductDiscount(P, type, value) = q - q
        BY <2>1, <3>1
      <3> HIDE DEF q
      <3>4. ComputeProductEffectivePrice(q, type, value) = 0
        BY <1>0, <2>2, <3>2 DEF AtLeast
      <3>5. q - q = 0 /\ 0 - 0 \in -1 .. 1
        BY <1>0
      <3> QED
        BY <3>3, <3>4, <3>5 DEF q
    <2> QED
      BY <2>4, <2>5
  <1> QED
    BY <1>1, <1>2, <1>3

\* The price the listing shows and the price cart and order charge differ by one toman
\* at most, for every price, rate, modifier and discount that leaves the price natural
\* (pricingEngine.ts applyProductDiscount, utils/pricing.ts computeProductEffectivePrice).
THEOREM ChargedAsListed == SalesSpec => []ListedPriceIsCharged
  <1>1. SalesInit => quote \in Quotes
    BY DEF SalesInit
  <1>2. quote \in Quotes /\ [SalesNext]_salesVars => (quote \in Quotes)'
    BY DEF SalesNext, salesVars
  <1>3. ASSUME quote \in Quotes PROVE ListedPriceIsCharged
    <2> DEFINE before == PriceBeforeDiscount(quote.product, quote.rate, BuildVariantModifiers(quote.variant))
    <2>1. before \in Nat /\ quote.product.discountValue \in Nat
      BY <1>3, QuotesAreNatural
    <2>2. PICK P \in Nat, value \in Nat : P = before /\ value = quote.product.discountValue
      BY <2>1
    <2>4. PICK type : type = quote.product.discountType
      OBVIOUS
    <2>3. /\ ListedPrice(quote.product, quote.rate, quote.variant) = ApplyProductDiscount(P, type, value)
          /\ CartUnitPrice(quote.product, quote.rate, quote.variant)
                = ComputeProductEffectivePrice(Rounded(P), type, value)
      BY <2>2, <2>4 DEF ListedPrice, CalculateFinalPrice, CartUnitPrice, ComputeVariantOriginalPrice
    <2> QED
      BY <2>3, Discounts DEF ListedPriceIsCharged
  <1> QED
    BY <1>1, <1>2, <1>3, PTL DEF SalesSpec

\* Rows and handlers of all parts keep their shape, and no total, price, quantity or
\* count falls below zero, for any number of returns, carts, buyers, lines and requests.
THEOREM SalesTypes == SalesSpec => []SalesTypeOK
  <1>1. SalesInit => ReturnsInit /\ CartsInit /\ CheckoutInit
    BY DEF SalesInit
  <1>2. [SalesNext]_salesVars =>
            [ReturnsNext]_returnsVars /\ [CartsNext]_cartsVars /\ [CheckoutNext]_checkoutVars
    BY DEF SalesNext, salesVars
  <1>3. ReturnsTypeOK /\ CartsInv /\ CheckoutInv => SalesTypeOK
    <2>1. CheckoutTyping => CheckoutTypeOK
      BY DEF CheckoutTyping, CheckoutTypeOK, CheckoutRow
    <2> QED
      BY <2>1 DEF SalesTypeOK, CartsInv, CheckoutInv
  <1> QED
    BY <1>1, <1>2, <1>3, ReturnsInitTyped, ReturnsTyped, CartsInitInv, CartsNextInv,
       CheckoutInitInv, CheckoutNextInv, PTL DEF SalesSpec
===============================================================================
