-------------------------------- MODULE Carts ---------------------------------
(***************************************************************************)
(* The cart of a customer and the cart she filled as a guest: each handler *)
(* reads the shelf and the line, and writes the line later.  The merge     *)
(* goes line by line, with no transaction around it.                       *)
(*                                                                         *)
(* A row of Cart is created with its first line here; an empty row and no  *)
(* row differ in nothing else.                                             *)
(***************************************************************************)
EXTENDS Integers, FiniteSets

CONSTANTS
    Variants,
    MaxShelf,          \* the most units a variant ever has in stock
    Quantities,        \* what a request may ask for
    CartHandlers       \* requests that can be in flight together

ASSUME CartConstantsOK == MaxShelf \in Nat /\ Quantities \subseteq Nat \ {0}

VARIABLES
    shelf,             \* ProductVariant.stock; 0 also stands for one that is not for sale
    line,              \* the CartItem rows of both carts: a quantity, or NoRow
    guestCart,         \* whether the guest's Cart row exists
    cartReq            \* the handlers in flight

cartsVars == <<shelf, line, guestCart, cartReq>>
-------------------------------------------------------------------------------
Owners == {"user", "guest"}

NoRow == -1

CartRequest == [phase : {"idle", "adding", "updating", "merging", "mergingLine"},
                owner : Owners, variant : Variants \cup {"any"}, wanted : Nat, stock : Nat,
                existed : BOOLEAN, todo : [Variants -> Nat \cup {NoRow}]]

NoLine == [v \in Variants |-> NoRow]

\* existing?.quantity ?? 0
QuantityIn(o, v) == IF line[o][v] = NoRow THEN 0 ELSE line[o][v]

NoCartRequest == [phase |-> "idle", owner |-> "user", variant |-> "any", wanted |-> 0,
                  stock |-> 0, existed |-> FALSE, todo |-> NoLine]

AtMostStock(wanted, stock) == IF wanted < stock THEN wanted ELSE stock

CartsInit ==
    /\ shelf \in [Variants -> 0 .. MaxShelf]
    /\ line = [o \in Owners |-> NoLine]
    /\ guestCart = FALSE
    /\ cartReq = [h \in CartHandlers |-> NoCartRequest]
-------------------------------------------------------------------------------
\* What a handler writes when it found the line (update by id: it fails if the
\* line is gone) or did not find it (create: it fails if there is one by now).
\* In both cases a failure leaves the line as it is.
LineWritten(o, v, quantity, existed) ==
    IF existed = (line[o][v] # NoRow) THEN [line EXCEPT ![o][v] = quantity] ELSE line

\* addItem: variant and line are read; getOrCreateCart.
ReadForAdd(h, o, v, quantity) ==
    /\ cartReq[h].phase = "idle"
    /\ shelf[v] > 0
    /\ cartReq' = [cartReq EXCEPT ![h] =
                    [NoCartRequest EXCEPT !.phase = "adding", !.owner = o, !.variant = v,
                            !.wanted = QuantityIn(o, v) + quantity, !.stock = shelf[v],
                            !.existed = line[o][v] # NoRow]]
    /\ guestCart' = (guestCart \/ o = "guest")
    /\ UNCHANGED <<shelf, line>>

\* updateItemQuantity and removeItem (0): cart, line and stock are read together.
ReadForUpdate(h, o, v, quantity) ==
    /\ cartReq[h].phase = "idle"
    /\ line[o][v] # NoRow
    /\ cartReq' = [cartReq EXCEPT ![h] =
                    [NoCartRequest EXCEPT !.phase = "updating", !.owner = o, !.variant = v,
                            !.wanted = quantity, !.stock = shelf[v], !.existed = TRUE]]
    /\ UNCHANGED <<shelf, line, guestCart>>

\* Faulty: capped by the stock, but not what a merge adds to it.
NewQuantityUncapped(r) == IF r.phase = "mergingLine" THEN r.wanted ELSE AtMostStock(r.wanted, r.stock)

\* A line of 0 units stays when the shelf was empty; one that is asked to be 0 is
\* deleted (updateItemQuantity, removeItem).
NewQuantity(r) ==
    IF r.phase = "updating" /\ r.wanted = 0 THEN NoRow ELSE AtMostStock(r.wanted, r.stock)

\* A guest's line needs the guest's cart (foreign key).
WriteLine(h) ==
    LET r == cartReq[h]
    IN  /\ r.phase \in {"adding", "updating"}
        /\ line' = IF r.owner = "guest" /\ ~guestCart THEN line
                   ELSE LineWritten(r.owner, r.variant, NewQuantity(r), r.existed)
        /\ cartReq' = [cartReq EXCEPT ![h] = NoCartRequest]
        /\ UNCHANGED <<shelf, guestCart>>

ClearCart(o) ==
    /\ line' = [line EXCEPT ![o] = NoLine]
    /\ UNCHANGED <<shelf, guestCart, cartReq>>
-------------------------------------------------------------------------------
\* mergeGuestCartIntoUser: the guest's lines are read once ...
MergeGuestCartIntoUser(h) ==
    /\ cartReq[h].phase = "idle"
    /\ guestCart /\ line["guest"] # NoLine
    /\ cartReq' = [cartReq EXCEPT ![h] = [NoCartRequest EXCEPT !.phase = "merging",
                                                !.todo = line["guest"]]]
    /\ UNCHANGED <<shelf, line, guestCart>>

\* ... then for each of them stock and the user's line; one that cannot be sold is skipped ...
ReadForMerge(h, v) ==
    LET r == cartReq[h]
        rest == [r.todo EXCEPT ![v] = NoRow]
    IN  /\ r.phase = "merging"
        /\ r.todo[v] # NoRow
        /\ cartReq' = [cartReq EXCEPT ![h] =
                        IF shelf[v] = 0 THEN [r EXCEPT !.todo = rest]
                        ELSE [r EXCEPT !.phase = "mergingLine", !.variant = v, !.todo = rest,
                                       !.wanted = QuantityIn("user", v) + r.todo[v],
                                       !.stock = shelf[v], !.existed = line["user"][v] # NoRow]]
        /\ UNCHANGED <<shelf, line, guestCart>>

\* ... which it writes, or gives up the whole merge ...
WriteMergedLine(h) ==
    LET r == cartReq[h]
    IN  /\ r.phase = "mergingLine"
        /\ line' = LineWritten("user", r.variant, NewQuantity(r), r.existed)
        /\ cartReq' = [cartReq EXCEPT ![h] =
                        IF r.existed = (line["user"][r.variant] # NoRow)
                        THEN [NoCartRequest EXCEPT !.phase = "merging", !.todo = r.todo]
                        ELSE NoCartRequest]
        /\ UNCHANGED <<shelf, guestCart>>

MergedAll(r) == r.todo = NoLine

\* ... and in the end the guest's cart goes, with whatever is in it by now.
DropGuestCart(h) ==
    /\ cartReq[h].phase = "merging"
    /\ MergedAll(cartReq[h])
    /\ guestCart' = FALSE
    /\ line' = [line EXCEPT !["guest"] = NoLine]
    /\ cartReq' = [cartReq EXCEPT ![h] = NoCartRequest]
    /\ UNCHANGED shelf

\* A crash between two of the calls; the merge stays half done.
CartFails(h) ==
    /\ cartReq[h].phase # "idle"
    /\ cartReq' = [cartReq EXCEPT ![h] = NoCartRequest]
    /\ UNCHANGED <<shelf, line, guestCart>>

\* Orders, cancellations and admins change the stock.
StockMoves(v, stock) ==
    /\ shelf' = [shelf EXCEPT ![v] = stock]
    /\ UNCHANGED <<line, guestCart, cartReq>>

CartsNext ==
    \/ \E h \in CartHandlers, o \in Owners, v \in Variants :
            \/ \E quantity \in Quantities : ReadForAdd(h, o, v, quantity)
            \/ \E quantity \in Quantities \cup {0} : ReadForUpdate(h, o, v, quantity)
    \/ \E h \in CartHandlers : \/ WriteLine(h) \/ MergeGuestCartIntoUser(h)
                               \/ WriteMergedLine(h) \/ DropGuestCart(h) \/ CartFails(h)
    \/ \E h \in CartHandlers, v \in Variants : ReadForMerge(h, v)
    \/ \E o \in Owners : ClearCart(o)
    \/ \E v \in Variants, stock \in 0 .. MaxShelf : StockMoves(v, stock)

CartsSpec == CartsInit /\ [][CartsNext]_cartsVars
-------------------------------------------------------------------------------
CartsTypeOK ==
    /\ shelf \in [Variants -> 0 .. MaxShelf]
    /\ line \in [Owners -> [Variants -> Nat \cup {NoRow}]]
    /\ guestCart \in BOOLEAN
    /\ cartReq \in [CartHandlers -> CartRequest]

\* Whatever adds, updates and half-done merges do to each other's lines, a line never
\* asks for more units than the variant ever had (the caps of addItem,
\* updateItemQuantity and mergeGuestCartIntoUser), and a guest without a cart has no lines.
LinesWithinShelf ==
    /\ \A o \in Owners, v \in Variants : line[o][v] <= MaxShelf
    /\ ~guestCart => line["guest"] = NoLine
===============================================================================
