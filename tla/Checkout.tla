------------------------------- MODULE Checkout -------------------------------
(***************************************************************************)
(* The amounts of an order, and discount codes.  Orders takes an order's   *)
(* total as given; here createOrder computes it: prices checked again,     *)
(* shipping, a discount code evaluated and counted, the discount spread    *)
(* over the lines.  The cart is read twice (by createOrder and by          *)
(* evaluateDiscountCode), the code long before its use is counted.         *)
(*                                                                         *)
(* Stock, payment and cancellation are in Orders; carts in Carts: a basket *)
(* here may change in any way between two reads.                           *)
(***************************************************************************)
EXTENDS Pricing, FiniteSetsExt

CONSTANTS
    Buyers,
    Lines,             \* the variants a basket may hold, in the order of its lines
    Baskets,           \* baskets a customer may put together, [Lines -> Nat]
    CategoriesOf,      \* the categories of a line's product
    GramsOf,           \* ProductVariant.weight
    GoodsOf,           \* the prices an admin or a rate may give the product of a line
    Companies,         \* shipping companies, as calculateShippingCost sees them
    CodeTerms,         \* what an admin may enter for the code
    MaxUsage, MaxUsagePerUser,
    PriceChangeThreshold,   \* PRICE_CHANGE_THRESHOLD_PERCENT
    Distance,          \* what computeServerSideDistance returns
    Checkouts,         \* createOrder calls that can be in flight together
    MaxOrders,         \* bound on the orders that use the code
    Nobody

ASSUME CheckoutConstantsOK ==
    /\ Lines \subseteq Nat
    /\ MaxUsage \in Nat \ {0} /\ MaxUsagePerUser \in Nat \ {0}
    /\ Nobody \notin Buyers
    /\ IsFiniteSet(Lines) /\ IsFiniteSet(Buyers) /\ IsFiniteSet(Checkouts)
    /\ Baskets \subseteq [Lines -> Nat]

\* What the validations of companies and codes let through.
ASSUME TermsAreNatural ==
    /\ GramsOf \in [Lines -> Nat] /\ Distance \in Nat
    /\ \A company \in Companies :
            company.baseCost \in Nat /\ company.pricePerKg \in Nat /\ company.pricePerKm \in Nat
    /\ CodeTerms # {}
    /\ \A t \in CodeTerms : t.value \in Nat /\ t.maxDiscountAmount \in Nat

\* No modifier takes a price below zero.  (Nothing in the code keeps an admin from
\* entering one that does: modifierValue is any number.)
ASSUME PricesAreNatural ==
    \A l \in Lines :
        /\ GoodsOf[l] # {}
        /\ \A g \in GoodsOf[l] :
              /\ g.product.discountValue \in Nat
              /\ PriceBeforeDiscount(g.product, g.rate, BuildVariantModifiers(g.variant)) \in Nat

VARIABLES
    basket,            \* the cart of each buyer
    goods,             \* the product and variant behind each line
    terms,             \* the code's row, as far as an admin edits it
    codeState,         \* whether the code's row exists
    usageCount,        \* DiscountCode.usageCount
    usages,            \* how many DiscountCodeUsage rows each buyer has
    deleting,          \* a deleteDiscountCode call has found usageCount = 0
    co                 \* the createOrder calls in flight

checkoutVars == <<basket, goods, terms, codeState, usageCount, usages, deleting, co>>
-------------------------------------------------------------------------------
NoLines == [l \in Lines |-> 0]

AnyTerms == CHOOSE t \in CodeTerms : TRUE

NoCheckout == [phase |-> "idle", user |-> Nobody, lines |-> NoLines, units |-> NoLines,
               shipping |-> 0, terms |-> AnyTerms, discount |-> 0, eligible |-> {},
               shares |-> NoLines, total |-> 0]

Unit(l) == CartUnitPrice(goods[l].product, goods[l].rate, goods[l].variant)

Units(lines) == [l \in Lines |-> IF lines[l] > 0 THEN Unit(l) ELSE 0]

Held(lines) == {l \in Lines : lines[l] > 0}

LineTotals(lines, units) == [l \in Lines |-> lines[l] * units[l]]

Subtotal(S, lines, units) == SumFunctionOnSet(LineTotals(lines, units), S)

CheckoutInit ==
    /\ basket = [u \in Buyers |-> NoLines]
    /\ goods = [l \in Lines |-> CHOOSE g \in GoodsOf[l] : TRUE]
    /\ terms \in CodeTerms
    /\ codeState = "none"
    /\ usageCount = 0
    /\ usages = [u \in Buyers |-> 0]
    /\ deleting = FALSE
    /\ co = [c \in Checkouts |-> NoCheckout]
-------------------------------------------------------------------------------
(***************************************************************************)
(* The formulas.                                                           *)
(***************************************************************************)
ComputeCartWeightGrams(lines) == Subtotal(Lines, lines, GramsOf)

\* In thousandths of a toman: pricePerKg times a weight in grams.
CalculateShippingCost(company, grams, km) ==
    IF company.pricingType = "WEIGHT_DISTANCE"
    THEN company.pricePerKg * grams + company.pricePerKm * km * 1000
    ELSE company.baseCost * 1000

\* A line is eligible by its product or by one of its categories.
IsItemEligible(code, l) ==
    \/ code.products = {} /\ code.categories = {}
    \/ l \in code.products
    \/ CategoriesOf[l] \cap code.categories # {}

CalculateDiscountAmount(code, eligibleSubtotal) ==
    LET raw == IF code.type = "PERCENT" THEN (eligibleSubtotal * code.value) \div 100 ELSE code.value
        capped == IF code.maxDiscountAmount > 0 THEN AtMost(raw, code.maxDiscountAmount) ELSE raw
    IN  IF eligibleSubtotal <= 0 THEN 0 ELSE AtMost(capped, eligibleSubtotal)

\* Faulty: the remainder of the rounding is lost.
AllocateRoundedDown(total, S, weight) ==
    LET sum == SumFunctionOnSet(weight, S)
    IN  [l \in Lines |-> IF l \in S /\ total > 0 /\ sum > 0 THEN (total * weight[l]) \div sum ELSE 0]

\* allocateProportionally: rounded down, the rest goes to the last line.
AllocateProportionally(total, S, weight) ==
    LET sum == SumFunctionOnSet(weight, S)
        share == [l \in Lines |-> IF l \in S /\ sum > 0 THEN (total * weight[l]) \div sum ELSE 0]
    IN  IF total <= 0 \/ sum <= 0 THEN NoLines
        ELSE [share EXCEPT ![Max(S)] = @ + total - SumFunctionOnSet(share, S)]
-------------------------------------------------------------------------------
(***************************************************************************)
(* createOrder.                                                            *)
(***************************************************************************)
ReadCart(c, u) ==
    /\ co[c].phase = "idle"
    /\ Held(basket[u]) # {}
    /\ co' = [co EXCEPT ![c] = [NoCheckout EXCEPT !.phase = "pricing", !.user = u,
                                    !.lines = basket[u], !.units = Units(basket[u])]]
    /\ UNCHANGED <<basket, goods, terms, codeState, usageCount, usages, deleting>>

PriceUnchanged(cartPrice, freshPrice) ==
    cartPrice > 0 => AtLeast(freshPrice - cartPrice, cartPrice - freshPrice) * 100
                        <= PriceChangeThreshold * cartPrice

\* Prices once more, then shipping; a code is optional.
CheckPrices(c, company, withCode) ==
    LET v == co[c]
    IN  /\ v.phase = "pricing"
        /\ \A l \in Held(v.lines) : PriceUnchanged(v.units[l], Unit(l))
        /\ co' = [co EXCEPT
                    ![c].phase = IF withCode THEN "finding" ELSE "placing",
                    ![c].shipping = CalculateShippingCost(company, ComputeCartWeightGrams(v.lines), Distance)]
        /\ UNCHANGED <<basket, goods, terms, codeState, usageCount, usages, deleting>>

\* Faulty: the limit is one too high.
UsageBelow(count, max) == count <= max

UsageLeft(count, max) == count < max

FindActiveCodeOrThrow(c) ==
    /\ co[c].phase = "finding"
    /\ codeState = "exists" /\ terms.isActive
    /\ UsageLeft(usageCount, MaxUsage)
    /\ co' = [co EXCEPT ![c].phase = "counting", ![c].terms = terms]
    /\ UNCHANGED <<basket, goods, terms, codeState, usageCount, usages, deleting>>

AssertUserEligibility(c) ==
    LET v == co[c]
    IN  /\ v.phase = "counting"
        /\ v.terms.users # {} => v.user \in v.terms.users
        /\ UsageLeft(usages[v.user], MaxUsagePerUser)
        /\ co' = [co EXCEPT ![c].phase = "evaluating"]
        /\ UNCHANGED <<basket, goods, terms, codeState, usageCount, usages, deleting>>

\* The discount of the basket as it is now, which need not be the one that is bought.
EvaluateDiscountCode(c) ==
    LET v == co[c]
        lines == basket[v.user]
        eligible == {l \in Held(lines) : IsItemEligible(v.terms, l)}
    IN  /\ v.phase = "evaluating"
        /\ Held(lines) # {}
        /\ Subtotal(Lines, lines, Units(lines)) >= v.terms.minCartAmount
        /\ v.terms.products \cup v.terms.categories # {} => eligible # {}
        /\ co' = [co EXCEPT ![c].phase = "placing", ![c].eligible = eligible, ![c].terms = AnyTerms,
                    ![c].discount = CalculateDiscountAmount(v.terms,
                                        Subtotal(eligible, lines, Units(lines)))]
        /\ UNCHANGED <<basket, goods, terms, codeState, usageCount, usages, deleting>>

\* Whether a code was evaluated: only then has the snapshot a line that is eligible.
WithCode(v) == v.eligible # {}

Shares(v) ==
    AllocateProportionally(v.discount, v.eligible \cap Held(v.lines), LineTotals(v.lines, v.units))

\* Faulty: the discount is thought to be within the total.
TotalUnclamped(v) == Subtotal(Lines, v.lines, v.units) + v.shipping \div 1000 - v.discount

TotalAmount(v) ==
    AtLeast(0, Subtotal(Lines, v.lines, v.units) + v.shipping \div 1000 - v.discount)

\* One transaction: the order, the use of the code, and the basket emptied.  It
\* fails when the code is gone (foreign key), and when the shipping cost is not
\* an integer (the column is).
CommitOrder(c) ==
    LET v == co[c]
    IN  /\ v.phase = "placing"
        /\ v.shipping % 1000 = 0
        /\ WithCode(v) => codeState = "exists" /\ usageCount < MaxOrders
        /\ usageCount' = IF WithCode(v) THEN usageCount + 1 ELSE usageCount
        /\ usages' = IF WithCode(v) THEN [usages EXCEPT ![v.user] = @ + 1] ELSE usages
        /\ basket' = [basket EXCEPT ![v.user] = NoLines]
        /\ co' = [co EXCEPT ![c].phase = "placed", ![c].shares = Shares(v), ![c].total = TotalAmount(v)]
        /\ UNCHANGED <<goods, terms, codeState, deleting>>

\* Any refusal, a crash, and the answer.
EndCheckout(c) ==
    /\ co[c].phase # "idle"
    /\ co' = [co EXCEPT ![c] = NoCheckout]
    /\ UNCHANGED <<basket, goods, terms, codeState, usageCount, usages, deleting>>
-------------------------------------------------------------------------------
(***************************************************************************)
(* Customers, and admins who edit products and the code.                   *)
(***************************************************************************)
ChangeBasket(u, lines) ==
    /\ basket' = [basket EXCEPT ![u] = lines]
    /\ UNCHANGED <<goods, terms, codeState, usageCount, usages, deleting, co>>

ChangePrice(l, g) ==
    /\ goods' = [goods EXCEPT ![l] = g]
    /\ UNCHANGED <<basket, terms, codeState, usageCount, usages, deleting, co>>

CreateDiscountCode ==
    /\ codeState = "none"
    /\ codeState' = "exists"
    /\ UNCHANGED <<basket, goods, terms, usageCount, usages, deleting, co>>

UpdateDiscountCode(t) ==
    /\ codeState = "exists"
    /\ terms' = t
    /\ UNCHANGED <<basket, goods, codeState, usageCount, usages, deleting, co>>

\* Only an unused code may be deleted ...
DeleteDiscountCode ==
    /\ codeState = "exists" /\ usageCount = 0
    /\ deleting' = TRUE
    /\ UNCHANGED <<basket, goods, terms, codeState, usageCount, usages, co>>

\* ... and it is, used or not by now; its usage rows go with it (onDelete: Cascade).
DeleteCodeRow ==
    /\ deleting
    /\ deleting' = FALSE
    /\ codeState' = "deleted"
    /\ usageCount' = 0
    /\ usages' = [u \in Buyers |-> 0]
    /\ UNCHANGED <<basket, goods, terms, co>>

CheckoutNext ==
    \/ \E c \in Checkouts, u \in Buyers : ReadCart(c, u)
    \/ \E c \in Checkouts, company \in Companies, withCode \in BOOLEAN :
            CheckPrices(c, company, withCode)
    \/ \E c \in Checkouts : \/ FindActiveCodeOrThrow(c) \/ AssertUserEligibility(c)
                            \/ EvaluateDiscountCode(c) \/ CommitOrder(c) \/ EndCheckout(c)
    \/ \E u \in Buyers, lines \in Baskets : ChangeBasket(u, lines)
    \/ \E l \in Lines : \E g \in GoodsOf[l] : ChangePrice(l, g)
    \/ \E t \in CodeTerms : UpdateDiscountCode(t)
    \/ CreateDiscountCode
    \/ DeleteDiscountCode
    \/ DeleteCodeRow

CheckoutSpec == CheckoutInit /\ [][CheckoutNext]_checkoutVars
-------------------------------------------------------------------------------
CheckoutTypeOK ==
    /\ basket \in [Buyers -> [Lines -> Nat]]
    /\ codeState \in {"none", "exists", "deleted"}
    /\ usageCount \in Nat
    /\ usages \in [Buyers -> Nat]
    /\ \A c \in Checkouts : co[c].units \in [Lines -> Nat] /\ co[c].total \in Nat

\* Limits are checked long before a use is counted, so checkouts in flight together
\* may pass them; but by no more than the others that are in flight, whatever
\* happens to the code meanwhile (findActiveCodeOrThrow, recordDiscountCodeUsage).
\* The counter stays the number of rows.
UsageLimitsHold ==
    LET slack == Cardinality(Checkouts) - 1
    IN  /\ usageCount = SumFunctionOnSet(usages, Buyers)
        /\ usageCount <= MaxUsage + slack
        /\ \A u \in Buyers : usages[u] <= MaxUsagePerUser + slack

\* The discount of an order is spread over its lines to the last toman (the test of
\* allocateProportionally says so of the function), also when the basket changed
\* before the code was evaluated, as long as one eligible line is still bought.
DiscountIsAllocated ==
    \A c \in Checkouts : co[c].phase = "placed" =>
        LET o == co[c]
            S == o.eligible \cap Held(o.lines)
        IN  /\ Subtotal(S, o.lines, o.units) > 0 => SumFunctionOnSet(o.shares, S) = o.discount
            /\ \A l \in Lines \ S : o.shares[l] = 0
            /\ \A l \in S : o.shares[l] >= 0
===============================================================================
