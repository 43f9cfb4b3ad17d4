--------------------------------- MODULE Sales ---------------------------------
(***************************************************************************)
(* Returns, carts, checkouts and prices.  They share no state, so they run *)
(* side by side: a behaviour is one of its part only, or a single price.   *)
(***************************************************************************)
EXTENDS OrderReturns, Carts, Checkout

CONSTANTS
    Parts,             \* the parts to look at
    Quotes             \* products, rates and variants to price

\* As for the goods of Checkout: no modifier takes a price below zero.
ASSUME QuotesAreNatural ==
    \A q \in Quotes :
        /\ q.product.discountValue \in Nat
        /\ PriceBeforeDiscount(q.product, q.rate, BuildVariantModifiers(q.variant)) \in Nat

VARIABLES part, quote

salesVars == <<part, quote, returnsVars, cartsVars, checkoutVars>>
-------------------------------------------------------------------------------
NoQuote == CHOOSE q \in Quotes : TRUE

SalesInit ==
    /\ part \in Parts
    /\ ReturnsInit /\ CartsInit /\ CheckoutInit
    /\ quote \in Quotes
    /\ part # "quotes" => quote = NoQuote
    /\ part # "carts" => shelf = [v \in Variants |-> 0]
    /\ part # "checkout" => terms = AnyTerms

SalesNext ==
    /\ UNCHANGED <<part, quote>>
    /\ \/ part = "returns" /\ ReturnsNext /\ UNCHANGED <<cartsVars, checkoutVars>>
       \/ part = "carts" /\ CartsNext /\ UNCHANGED <<returnsVars, checkoutVars>>
       \/ part = "checkout" /\ CheckoutNext /\ UNCHANGED <<returnsVars, cartsVars>>

SalesSpec == SalesInit /\ [][SalesNext]_salesVars
-------------------------------------------------------------------------------
\* The types of all parts; no total, price, quantity or count falls below zero.
SalesTypeOK == ReturnsTypeOK /\ CartsTypeOK /\ CheckoutTypeOK

\* Two formulas compute a price: listings discount the unrounded price, cart and order
\* the rounded one.  They never differ by more than one toman, nor below zero
\* (pricingEngine.ts 48-60 and utils/pricing.ts 17-54).
ListedPriceIsCharged ==
    LET listed == ListedPrice(quote.product, quote.rate, quote.variant)
        charged == CartUnitPrice(quote.product, quote.rate, quote.variant)
    IN  listed >= 0 /\ charged >= 0 /\ listed - charged \in -1 .. 1
===============================================================================
