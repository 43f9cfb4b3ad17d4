------------------------------- MODULE MCSales --------------------------------
(***************************************************************************)
(* Returns, carts, checkouts and prices on small instances.                *)
(***************************************************************************)
EXTENDS Sales, TLC

CONSTANTS i1, i2, v1, v2, u1, h1, h2, a1, a2

Product(mode, base, source, buffer, type, value) ==
    [pricingMode |-> mode, basePrice |-> base, sourcePrice |-> source, buffer |-> buffer,
     discountType |-> type, discountValue |-> value]

Variant(adjustment, fixed, percent, fixedSource) ==
    [priceAdjustment |-> adjustment, fixedIRT |-> fixed, percentage |-> percent,
     fixedSource |-> fixedSource]

Plain == Variant(0, 0, 0, 0)

Priced(product, rate, variant) == [product |-> product, rate |-> rate, variant |-> variant]

\* A price of 3, and one of 8 with 25% off.
MCGoodsOf ==
    <<{Priced(Product("FIXED_IRT", 3, 0, 0, "none", 0), 0, Plain),
       Priced(Product("FIXED_IRT", 4, 0, 0, "PERCENT", 25), 0, Variant(2, 0, 50, 0))},
      {Priced(Product("CURRENCY_BASED", 0, 1, 0, "none", 0), 4, Plain)}>>

MCQuotes ==
    {Priced(Product("FIXED_IRT", b, 0, 0, d[1], d[2]), 0, Variant(a, 0, p, 0)) :
        b \in 0 .. 6, a \in 0 .. 1, p \in {0, 10, 25, 50},
        d \in {<<"none", 0>>, <<"PERCENT", 50>>, <<"PERCENT", 33>>, <<"FIXED", 2>>, <<"PERCENT", 100>>}}
    \cup
    {Priced(Product("CURRENCY_BASED", 0, s, buf, d[1], d[2]), r, Variant(0, 1, p, f)) :
        s \in 0 .. 3, buf \in {0, 10}, r \in {0, 1, 7}, p \in {0, 15}, f \in 0 .. 1,
        d \in {<<"none", 0>>, <<"PERCENT", 50>>, <<"FIXED", 3>>}}

MCSymmetry ==
    Permutations({i1, i2}) \cup Permutations({v1, v2}) \cup Permutations({h1, h2}) \cup Permutations({a1, a2})

MCLines == 1 .. 2
MCBaskets == {<<1, 2>>, <<3, 1>>}
MCCategoriesOf == <<{7}, {}>>
\* <<3, 1>> weighs 1750 grams, which costs a fraction of a toman to ship.
MCGramsOf == <<500, 250>>
MCCompanies == {[pricingType |-> "WEIGHT_DISTANCE", baseCost |-> 0, pricePerKg |-> 2, pricePerKm |-> 1]}

Terms(type, value, cap, min, products, categories, users, active) ==
    [type |-> type, value |-> value, maxDiscountAmount |-> cap, minCartAmount |-> min,
     products |-> products, categories |-> categories, users |-> users, isActive |-> active]

MCCodeTerms == {Terms("PERCENT", 50, 4, 7, {}, {}, {}, TRUE),
                Terms("FIXED", 20, 0, 0, {}, {7}, {u1}, TRUE)}
===============================================================================
