------------------------------- MODULE Pricing --------------------------------
(***************************************************************************)
(* Prices, as pricingEngine.ts and utils/pricing.ts compute them.          *)
(* Numbers that may have a fraction are kept in units of 1/Scale, which is *)
(* exact for a percentage of a percentage of a percentage of an integer.   *)
(***************************************************************************)
EXTENDS Integers

Scale == 1000000

\* Math.round: halves go up.
Rounded(x) == (x + Scale \div 2) \div Scale

\* For x a multiple of 100.
PercentOf(x, percent) == (x \div 100) * percent

AtMost(a, b) == IF a < b THEN a ELSE b

AtLeast(a, b) == IF a > b THEN a ELSE b
-------------------------------------------------------------------------------
\* What the modifiers of a variant add up to, by type, with its priceAdjustment
\* as one more of type FIXED_IRT.
BuildVariantModifiers(variant) ==
    [fixedIRT |-> variant.fixedIRT + variant.priceAdjustment,
     percentage |-> variant.percentage,
     fixedSource |-> variant.fixedSource]

FixedPrice(product, mods) ==
    (product.basePrice + mods.fixedIRT) * Scale + PercentOf(product.basePrice * Scale, mods.percentage)

\* sourcePrice with its percentages and additions, converted, with the buffer on
\* top, and then the amounts in tomans.
CurrencyPrice(product, rate, mods) ==
    LET source == product.sourcePrice * Scale
        sourceAmount == source + PercentOf(source, mods.percentage) + mods.fixedSource * Scale
        converted == sourceAmount * rate
    IN  converted + PercentOf(converted, product.buffer) + mods.fixedIRT * Scale

PriceBeforeDiscount(product, rate, mods) ==
    IF product.pricingMode = "FIXED_IRT" THEN FixedPrice(product, mods)
                                         ELSE CurrencyPrice(product, rate, mods)

\* The engine's discount: a part of the unrounded price.
ApplyProductDiscount(price, type, value) ==
    LET raw == IF type = "PERCENT" THEN PercentOf(price, AtMost(value, 100)) ELSE value * Scale
        amount == IF type = "none" \/ value = 0 THEN 0 ELSE AtLeast(0, AtMost(raw, price))
    IN  Rounded(price) - Rounded(amount)

CalculateFinalPrice(product, rate, mods) ==
    ApplyProductDiscount(PriceBeforeDiscount(product, rate, mods),
                         product.discountType, product.discountValue)

\* calculateVariantPrice as the product's aggregates and pages use it.
ListedPrice(product, rate, variant) ==
    CalculateFinalPrice(product, rate, BuildVariantModifiers(variant))

\* Faulty: an amount is taken for a percentage.
AnyDiscountAsPercent(originalPrice, type, value) ==
    AtLeast(0, originalPrice - Rounded(PercentOf(originalPrice * Scale, value)))

\* The cart's and the order's discount: a part of the rounded price.
ComputeProductEffectivePrice(originalPrice, type, value) ==
    LET amount == IF type = "PERCENT" THEN Rounded(PercentOf(originalPrice * Scale, value)) ELSE value
    IN  IF type = "none" \/ value = 0 THEN originalPrice ELSE AtLeast(0, originalPrice - amount)

\* calculateVariantPrice is called without the product's discount here.
ComputeVariantOriginalPrice(product, rate, variant) ==
    Rounded(PriceBeforeDiscount(product, rate, BuildVariantModifiers(variant)))

CartUnitPrice(product, rate, variant) ==
    ComputeProductEffectivePrice(ComputeVariantOriginalPrice(product, rate, variant),
                                 product.discountType, product.discountValue)
===============================================================================
