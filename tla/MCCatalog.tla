------------------------------- MODULE MCCatalog ------------------------------
(***************************************************************************)
(* Products, attributes, exchange rates and comments on small instances.   *)
(***************************************************************************)
EXTENDS Catalog, TLC

CONSTANTS s1, s2

Terms(base, type, value) ==
    [pricingMode |-> "FIXED_IRT", basePrice |-> base, sourcePrice |-> 0, buffer |-> 0,
     discountType |-> type, discountValue |-> value]

Row(combo, adjustment, stock, default, active) ==
    [combo |-> combo, stock |-> stock, isDefault |-> default, isActive |-> active,
     terms |-> [priceAdjustment |-> adjustment, fixedIRT |-> 0, percentage |-> 0,
                fixedSource |-> 0]]

MCVariantRows == {Row({1}, 2, 0, TRUE, TRUE), Row({2}, 1, 1, FALSE, FALSE)}

MCNewProducts == {<<<<s1, Row({}, 0, 1, FALSE, TRUE)>>>>,
                  <<<<s1, Row({1}, 2, 1, FALSE, TRUE)>>, <<s2, Row({2}, 0, 0, FALSE, TRUE)>>>>,
                  <<<<s1, Row({1}, 2, 1, FALSE, TRUE)>>, <<s2, Row({1}, 0, 0, FALSE, TRUE)>>>>}

MCProductTerms == {Terms(4, "none", 0), Terms(4, "PERCENT", 50)}
===============================================================================
