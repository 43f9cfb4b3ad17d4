\* A product with two SKUs; one currency, changed three times, beside one edit or
\* recomputation of the product; two comments; two values of an attribute and two
\* variants.  Two handlers each, the refreshing job being one of the catalog's.
SPECIFICATION CatalogSpec
CONSTANTS
    Parts = {"products", "rates", "comments", "attributes"}
    s1 = s1
    s2 = s2
    Skus = {s1, s2}
    VariantRows <- MCVariantRows
    NewProducts <- MCNewProducts
    ProductTerms <- MCProductTerms
    CatalogRequests = {a1, a2}
    RefreshJob = j1
    MaxEdits = 2
    NoProduct = NoProduct
    Rates = {4, 5, 6}
    ThresholdPercent = 30
    RateHandlers = {a1}
    PriceHandlers = {j1}
    MaxRateChanges = 3
    MaxComments = 2
    Stars = {2}
    Recomputations = {a1, a2}
    Deletions = {a1}
    MaxModerations = 3
    ValueIds = {v1, v2}
    Names = {n1, n2}
    ComboSkus = {s1, s2}
    AttributeRequests = {a1, a2}
    MaxAttributeChanges = 4
INVARIANTS
    CatalogTypeOK
    ListingFreshUnlessMissed
    VariantsSound
    StoredPricesFollowRate
    RatingCountsListedComments
PROPERTIES
    DiscountedListingHeals
CHECK_DEADLOCK FALSE
