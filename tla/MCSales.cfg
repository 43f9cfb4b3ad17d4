\* One order with two items, one return and two administrators; a customer's and a
\* guest's cart; two checkouts with one code; some 600 prices.
SPECIFICATION SalesSpec
CONSTANTS
    Parts = {"returns", "carts", "checkout", "quotes"}
    Quotes <- MCQuotes
    i1 = i1
    i2 = i2
    v1 = v1
    v2 = v2
    u1 = u1
    h1 = h1
    h2 = h2
    a1 = a1
    a2 = a2
    OrderItems = {i1, i2}
    WholeOrder = WholeOrder
    ReturnIds = {1}
    RefundAmounts = {0, 1}
    MaxRedone = 1
    ReturnHandlers = {c1}
    ReviewHandlers = {a1, a2}
    NoReturn = NoReturn
    Variants = {v1, v2}
    MaxShelf = 1
    Quantities = {2}
    CartHandlers = {h1, h2}
    Buyers = {u1}
    Lines <- MCLines
    Baskets <- MCBaskets
    CategoriesOf <- MCCategoriesOf
    GramsOf <- MCGramsOf
    GoodsOf <- MCGoodsOf
    Companies <- MCCompanies
    CodeTerms <- MCCodeTerms
    MaxUsage = 1
    MaxUsagePerUser = 1
    PriceChangeThreshold = 1
    Distance = 2
    Checkouts = {h1, h2}
    MaxOrders = 3
    Nobody = Nobody
INVARIANTS
    SalesTypeOK
    ReturnEffectsAreCounted
    
    LinesWithinShelf
    UsageLimitsHold
    DiscountIsAllocated
    ListedPriceIsCharged
SYMMETRY MCSymmetry
CHECK_DEADLOCK FALSE
