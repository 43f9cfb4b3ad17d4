\* The life of one order: every payment method, two customer or admin requests
\* and the job in flight together.
SPECIFICATION FairSpec
CONSTANTS
    v1 = v1
    p1 = p1
    Users = {u1}
    Variants = {v1}
    Products = {p1}
    ProductOf <- MCProductOf
    InitialStock <- MCOneUnit
    Balances = {2}
    Totals = {1, 3}
    PaymentMethods = {"GATEWAY", "WALLET", "MIXED", "FREIGHT_COLLECT"}
    Quantities = {1}
    OrderIds = {1}
    Requests = {r1, r2}
    Job = Job
    AdminStatuses = {"DELIVERED"}
    MaxSold = 2
    Nobody = Nobody
INVARIANTS
    TypeOK
    OneClaimHolder
    PaidOrdersAreSettled
    SoldCoversDelivered
PROPERTIES
    PaymentSpec
    UnpaidOrdersAreReleased
\* The single order identifier may be used up.
CHECK_DEADLOCK FALSE
