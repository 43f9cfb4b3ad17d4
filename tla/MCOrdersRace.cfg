\* Two orders after the last unit: checkouts, payments and cancellations race.
SPECIFICATION Spec
CONSTANTS
    v1 = v1
    p1 = p1
    Users = {u1}
    Variants = {v1}
    Products = {p1}
    ProductOf <- MCProductOf
    InitialStock <- MCOneUnit
    Balances = {1}
    Totals = {2}
    PaymentMethods = {"MIXED"}
    Quantities = {1}
    OrderIds = {1, 2}
    Requests = {r1, r2}
    Job = Job
    AdminStatuses = {}
    MaxSold = 0
    Nobody = Nobody
SYMMETRY RequestSymmetry
INVARIANTS
    StockNeverNegative
    StockConserved
    RefundsMatchPayments
    NeverUndercharged
PROPERTIES
    ReservationSpec
\* Both order identifiers may be used up.
CHECK_DEADLOCK FALSE
