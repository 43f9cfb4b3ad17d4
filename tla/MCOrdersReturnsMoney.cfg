\* A cancelled order keeps the wallet part of a mixed payment.
SPECIFICATION Spec
CONSTANTS
    v1 = v1
    p1 = p1
    Users = {u1}
    Variants = {v1}
    Products = {p1}
    ProductOf <- MCProductOf
    InitialStock <- MCOneUnit
    Balances = {1}
    Totals = {2}
    PaymentMethods = {"MIXED"}
    Quantities = {1}
    OrderIds = {1}
    Requests = {r1, r2}
    Job = Job
    AdminStatuses = {}
    MaxSold = 0
    Nobody = Nobody
INVARIANT CancellationReturnsMoney
CHECK_DEADLOCK FALSE
