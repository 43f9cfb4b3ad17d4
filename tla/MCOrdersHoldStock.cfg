\* A payment is verified after the order was cancelled.
SPECIFICATION Spec
CONSTANTS
    v1 = v1
    p1 = p1
    Users = {u1}
    Variants = {v1}
    Products = {p1}
    ProductOf <- MCProductOf
    InitialStock <- MCOneUnit
    Balances = {1}
    Totals = {2}
    PaymentMethods = {"GATEWAY"}
    Quantities = {1}
    OrderIds = {1}
    Requests = {r1, r2}
    Job = Job
    AdminStatuses = {}
    MaxSold = 0
    Nobody = Nobody
INVARIANT FulfilledOrdersHoldStock
CHECK_DEADLOCK FALSE
