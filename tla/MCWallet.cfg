\* Two charges, one withdrawal and an adjustment of one wallet, in two requests
\* at a time.
SPECIFICATION Spec
CONSTANTS
    Users = {u1}
    Amounts = {1, 2}
    Adjustments <- MCAdjustments
    ChargeIds = {1, 2}
    WithdrawalIds = {1}
    Requests = {r1, r2}
    MaxAdjustments = 1
    Nobody = Nobody
SYMMETRY RequestSymmetry
INVARIANTS
    TypeOK
    MoneyAccountedFor
    WithdrawalsMatchDecisions
PROPERTIES
    ChargeSpec
\* Every charge may be settled, every withdrawal decided.
CHECK_DEADLOCK FALSE
