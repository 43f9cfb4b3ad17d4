\* Two admins approve one withdrawal at the same time.
SPECIFICATION Spec
CONSTANTS
    Users = {u1}
    Amounts = {1}
    Adjustments <- MCAdjustments
    ChargeIds = {1, 2}
    WithdrawalIds = {1}
    Requests = {r1, r2}
    MaxAdjustments = 0
    Nobody = Nobody
INVARIANT WithdrawnOnce
CHECK_DEADLOCK FALSE
