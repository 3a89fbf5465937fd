\* One request at a time: the handlers implement Account.
SPECIFICATION Spec
CONSTANTS
    c1 = c1
    c2 = c2
    d1 = d1
    d2 = d2
    Charges <- MCCharges
    Deductions <- MCDeductions
    Amounts <- MCAmounts
    MinDeposit = 1
    MaxDeposit = 2
    Serialized = TRUE
PROPERTIES
    ImplementsAccount
CHECK_DEADLOCK FALSE
