\* Two deductions that overlap both pass the balance check.
SPECIFICATION Spec
CONSTANTS
    c1 = c1
    c2 = c2
    d1 = d1
    d2 = d2
    Charges <- MCCharges
    Deductions <- MCDeductions
    Amounts <- MCAmounts
    MinDeposit = 2
    MaxDeposit = 2
    Serialized = FALSE
INVARIANT DeductionsCovered
CHECK_DEADLOCK FALSE
