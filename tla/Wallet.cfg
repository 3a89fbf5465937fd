\* Overlapping requests.  Only the amount 2 is an acceptable deposit; deductions
\* carry any of the three.
SPECIFICATION FairSpec
CONSTANTS
    c1 = c1
    c2 = c2
    d1 = d1
    d2 = d2
    Charges <- MCCharges
    Deductions <- MCDeductions
    Amounts <- MCAmounts
    MinDeposit = 2
    MaxDeposit = 2
    Serialized = FALSE
INVARIANTS
    TypeOK
    BalanceNeverNegative
    NoMoneyMinted
    RowAgreesWithSquare
PROPERTIES
    DepositSettles
CHECK_DEADLOCK FALSE
