\* Overlapping sign-ups, codes, guesses, resets and profile updates of one
\* email address.
SPECIFICATION Spec
CONSTANTS
    n1 = n1
    n2 = n2
    g1 = g1
    g2 = g2
    v1 = v1
    v2 = v2
    v3 = v3
    h1 = h1
    w1 = w1
    w2 = w2
    p1 = p1
    p2 = p2
    c1 = c1
    m1 = m1
    m2 = m2
    d1 = d1
    q1 = q1
    r1 = r1
    r2 = r2
    Requests <- MCRequests
    RoleOf <- MCRoleOf
    PurposeOf <- MCPurposeOf
    Permissions = {"shipping", "claims"}
    MaxRetries = 2
    Arriving <- MCArriving
    MaxFaults = 1
INVARIANTS
    TypeOK
    NoStrandedCustomer
    GuessesAreCounted
    SpentTokenIsGone
CHECK_DEADLOCK FALSE
