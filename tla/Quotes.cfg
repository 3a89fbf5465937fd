\* Overlapping requests create, edit, convert, delete and favour one quote.
SPECIFICATION Spec
CONSTANTS
    c1 = c1
    d1 = d1
    v1 = v1
    v2 = v2
    s1 = s1
    e1 = e1
    e2 = e2
    m1 = m1
    x1 = x1
    f1 = f1
    f2 = f2
    u1 = u1
    Requests <- MCRequests
    RoleOf <- MCRoleOf
    UserOf <- MCUserOf
    Kinds <- MCKinds
    Starts <- MCStarts
    Sends <- MCSends
    Together <- MCTogether
    MaxFaults = 1
INVARIANTS
    TypeOK
    ReferencesStand
    OneAddress
    EditsComeWhole
    HalfMadeWasCutShort
PROPERTIES
    StatusFollowsTable
CHECK_DEADLOCK FALSE
