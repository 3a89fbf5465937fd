\* A claim is filed, decided on and edited by overlapping requests, with
\* delayed deletions of files.
SPECIFICATION Spec
CONSTANTS
    n1 = n1
    n2 = n2
    s1 = s1
    s2 = s2
    s3 = s3
    u1 = u1
    u2 = u2
    d1 = d1
    k1 = k1
    o1 = o1
    f1 = f1
    f2 = f2
    Requests <- MCRequests
    RoleOf <- MCRoleOf
    Files = {f1, f2}
    Arriving <- MCArriving
    MaxFaults = 1
INVARIANTS
    TypeOK
    DocumentKeepsFile
PROPERTIES
    StatusFollowsTable
    OrphansGo
CHECK_DEADLOCK FALSE
