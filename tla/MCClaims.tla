------------------------------ MODULE MCClaims ------------------------------
(* A small instance of Claims: three requests at a time besides the first, *)
(* and two files.                                                          *)
EXTENDS Claims

CONSTANTS n1, n2, s1, s2, s3, u1, u2, d1, k1, o1, f1, f2

MCRequests == {n1, n2, s1, s2, s3, u1, u2, d1, k1, o1}

MCRoleOf ==
    [r \in MCRequests |->
        CASE r \in {n1, n2} -> "create"
          [] r \in {s1, s2, s3} -> "decide"
          [] r \in {u1, u2} -> "update"
          [] r = d1 -> "remove"
          [] r = k1 -> "unlink"
          [] r = o1 -> "comment"]

MCArriving ==
    {{n1, n2, o1}, {n1, s1, s2, s3}, {n1, u1, u2}, {n1, u1, u2, d1}, {n1, u1, d1, k1}}
=============================================================================
