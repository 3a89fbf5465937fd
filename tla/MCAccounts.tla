----------------------------- MODULE MCAccounts -----------------------------
(* A small instance of Accounts: up to four requests at a time.            *)
EXTENDS Accounts

CONSTANTS n1, n2, g1, g2, v1, v2, v3, h1, w1, w2, p1, p2, c1, m1, m2, d1, q1, r1, r2

MCRequests == {n1, n2, g1, g2, v1, v2, v3, h1, w1, w2, p1, p2, c1, m1, m2, d1, q1, r1, r2}

MCRoleOf ==
    [r \in MCRequests |->
        CASE r \in {n1, n2} -> "signup"
          [] r \in {g1, g2, h1} -> "code"
          [] r \in {v1, v2, v3, w1, w2} -> "verify"
          [] r \in {p1, p2} -> "reset"
          [] r = c1 -> "change"
          [] r \in {m1, m2} -> "member"
          [] r = d1 -> "remove"
          [] r = q1 -> "profile"
          [] r \in {r1, r2} -> "review"]

MCPurposeOf ==
    [r \in MCRequests |-> IF r \in {h1, w1, w2} THEN "password_reset" ELSE "email_verification"]

MCArriving ==
    {{n1, n2, d1}, {n1, g1, v1}, {g1, g2, v1}, {g1, v1, v2, v3}, {h1, w1, w2, p1},
     {h1, w1, p1, p2}, {h1, w1, p1, c1}, {m1, m2, d1}, {q1, m1, m2}, {q1, n1, m1}, {q1, r1, r2}}
=============================================================================
