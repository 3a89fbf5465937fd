------------------------------ MODULE MCQuotes ------------------------------
(* A small instance of Quotes: up to three requests at a time, two users,  *)
(* and a handful of payloads.                                              *)
EXTENDS Quotes

CONSTANTS c1, d1, v1, v2, s1, e1, e2, m1, x1, f1, f2, u1

MCRequests == {c1, d1, v1, v2, s1, e1, e2, m1, x1, f1, f2, u1}

MCRoleOf ==
    [r \in MCRequests |->
        CASE r = c1 -> "create"
          [] r = d1 -> "direct"
          [] r \in {v1, v2} -> "convert"
          [] r = s1 -> "reship"
          [] r \in {e1, e2} -> "edit"
          [] r = m1 -> "move"
          [] r = x1 -> "delete"
          [] r \in {f1, f2} -> "mark"
          [] r = u1 -> "unmark"]

MCUserOf == [r \in MCRequests |-> IF r = f2 THEN "bob" ELSE "ann"]

MCKinds == {"PALLET", "COURIER_PAK", "STANDARD_FTL", "SPOT_LTL"}
MCStarts == {"SAVED", "ARCHIVED"}

Via(from, to) == [e \in Ends |-> IF e = "FROM" THEN from ELSE to]

Payload(parts, odd, how, as, status) ==
    [parts |-> parts, odd |-> odd, how |-> how, as |-> as, status |-> status]

MCSends ==
    {Payload(Part, {}, Via("book", "new"), "PALLET", "DRAFT"),
     Payload(Part \ {"services", "insurance"}, {"lineItem"}, Via("own", "new"), "COURIER_PAK", "none"),
     Payload(Part \ {"insurance"}, {"serviceDetails"}, Via("own", "book"), "STANDARD_FTL",
             "CONVERTED_TO_SHIPMENT"),
     Payload({"FROM", "insurance"}, {"insurance", "spotDetails"}, Via("book", "own"), "PALLET",
             "CONVERTED_TO_SHIPMENT"),
     Payload({"FROM", "TO"}, {}, Via("own", "patch"), "COURIER_PAK", "none")}

MCTogether ==
    {{d1, e1, x1}, {c1, v1, e1}, {c1, v1, x1}, {c1, v1, m1}, {v1, v2}, {e1, e2, v1},
     {v1, s1, e1}, {x1, f1, v1}, {e1, x1}, {f1, f2, u1}, {d1, v1, s1}}
=============================================================================
